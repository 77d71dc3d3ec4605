---------------------------- MODULE CommonProofs ----------------------------
(***************************************************************************)
(* Lemmas that several proofs share: the elements of a sequence at a set   *)
(* of positions (Subsequence), and the byte level (Wire): a tag or a value *)
(* is read inside its slice, and is the same wherever the slice ends and   *)
(* whatever lies around it.                                                *)
(***************************************************************************)
EXTENDS Wire, Subsequence, FunctionTheorems, FiniteSetTheorems, SequenceTheorems,
        WellFoundedInduction, TLAPS

\* A set of numbers has a least one.
LEMMA LeastPosition ==
    ASSUME NEW T, T \subseteq Nat, T # {}
    PROVE  \E i \in T : \A j \in T : ~(j < i)
<1>1. IsWellFoundedOn(OpToRel(<, Nat), Nat)
  BY NatLessThanWellFounded
<1>2. \E i \in T : \A j \in T : ~(<<j, i>> \in OpToRel(<, Nat))
  BY <1>1, WFMin
<1>3. \A i, j \in Nat : j < i => <<j, i>> \in OpToRel(<, Nat)
  BY DEF OpToRel
<1>4. QED
  BY <1>2, <1>3

-----------------------------------------------------------------------------
(* Positions *)

\* How many positions of I are not behind i.
Rank(I, i) == Cardinality({j \in I : j <= i})

Positions(I) == I \subseteq Int /\ IsFiniteSet(I)

(* Ranks count from one and grow with the position.                         *)
LEMMA RankGrows ==
    ASSUME NEW I, Positions(I), NEW i \in I
    PROVE  /\ Rank(I, i) \in 1 .. Cardinality(I)
           /\ \A j \in I : i < j => Rank(I, i) < Rank(I, j)
<1> DEFINE Upto(x) == {j \in I : j <= x}
<1>1. \A x : Upto(x) \in SUBSET I
  OBVIOUS
<1>2. \A x : /\ IsFiniteSet(Upto(x)) /\ Cardinality(Upto(x)) \in Nat
             /\ Cardinality(Upto(x)) <= Cardinality(I)
  BY <1>1, FS_Subset, FS_CardinalityType DEF Positions
<1>3. i \in Upto(i) /\ Cardinality(Upto(i)) # 0
  <2>1. i \in Upto(i)
    BY DEF Positions
  <2> QED
    BY <2>1, <1>2, FS_EmptySet
<1>4. ASSUME NEW j \in I, i < j
      PROVE  Cardinality(Upto(i)) < Cardinality(Upto(j))
  <2>1. Upto(i) \in SUBSET Upto(j) /\ j \in Upto(j) /\ j \notin Upto(i)
    <3>1. \A x \in I : x \in Int
      BY DEF Positions
    <3>2. \A x \in I : x <= i => x <= j
      BY <1>4, <3>1
    <3>3. j <= j /\ ~(j <= i)
      BY <1>4, <3>1
    <3> QED
      BY <3>2, <3>3
  <2>2. /\ Cardinality(Upto(i)) <= Cardinality(Upto(j))
        /\ Cardinality(Upto(j)) # Cardinality(Upto(i))
    <3> HIDE DEF Upto
    <3> QED
      BY <1>2, <2>1, FS_Subset
  <2> QED
    BY <1>2, <2>2
<1>5. Cardinality(I) \in Nat
  BY FS_CardinalityType DEF Positions
<1>6. \A x : Rank(I, x) = Cardinality(Upto(x))
  BY DEF Rank
<1> HIDE DEF Upto
<1>7. Rank(I, i) \in 1 .. Cardinality(I)
  BY <1>2, <1>3, <1>5, <1>6
<1> QED
  BY <1>4, <1>6, <1>7

(* The position of rank k is the k-th.                                      *)
LEMMA NthIs ==
    ASSUME NEW I, Positions(I), NEW i \in I
    PROVE  Nth(I, Rank(I, i)) = i
<1>1. \A j \in I : Rank(I, j) = Rank(I, i) => j = i
  <2> SUFFICES ASSUME NEW j \in I, Rank(I, j) = Rank(I, i), j # i
               PROVE  FALSE
    OBVIOUS
  <2>1. i < j \/ j < i
    BY DEF Positions
  <2>2. Rank(I, i) \in Int /\ Rank(I, j) \in Int
    BY RankGrows
  <2>3. i < j => Rank(I, i) < Rank(I, j)
    BY RankGrows
  <2>4. j < i => Rank(I, j) < Rank(I, i)
    BY RankGrows
  <2> QED
    BY <2>1, <2>2, <2>3, <2>4
<1> QED
  BY <1>1 DEF Nth, Rank

(* Every rank from one to the number of positions is some position's.       *)
LEMMA NthExists ==
    ASSUME NEW I, Positions(I), NEW k \in 1 .. Cardinality(I)
    PROVE  Nth(I, k) \in I /\ Rank(I, Nth(I, k)) = k
<1> DEFINE n == Cardinality(I)
           rank == [i \in I |-> Rank(I, i)]
<1>1. n \in Nat /\ IsFiniteSet(1 .. n) /\ Cardinality(1 .. n) = n
  <2>1. n \in Nat
    BY FS_CardinalityType DEF Positions
  <2>2. IsFiniteSet(1 .. n) /\ Cardinality(1 .. n) = IF 1 > n THEN 0 ELSE n - 1 + 1
    BY <2>1, FS_Interval
  <2> QED
    BY <2>1, <2>2
<1>2. rank \in [I -> 1 .. n]
  BY RankGrows
<1>3. \A i, j \in I : rank[i] = rank[j] => i = j
  <2> SUFFICES ASSUME NEW i \in I, NEW j \in I, Rank(I, i) = Rank(I, j)
               PROVE  i = j
    OBVIOUS
  <2>1. Nth(I, Rank(I, i)) = i /\ Nth(I, Rank(I, j)) = j
    BY NthIs
  <2> QED
    BY <2>1
<1>4. rank \in Injection(I, 1 .. n)
  BY <1>2, <1>3, Fun_IsInj
<1>5. rank \in Surjection(I, 1 .. n)
  BY <1>1, <1>4, FS_Injection
<1>6. PICK i \in I : rank[i] = k
  <2>1. k \in 1 .. n
    OBVIOUS
  <2> HIDE DEF n, rank
  <2> QED
    BY <1>5, <2>1 DEF Surjection
<1>7. Rank(I, i) = k
  BY <1>6
<1> QED
  BY <1>7, NthIs

(* No positions, no elements.                                               *)
LEMMA NoPositions == \A s : AtPositions(s, {}) = <<>>
<1>1. Cardinality({}) = 0
  BY FS_EmptySet
<1> QED
  BY <1>1 DEF AtPositions

(* The elements are a sequence.                                             *)
LEMMA AtPositionsIs ==
    ASSUME NEW s, NEW I, Positions(I), NEW S, \A i \in I : s[i] \in S
    PROVE  /\ AtPositions(s, I) \in Seq(S)
           /\ Len(AtPositions(s, I)) = Cardinality(I)
           /\ \A k \in 1 .. Cardinality(I) : AtPositions(s, I)[k] = s[Nth(I, k)]
<1>1. Cardinality(I) \in Nat
  BY FS_CardinalityType DEF Positions
<1>2. \A k \in 1 .. Cardinality(I) : s[Nth(I, k)] \in S
  BY NthExists
<1>3. AtPositions(s, I) \in [1 .. Cardinality(I) -> S]
  BY <1>2 DEF AtPositions
<1>4. AtPositions(s, I) \in Seq(S)
  BY <1>1, <1>3, SeqDef
<1> QED
  BY <1>1, <1>3, <1>4 DEF AtPositions

(* Sequences that agree on the positions have the same elements there.      *)
LEMMA SameAtPositions ==
    ASSUME NEW s, NEW t, NEW I, Positions(I), \A i \in I : s[i] = t[i]
    PROVE  AtPositions(s, I) = AtPositions(t, I)
<1>1. \A k \in 1 .. Cardinality(I) : s[Nth(I, k)] = t[Nth(I, k)]
  BY NthExists
<1> QED
  BY <1>1 DEF AtPositions

(* A position in front of all others gives the first element.               *)
LEMMA FirstOfPositions ==
    ASSUME NEW s, NEW I, Positions(I), NEW p \in Int, \A i \in I : p < i,
           NEW S, \A i \in I \cup {p} : s[i] \in S
    PROVE  AtPositions(s, I \cup {p}) = <<s[p]>> \o AtPositions(s, I)
<1> DEFINE J == I \cup {p}
           n == Cardinality(I)
<1>1. p \notin I /\ Positions(J) /\ Cardinality(J) = n + 1 /\ n \in Nat
  BY FS_AddElement, FS_CardinalityType DEF Positions
<1>2. Rank(J, p) = 1
  <2>1. p <= p /\ \A j \in I : ~(j <= p)
    BY DEF Positions
  <2>2. {j \in J : j <= p} = {p}
    BY <2>1
  <2> QED
    BY <2>2, FS_Singleton DEF Rank
<1>3. ASSUME NEW i \in I
      PROVE  Rank(J, i) = Rank(I, i) + 1
  <2> DEFINE U == {j \in I : j <= i}
  <2>1. {j \in J : j <= i} = U \cup {p}
    BY DEF Positions
  <2>2. IsFiniteSet(U) /\ p \notin U
    BY <1>1, FS_Subset DEF Positions
  <2>3. Cardinality(U \cup {p}) = Cardinality(U) + 1
    BY <2>2, FS_AddElement
  <2> QED
    BY <2>1, <2>3 DEF Rank
<1>4. Nth(J, 1) = p
  BY <1>1, <1>2, NthIs
<1>5. ASSUME NEW k \in 1 .. n
      PROVE  Nth(J, k + 1) = Nth(I, k)
  <2>1. Nth(I, k) \in I /\ Rank(I, Nth(I, k)) = k
    BY NthExists
  <2>2. Nth(J, Rank(J, Nth(I, k))) = Nth(I, k)
    BY <1>1, <2>1, NthIs
  <2>3. Rank(J, Nth(I, k)) = k + 1
    BY <1>3, <2>1
  <2> QED
    BY <2>2, <2>3
<1>6. /\ AtPositions(s, J) \in Seq(S) /\ Len(AtPositions(s, J)) = n + 1
      /\ \A k \in 1 .. n + 1 : AtPositions(s, J)[k] = s[Nth(J, k)]
  <2>1. \A i \in J : s[i] \in S
    OBVIOUS
  <2> HIDE DEF J, n
  <2> QED
    BY <1>1, <2>1, AtPositionsIs
<1>7. /\ AtPositions(s, I) \in Seq(S) /\ Len(AtPositions(s, I)) = n
      /\ \A k \in 1 .. n : AtPositions(s, I)[k] = s[Nth(I, k)]
  BY AtPositionsIs
<1>8. <<s[p]>> \in Seq(S) /\ Len(<<s[p]>>) = 1 /\ <<s[p]>>[1] = s[p]
  OBVIOUS
<1> DEFINE a == AtPositions(s, J)
           b == AtPositions(s, I)
           c == <<s[p]>>
<1> HIDE DEF J, n, a, b, c
<1>9. /\ c \o b \in Seq(S) /\ Len(c \o b) = 1 + n
      /\ \A k \in 1 .. 1 + n : (c \o b)[k] = IF k <= 1 THEN c[k] ELSE b[k - 1]
  <2>1. c \in Seq(S) /\ b \in Seq(S) /\ Len(c) = 1 /\ Len(b) = n
    BY <1>7, <1>8 DEF b, c
  <2>2. /\ c \o b \in Seq(S) /\ Len(c \o b) = Len(c) + Len(b)
        /\ \A k \in 1 .. Len(c) + Len(b) :
              (c \o b)[k] = IF k <= Len(c) THEN c[k] ELSE b[k - Len(c)]
    BY <2>1, ConcatProperties
  <2> QED
    BY <2>1, <2>2
<1>10. \A k \in 1 .. n + 1 : a[k] = (c \o b)[k]
  <2> TAKE k \in 1 .. n + 1
  <2>1. CASE k = 1
    BY <1>1, <1>4, <1>6, <1>8, <1>9, <2>1 DEF a, c
  <2>2. CASE k # 1
    <3>1. k - 1 \in 1 .. n /\ (k - 1) + 1 = k
      BY <1>1, <2>2
    <3>2. Nth(J, k) = Nth(I, k - 1)
      BY <1>5, <3>1
    <3>3. a[k] = s[Nth(J, k)] /\ b[k - 1] = s[Nth(I, k - 1)]
      BY <1>6, <1>7, <3>1 DEF a, b
    <3>4. (c \o b)[k] = b[k - 1]
      BY <1>1, <1>9, <2>2
    <3> QED
      BY <3>2, <3>3, <3>4
  <2> QED
    BY <2>1, <2>2
<1>11. a \in Seq(S) /\ Len(a) = n + 1 /\ Len(c \o b) = n + 1
  BY <1>1, <1>6, <1>9 DEF a
<1>12. a = c \o b
  BY <1>9, <1>10, <1>11, SeqEqual
<1> QED
  BY <1>12 DEF a, b, c, J

(* A position behind all others gives the last element.                     *)
LEMMA LastOfPositions ==
    ASSUME NEW s, NEW I, Positions(I), NEW p \in Int, \A i \in I : i < p,
           NEW S, \A i \in I \cup {p} : s[i] \in S
    PROVE  AtPositions(s, I \cup {p}) = Append(AtPositions(s, I), s[p])
<1> DEFINE J == I \cup {p}
           n == Cardinality(I)
<1>1. p \notin I /\ Positions(J) /\ Cardinality(J) = n + 1 /\ n \in Nat
  BY FS_AddElement, FS_CardinalityType DEF Positions
<1>2. Rank(J, p) = n + 1
  <2>1. \A j \in J : j <= p
    BY DEF Positions
  <2>2. {j \in J : j <= p} = J
    BY <2>1, Zenon
  <2> QED
    BY <1>1, <2>2 DEF Rank
<1>3. ASSUME NEW i \in I
      PROVE  Rank(J, i) = Rank(I, i)
  <2>1. {j \in J : j <= i} = {j \in I : j <= i}
    BY DEF Positions
  <2> QED
    BY <2>1 DEF Rank
<1>4. Nth(J, n + 1) = p
  BY <1>1, <1>2, NthIs
<1>5. ASSUME NEW k \in 1 .. n
      PROVE  Nth(J, k) = Nth(I, k)
  <2>1. Nth(I, k) \in I /\ Rank(I, Nth(I, k)) = k
    BY NthExists
  <2>2. Nth(J, Rank(J, Nth(I, k))) = Nth(I, k)
    BY <1>1, <2>1, NthIs
  <2> QED
    BY <1>3, <2>1, <2>2
<1>6. /\ AtPositions(s, J) \in Seq(S) /\ Len(AtPositions(s, J)) = n + 1
      /\ \A k \in 1 .. n + 1 : AtPositions(s, J)[k] = s[Nth(J, k)]
  <2>1. \A i \in J : s[i] \in S
    OBVIOUS
  <2> HIDE DEF J, n
  <2> QED
    BY <1>1, <2>1, AtPositionsIs
<1>7. /\ AtPositions(s, I) \in Seq(S) /\ Len(AtPositions(s, I)) = n
      /\ \A k \in 1 .. n : AtPositions(s, I)[k] = s[Nth(I, k)]
  BY AtPositionsIs
<1> DEFINE a == AtPositions(s, J)
           b == AtPositions(s, I)
           c == Append(b, s[p])
<1>8. /\ c \in Seq(S) /\ Len(c) = n + 1
      /\ \A k \in 1 .. n : c[k] = b[k]
      /\ c[n + 1] = s[p]
  <2>1. b \in Seq(S) /\ Len(b) = n /\ s[p] \in S
    BY <1>7
  <2> HIDE DEF b
  <2>2. /\ c \in Seq(S) /\ Len(c) = Len(b) + 1
        /\ \A i \in 1 .. Len(b) : c[i] = b[i]
        /\ c[Len(b) + 1] = s[p]
    BY <2>1, AppendProperties
  <2> QED
    BY <2>1, <2>2
<1> HIDE DEF J, n, a, b, c
<1>9. \A k \in 1 .. n + 1 : a[k] = c[k]
  <2> TAKE k \in 1 .. n + 1
  <2>1. CASE k = n + 1
    BY <1>1, <1>4, <1>6, <1>8, <2>1 DEF a
  <2>2. CASE k # n + 1
    <3>1. k \in 1 .. n
      BY <1>1, <2>2
    <3> QED
      BY <1>1, <1>5, <1>6, <1>7, <1>8, <3>1 DEF a, b
  <2> QED
    BY <2>1, <2>2
<1>10. a \in Seq(S) /\ Len(a) = n + 1
  BY <1>6 DEF a
<1>11. a = c
  BY <1>8, <1>9, <1>10, SeqEqual
<1> QED
  BY <1>11 DEF a, b, c, J

-----------------------------------------------------------------------------
(* The byte level *)

\* A varint of at most ten bytes, inside the slice.
LEMMA VarintInside ==
    ASSUME NEW s \in Seq(Byte), NEW i \in Nat, NEW e \in Nat, i <= e
    PROVE  LET v == readVarint(s, i, e)
           IN  /\ v.ok \in BOOLEAN /\ v.index \in Nat
               /\ i <= v.index /\ v.index <= e /\ v.index - i <= MaxVarint
               /\ v.ok => i < v.index
<1> DEFINE last == {k \in 1 .. MaxVarint :
                        /\ i + k <= e /\ s[i + k] < 128
                        /\ \A j \in 1 .. k - 1 : s[i + j] >= 128}
<1>1. CASE last # {}
  <2> DEFINE k == CHOOSE k \in last : TRUE
  <2>1. k \in last
    BY <1>1, Zenon
  <2>2. k \in 1 .. MaxVarint /\ i + k <= e
    BY <2>1
  <2>3. readVarint(s, i, e) = [ok |-> k < MaxVarint \/ s[i + k] <= 1, index |-> i + k]
    BY <1>1, Zenon DEF readVarint
  <2> HIDE DEF k, last
  <2>4. QED
    BY <2>2, <2>3 DEF MaxVarint
<1>2. CASE last = {}
  <2>1. readVarint(s, i, e) =
            [ok |-> FALSE, index |-> IF e - i < MaxVarint THEN e ELSE i + MaxVarint]
    BY <1>2, Zenon DEF readVarint
  <2> HIDE DEF last
  <2>2. QED
    BY <2>1 DEF MaxVarint
<1>3. QED
  BY <1>1, <1>2

LEMMA SevenBits == \A x \in 0 .. 255 : x % 128 \in 0 .. 127
  BY SMT

\* Digits are below 128, and there are no more of them than bytes.
LEMMA DigitBound ==
    ASSUME NEW s \in Seq(Byte), NEW i \in Nat, NEW j \in Nat, j <= Len(s),
           NEW k \in 1 .. MaxVarint
    PROVE  /\ Digit(s, i, j, k) \in 0 .. 127
           /\ k > j - i => Digit(s, i, j, k) = 0
<1>1. CASE i + k <= j
  <2>1. i + k \in 1 .. Len(s)
    BY <1>1 DEF MaxVarint
  <2>2. s[i + k] \in Byte
    BY <2>1, ElementOfSeq, Zenon
  <2>3. s[i + k] % 128 \in 0 .. 127
    BY <2>2, SevenBits, Zenon DEF Byte
  <2>4. Digit(s, i, j, k) = s[i + k] % 128 /\ ~(k > j - i)
    BY <1>1 DEF Digit, MaxVarint
  <2>5. QED
    BY <2>3, <2>4
<1>2. CASE ~(i + k <= j)
  BY <1>2 DEF Digit, MaxVarint
<1>3. QED
  BY <1>1, <1>2

\* The number of five digits, and the size of its tag.
Combined(a, b, c, d, f) == (a \div 8) + 16 * (b + 128 * (c + 128 * (d + 128 * f)))

LEMMA NumberOfDigits ==
    ASSUME NEW g \in [1 .. 5 -> 0 .. 127], NEW size \in Nat, 1 <= size,
           g[5] <= 15, \A k \in 2 .. 5 : k > size => g[k] = 0,
           NEW n, n = Combined(g[1], g[2], g[3], g[4], g[5])
    PROVE  n \in Nat /\ tagSize(n) \in 1 .. 5 /\ tagSize(n) <= size
<1> DEFINE a == g[1]  b == g[2]  c == g[3]  d == g[4]  f == g[5]
<1>1. /\ a \in 0 .. 127 /\ b \in 0 .. 127 /\ c \in 0 .. 127
      /\ d \in 0 .. 127 /\ f \in 0 .. 15
  BY SMT
<1>2. /\ 5 > size => f = 0
      /\ 4 > size => d = 0
      /\ 3 > size => c = 0
      /\ 2 > size => b = 0
  BY SMT
<1>3. n = Combined(a, b, c, d, f)
  OBVIOUS
<1> HIDE DEF a, b, c, d, f
<1> DEFINE m == Combined(a, b, c, d, f)
<1>4. m \in Nat /\ tagSize(m) \in 1 .. 5
  BY <1>1, SMT DEF tagSize, Combined
<1>5. tagSize(m) <= size
  BY <1>1, <1>2, SMT DEF tagSize, Combined
<1>6. QED
  BY <1>3, <1>4, <1>5, Zenon

LEMMA LengthIsNat ==
    ASSUME NEW s \in Seq(Byte), NEW i \in Nat, NEW j \in Nat, j <= Len(s)
    PROVE  Length(s, i, j) \in Nat
<1> DEFINE D(k) == Digit(s, i, j, k)
<1>1. \A k \in 1 .. MaxVarint : D(k) \in 0 .. 127
  BY DigitBound, Zenon
<1>2. 1 \in 1 .. MaxVarint /\ 2 \in 1 .. MaxVarint /\ 3 \in 1 .. MaxVarint /\ 4 \in 1 .. MaxVarint
  BY DEF MaxVarint
<1> HIDE DEF D
<1>3. D(1) + 128 * (D(2) + 128 * (D(3) + 128 * D(4))) \in Nat
  <2> DEFINE a == D(1)  b == D(2)  c == D(3)  d == D(4)
  <2>1. a \in 0 .. 127 /\ b \in 0 .. 127 /\ c \in 0 .. 127 /\ d \in 0 .. 127
    BY <1>1, <1>2, Zenon
  <2> HIDE DEF a, b, c, d
  <2>2. a + 128 * (b + 128 * (c + 128 * d)) \in Nat
    BY <2>1
  <2>3. QED
    BY <2>2, Zenon DEF a, b, c, d
<1>4. Huge \in Nat
  BY SMT DEF Huge
<1>5. QED
  BY <1>3, <1>4, Zenon DEF Length, D

\* The canonical size of a tag is never more than the bytes it is read from.
LEMMA TagSizeBound ==
    ASSUME NEW s \in Seq(Byte), NEW i \in Nat, NEW j \in Nat, i < j, j <= Len(s)
    PROVE  LET n == Number(s, i, j)
           IN  n \in Nat /\ tagSize(n) \in 1 .. 5 /\ tagSize(n) <= j - i
<1> DEFINE D(k) == Digit(s, i, j, k)
           n == Number(s, i, j)
<1>1. \A k \in 1 .. MaxVarint : D(k) \in 0 .. 127 /\ (k > j - i => D(k) = 0)
  BY DigitBound, Zenon
<1> DEFINE g == [k \in 1 .. 5 |-> D(k)]
<1>2. \A k \in 1 .. 5 : k \in 1 .. MaxVarint
  BY SMT DEF MaxVarint
<1>3. g \in [1 .. 5 -> 0 .. 127] /\ \A k \in 1 .. 5 : g[k] = D(k)
  BY <1>1, <1>2, Zenon
<1>4. CASE D(5) > 15 \/ \E k \in 6 .. MaxVarint : D(k) # 0
  <2>1. n = 0
    BY <1>4, Zenon DEF Number
  <2>2. tagSize(0) = 1
    BY SMT DEF tagSize
  <2>3. 0 \in Nat /\ 1 \in 1 .. 5 /\ 1 <= j - i
    BY SMT
  <2>4. QED
    BY <2>1, <2>2, <2>3, Zenon
<1>5. CASE ~(D(5) > 15 \/ \E k \in 6 .. MaxVarint : D(k) # 0)
  <2>1. 1 \in 1 .. 5 /\ 2 \in 1 .. 5 /\ 3 \in 1 .. 5 /\ 4 \in 1 .. 5 /\ 5 \in 1 .. 5
    BY SMT
  <2>2. D(1) = g[1] /\ D(2) = g[2] /\ D(3) = g[3] /\ D(4) = g[4] /\ D(5) = g[5]
    BY <1>3, <2>1, Zenon
  <2>3. n = Combined(D(1), D(2), D(3), D(4), D(5))
    BY <1>5, Zenon DEF Number, Combined
  <2>4. ~(g[5] > 15)
    BY <1>5, <2>2, Zenon
  <2>5. \A k \in 1 .. 5 : k > j - i => g[k] = 0
    BY <1>1, <1>2, <1>3, Zenon
  <2>6. n = Combined(g[1], g[2], g[3], g[4], g[5])
    <3> HIDE DEF D, n, g
    <3>1. QED
      BY <2>2, <2>3, Zenon
  <2> HIDE DEF D, n, g
  <2>7. j - i \in Nat /\ 1 <= j - i
    BY SMT
  <2>a. g[5] <= 15
    <3>1. g[5] \in 0 .. 127
      BY <1>3, SMT
    <3>2. \A x \in 0 .. 127 : ~(x > 15) => x <= 15
      BY SMT
    <3>3. QED
      BY <2>4, <3>1, <3>2, Zenon
  <2>b. \A k \in 2 .. 5 : k > j - i => g[k] = 0
    <3>1. \A k \in 2 .. 5 : k \in 1 .. 5
      BY SMT
    <3>2. QED
      BY <2>5, <3>1, Zenon
  <2>8. n \in Nat /\ tagSize(n) \in 1 .. 5 /\ tagSize(n) <= j - i
    BY <1>3, <2>6, <2>7, <2>a, <2>b, NumberOfDigits, Zenon
  <2>9. QED
    BY <2>8, Zenon DEF n
<1>6. QED
  BY <1>4, <1>5, Zenon

LEMMA BytesInside ==
    ASSUME NEW s \in Seq(Byte), NEW i \in Nat, NEW e \in Nat, i <= e, e <= Len(s)
    PROVE  LET b == readBytes(s, i, e)
           IN  /\ b.ok \in BOOLEAN /\ b.start \in Nat /\ b.index \in Nat
               /\ i <= b.start /\ b.start <= b.index /\ b.index <= e
<1> DEFINE v == readVarint(s, i, e)
           n == Length(s, i, v.index)
           b == readBytes(s, i, e)
<1>1. /\ v.ok \in BOOLEAN /\ v.index \in Nat
      /\ i <= v.index /\ v.index <= e
  BY VarintInside
<1>2. n \in Nat
  <2> HIDE DEF v
  <2>1. v.index <= Len(s)
    BY <1>1
  <2>2. QED
    BY <1>1, <2>1, LengthIsNat, Zenon
<1>3. /\ b.ok = (v.ok /\ Advance(v.index, e, n).ok)
      /\ b.index = Advance(v.index, e, n).index
      /\ b.start = v.index
  BY DEF readBytes
<1> HIDE DEF v, n, b
<1>4. /\ Advance(v.index, e, n).ok \in BOOLEAN
      /\ Advance(v.index, e, n).index \in Nat
      /\ v.index <= Advance(v.index, e, n).index
      /\ Advance(v.index, e, n).index <= e
  BY <1>1, <1>2 DEF Advance
<1>5. b.ok \in BOOLEAN /\ b.start \in Nat /\ b.index \in Nat
      /\ i <= b.start /\ b.start <= b.index /\ b.index <= e
  BY <1>1, <1>3, <1>4
<1>6. QED
  BY <1>5 DEF b

LEMMA ValueInside ==
    ASSUME NEW s \in Seq(Byte), NEW i \in Nat, NEW e \in Nat, i <= e, e <= Len(s),
           NEW w \in WireType
    PROVE  LET v == skipValue(s, i, e, w)
           IN  v.index \in Nat /\ i <= v.index /\ v.index <= e
<1>1. CASE w = Varint
  BY <1>1, VarintInside DEF skipValue, Varint, Fixed64, Fixed32
<1>2. CASE w = Fixed64
  BY <1>2 DEF skipValue, Varint, Fixed64, Fixed32, Advance
<1>3. CASE w = Fixed32
  BY <1>3 DEF skipValue, Varint, Fixed64, Fixed32, Advance
<1>4. CASE w \notin {Varint, Fixed64, Fixed32}
  <2>1. skipValue(s, i, e, w) =
            [ok |-> readBytes(s, i, e).ok, index |-> readBytes(s, i, e).index]
    BY <1>4 DEF skipValue
  <2>2. QED
    BY <2>1, BytesInside
<1>5. QED
  BY <1>1, <1>2, <1>3, <1>4

\* A tag inside the slice, with room for its canonical form.
LEMMA TagInside ==
    ASSUME NEW s \in Seq(Byte), NEW i \in Nat, NEW e \in Nat, i <= e, e <= Len(s),
           NEW m, readTag(s, i, e, m).ok
    PROVE  LET t == readTag(s, i, e, m)
           IN  /\ t.index \in Nat /\ i < t.index /\ t.index <= e
               /\ t.number \in Nat /\ t.wire_type \in WireType
               /\ tagSize(t.number) \in 1 .. 5
               /\ tagSize(t.number) <= t.index - i
<1> DEFINE v == readVarint(s, i, e)
           t == readTag(s, i, e, m)
<1>1. /\ v.ok /\ t.index = v.index /\ t.number = Number(s, i, v.index)
      /\ t.wire_type \in WireType
  BY DEF readTag
<1>2. v.index \in Nat /\ i < v.index /\ v.index <= e
  BY <1>1, VarintInside
<1> HIDE DEF v, t
<1>3. v.index <= Len(s)
  BY <1>2
<1>4. /\ t.number \in Nat /\ tagSize(t.number) \in 1 .. 5
      /\ tagSize(t.number) <= v.index - i
  BY <1>1, <1>2, <1>3, TagSizeBound
<1>5. QED
  <2>1. /\ t.index \in Nat /\ i < t.index /\ t.index <= e
        /\ t.number \in Nat /\ t.wire_type \in WireType
        /\ tagSize(t.number) \in 1 .. 5
        /\ tagSize(t.number) <= t.index - i
    BY <1>1, <1>2, <1>4
  <2>2. QED
    BY <2>1 DEF t

-----------------------------------------------------------------------------
(* What was read stays read where the slice ends elsewhere *)

\* The sizes of a varint at i that ends before z: at most one.
VarintSizes(s, i, z) ==
    {k \in 1 .. MaxVarint :
        /\ i + k <= z /\ s[i + k] < 128
        /\ \A j \in 1 .. k - 1 : s[i + j] >= 128}

LEMMA VarintSizeUnique ==
    ASSUME NEW s \in Seq(Byte), NEW i \in Nat,
           NEW y \in Nat, y <= Len(s), NEW z \in Nat, z <= Len(s),
           NEW k, k \in VarintSizes(s, i, y), NEW l, l \in VarintSizes(s, i, z)
    PROVE  k = l
<1>1. k \in 1 .. MaxVarint /\ l \in 1 .. MaxVarint /\ i + k <= y /\ i + l <= z
  BY DEF VarintSizes
<1>2. k \in Nat /\ l \in Nat /\ i + k \in 1 .. Len(s) /\ i + l \in 1 .. Len(s)
  BY <1>1 DEF MaxVarint
<1>3. s[i + k] \in Byte /\ s[i + l] \in Byte
  BY <1>2, ElementOfSeq, Zenon
<1>4. s[i + k] \in Nat /\ s[i + l] \in Nat
  <2>1. \A x \in Byte : x \in Nat
    BY DEF Byte
  <2>2. QED
    BY <1>3, <2>1, Zenon
<1>5. CASE k < l
  <2>1. k \in 1 .. l - 1 /\ s[i + k] < 128
    BY <1>1, <1>2, <1>5 DEF VarintSizes
  <2>2. s[i + k] >= 128
    BY <2>1 DEF VarintSizes
  <2>3. QED
    BY <1>4, <2>1, <2>2
<1>6. CASE l < k
  <2>1. l \in 1 .. k - 1 /\ s[i + l] < 128
    BY <1>1, <1>2, <1>6 DEF VarintSizes
  <2>2. s[i + l] >= 128
    BY <2>1 DEF VarintSizes
  <2>3. QED
    BY <1>4, <2>1, <2>2
<1>7. QED
  BY <1>2, <1>5, <1>6

\* What was read of a slice is read of any slice it fits into, wherever that ends.
LEMMA VarintFits ==
    ASSUME NEW s \in Seq(Byte), NEW i \in Nat, NEW e \in Nat, e <= Len(s),
           NEW f \in Nat, f <= Len(s),
           readVarint(s, i, e).ok, readVarint(s, i, e).index <= f
    PROVE  readVarint(s, i, f) = readVarint(s, i, e)
<1> DEFINE Index(z) == CHOOSE k \in VarintSizes(s, i, z) : TRUE
           Read(k) == [ok |-> k < MaxVarint \/ s[i + k] <= 1, index |-> i + k]
<1>1. ASSUME NEW z, VarintSizes(s, i, z) # {}
      PROVE  readVarint(s, i, z) = Read(Index(z)) /\ Index(z) \in VarintSizes(s, i, z)
  BY <1>1, Zenon DEF readVarint, VarintSizes
<1>2. ASSUME NEW z, VarintSizes(s, i, z) = {} PROVE ~readVarint(s, i, z).ok
  <2>1. readVarint(s, i, z) =
            [ok |-> FALSE, index |-> IF z - i < MaxVarint THEN z ELSE i + MaxVarint]
    BY <1>2, Zenon DEF readVarint, VarintSizes
  <2>2. QED
    BY <2>1
<1>3. VarintSizes(s, i, e) # {}
  BY <1>2, Zenon
<1>4. Index(e) \in VarintSizes(s, i, e) /\ readVarint(s, i, e) = Read(Index(e))
  BY <1>1, <1>3, Zenon
<1>5. i + Index(e) <= f
  <2>1. Read(Index(e)).index <= f
    BY <1>4, Zenon
  <2>2. QED
    BY <2>1
<1>6. Index(e) \in VarintSizes(s, i, f)
  BY <1>4, <1>5 DEF VarintSizes
<1>7. Index(f) \in VarintSizes(s, i, f) /\ readVarint(s, i, f) = Read(Index(f))
  BY <1>1, <1>6, Zenon
<1>8. Index(f) = Index(e)
  BY <1>4, <1>7, VarintSizeUnique, Zenon
<1>9. QED
  BY <1>4, <1>7, <1>8, Zenon

LEMMA TagFits ==
    ASSUME NEW s \in Seq(Byte), NEW i \in Nat, NEW e \in Nat, e <= Len(s),
           NEW f \in Nat, f <= Len(s), NEW m,
           readTag(s, i, e, m).ok, readTag(s, i, e, m).index <= f
    PROVE  readTag(s, i, f, m) = readTag(s, i, e, m)
<1>1. readVarint(s, i, e).ok /\ readVarint(s, i, e).index <= f
  BY DEF readTag
<1>2. readVarint(s, i, f) = readVarint(s, i, e)
  BY <1>1, VarintFits, Zenon
<1>3. QED
  BY <1>2, Zenon DEF readTag

LEMMA AdvanceFits ==
    ASSUME NEW i \in Nat, NEW e \in Nat, NEW f \in Nat, NEW n \in Nat,
           Advance(i, e, n).ok, Advance(i, e, n).index <= f
    PROVE  i <= f /\ Advance(i, f, n) = Advance(i, e, n)
<1>1. e - i >= n
  BY DEF Advance
<1>2. Advance(i, e, n) = [ok |-> TRUE, index |-> i + n]
  BY <1>1 DEF Advance
<1>3. i + n <= f
  BY <1>2
<1>4. f - i >= n /\ i <= f
  BY <1>3
<1>5. QED
  BY <1>2, <1>4 DEF Advance

LEMMA BytesFit ==
    ASSUME NEW s \in Seq(Byte), NEW i \in Nat, NEW e \in Nat, i <= e, e <= Len(s),
           NEW f \in Nat, i <= f, f <= Len(s),
           readBytes(s, i, e).ok, readBytes(s, i, e).index <= f
    PROVE  readBytes(s, i, f) = readBytes(s, i, e)
<1> DEFINE v == readVarint(s, i, e)
           j == v.index
           n == Length(s, i, j)
<1>1. /\ readBytes(s, i, e).ok = (v.ok /\ Advance(j, e, n).ok)
      /\ readBytes(s, i, e).index = Advance(j, e, n).index
  BY DEF readBytes
<1>2. v.ok /\ Advance(j, e, n).ok /\ Advance(j, e, n).index <= f
  BY <1>1, Zenon
<1>3. j \in Nat /\ i <= j /\ j <= e
  BY VarintInside, Zenon
<1>4. n \in Nat
  <2>1. j <= Len(s)
    BY <1>3
  <2>2. QED
    BY <1>3, <2>1, LengthIsNat, Zenon
<1>5. j <= f /\ Advance(j, f, n) = Advance(j, e, n)
  <2> HIDE DEF j, n
  <2>1. QED
    BY <1>2, <1>3, <1>4, AdvanceFits
<1>6. readVarint(s, i, f) = v
  BY <1>2, <1>5, VarintFits, Zenon
<1>7. QED
  BY <1>5, <1>6, Zenon DEF readBytes

LEMMA ValueFits ==
    ASSUME NEW s \in Seq(Byte), NEW i \in Nat, NEW e \in Nat, i <= e, e <= Len(s),
           NEW f \in Nat, i <= f, f <= Len(s), NEW w \in WireType,
           skipValue(s, i, e, w).ok, skipValue(s, i, e, w).index <= f
    PROVE  skipValue(s, i, f, w) = skipValue(s, i, e, w)
<1>1. CASE w = Varint
  <2>1. \A z : skipValue(s, i, z, w) = readVarint(s, i, z)
    BY <1>1 DEF skipValue, Varint, Fixed64, Fixed32
  <2>2. QED
    BY <2>1, VarintFits, Zenon
<1>2. CASE w = Fixed64
  <2>1. \A z : skipValue(s, i, z, w) = Advance(i, z, 8)
    BY <1>2 DEF skipValue, Varint, Fixed64, Fixed32
  <2>2. QED
    BY <2>1, AdvanceFits
<1>3. CASE w = Fixed32
  <2>1. \A z : skipValue(s, i, z, w) = Advance(i, z, 4)
    BY <1>3 DEF skipValue, Varint, Fixed64, Fixed32
  <2>2. QED
    BY <2>1, AdvanceFits
<1>4. CASE w \notin {Varint, Fixed64, Fixed32}
  <2>1. \A z : skipValue(s, i, z, w) =
            [ok |-> readBytes(s, i, z).ok, index |-> readBytes(s, i, z).index]
    BY <1>4 DEF skipValue
  <2>2. readBytes(s, i, e).ok /\ readBytes(s, i, e).index <= f
    BY <2>1
  <2>3. QED
    BY <2>1, <2>2, BytesFit, Zenon
<1>5. QED
  BY <1>1, <1>2, <1>3, <1>4

-----------------------------------------------------------------------------
(* What lies around a slice does not matter *)

\* The bytes of s, behind the first k of t.
Window(s, k, t) ==
    /\ k \in Nat /\ k + Len(s) <= Len(t)
    /\ \A j \in 1 .. Len(s) : t[k + j] = s[j]

LEMMA VarintSizesShift ==
    ASSUME NEW s \in Seq(Byte), NEW t \in Seq(Byte), NEW k, Window(s, k, t),
           NEW i \in Nat, NEW e \in Nat, e <= Len(s)
    PROVE  /\ VarintSizes(t, k + i, k + e) = VarintSizes(s, i, e)
           /\ \A n \in VarintSizes(s, i, e) : i + n <= e /\ t[(k + i) + n] = s[i + n]
<1>1. k \in Nat /\ Len(s) \in Nat
  BY DEF Window
<1>2. ASSUME NEW n \in 1 .. MaxVarint, i + n <= e PROVE t[(k + i) + n] = s[i + n]
  <2>1. i + n \in 1 .. Len(s) /\ (k + i) + n = k + (i + n)
    BY <1>1, <1>2 DEF MaxVarint
  <2>2. QED
    BY <2>1, Zenon DEF Window
<1>3. ASSUME NEW n \in 1 .. MaxVarint PROVE (k + i) + n <= k + e <=> i + n <= e
  BY <1>1 DEF MaxVarint
<1>4. ASSUME NEW n \in 1 .. MaxVarint, i + n <= e, NEW j \in 1 .. n - 1
      PROVE  j \in 1 .. MaxVarint /\ i + j <= e
  BY <1>4 DEF MaxVarint
<1>5. ASSUME NEW n \in 1 .. MaxVarint
      PROVE  n \in VarintSizes(t, k + i, k + e) <=> n \in VarintSizes(s, i, e)
  <2>1. CASE i + n <= e
    <3>1. t[(k + i) + n] = s[i + n]
      BY <1>2, <2>1, Zenon
    <3>2. \A j \in 1 .. n - 1 : t[(k + i) + j] = s[i + j]
      BY <1>2, <1>4, <2>1, Zenon
    <3>3. QED
      BY <1>3, <3>1, <3>2, Zenon DEF VarintSizes
  <2>2. CASE ~(i + n <= e)
    BY <1>3, <2>2, Zenon DEF VarintSizes
  <2>3. QED
    BY <2>1, <2>2, Zenon
<1>6. \A a, b : \A n \in VarintSizes(a, b, e) : n \in 1 .. MaxVarint /\ b + n <= e
  BY DEF VarintSizes
<1>7. VarintSizes(t, k + i, k + e) \subseteq 1 .. MaxVarint
      /\ VarintSizes(s, i, e) \subseteq 1 .. MaxVarint
  BY DEF VarintSizes
<1>8. VarintSizes(t, k + i, k + e) = VarintSizes(s, i, e)
  BY <1>5, <1>7
<1>9. QED
  BY <1>2, <1>6, <1>8, Zenon

\* What u is behind k, v is in the slice.
Shifted(k, u, v) == u.ok = v.ok /\ u.index = k + v.index

LEMMA VarintShifts ==
    ASSUME NEW s \in Seq(Byte), NEW t \in Seq(Byte), NEW k, Window(s, k, t),
           NEW i \in Nat, NEW e \in Nat, e <= Len(s)
    PROVE  Shifted(k, readVarint(t, k + i, k + e), readVarint(s, i, e))
<1>1. k \in Nat
  BY DEF Window
<1>2. PICK S : S = VarintSizes(s, i, e)
  OBVIOUS
<1>3. VarintSizes(t, k + i, k + e) = S
  BY <1>2, VarintSizesShift
<1> DEFINE v == readVarint(s, i, e)
           u == readVarint(t, k + i, k + e)
<1>4. CASE S # {}
  <2>1. PICK n : n = CHOOSE l \in S : TRUE
    OBVIOUS
  <2>2. n \in S
    BY <1>4, <2>1
  <2>3. v = [ok |-> n < MaxVarint \/ s[i + n] <= 1, index |-> i + n]
    BY <1>2, <1>4, <2>1, Zenon DEF readVarint, VarintSizes
  <2>4. u = [ok |-> n < MaxVarint \/ t[(k + i) + n] <= 1, index |-> (k + i) + n]
    BY <1>3, <1>4, <2>1, Zenon DEF readVarint, VarintSizes
  <2> HIDE DEF u, v
  <2>5. t[(k + i) + n] = s[i + n]
    BY <1>2, <2>2, VarintSizesShift
  <2>6. n \in Nat
    BY <1>2, <2>2 DEF VarintSizes, MaxVarint
  <2>7. (k + i) + n = k + (i + n)
    BY <1>1, <2>6
  <2>8. u.ok = v.ok
    BY <2>3, <2>4, <2>5, Zenon
  <2>9. u.index = k + v.index
    BY <2>3, <2>4, <2>7, Zenon
  <2>10. QED
    BY <2>8, <2>9, Zenon DEF Shifted, u, v
<1>5. CASE S = {}
  <2>1. v = [ok |-> FALSE, index |-> IF e - i < MaxVarint THEN e ELSE i + MaxVarint]
    BY <1>2, <1>5, Zenon DEF readVarint, VarintSizes
  <2>2. u = [ok |-> FALSE, index |-> IF (k + e) - (k + i) < MaxVarint THEN k + e
                                     ELSE (k + i) + MaxVarint]
    BY <1>3, <1>5, Zenon DEF readVarint, VarintSizes
  <2> HIDE DEF u, v
  <2>3. u.index = k + v.index
    BY <1>1, <2>1, <2>2 DEF MaxVarint
  <2>4. u.ok = v.ok
    BY <2>1, <2>2, Zenon
  <2>5. QED
    BY <2>3, <2>4, Zenon DEF Shifted, u, v
<1>6. QED
  BY <1>4, <1>5, Zenon

\* The digits of t between i and j are those of s between x and y.
SameDigits(t, i, j, s, x, y) ==
    \A n \in 1 .. MaxVarint : Digit(t, i, j, n) = Digit(s, x, y, n)

LEMMA DigitShifts ==
    ASSUME NEW s \in Seq(Byte), NEW t \in Seq(Byte), NEW k, Window(s, k, t),
           NEW i \in Nat, NEW j \in Nat, j <= Len(s)
    PROVE  SameDigits(t, k + i, k + j, s, i, j)
<1> SUFFICES ASSUME NEW n \in 1 .. MaxVarint
             PROVE  Digit(t, k + i, k + j, n) = Digit(s, i, j, n)
  BY Zenon DEF SameDigits
<1>1. k \in Nat /\ n \in Nat
  BY DEF Window, MaxVarint
<1>2. (k + i) + n <= k + j <=> i + n <= j
  BY <1>1
<1>3. ASSUME i + n <= j PROVE t[(k + i) + n] = s[i + n]
  <2>1. i + n \in 1 .. Len(s) /\ (k + i) + n = k + (i + n)
    BY <1>1, <1>3 DEF MaxVarint
  <2>2. QED
    BY <2>1, Zenon DEF Window
<1>4. QED
  BY <1>2, <1>3, Zenon DEF Digit

LEMMA NumberShifts ==
    ASSUME NEW s, NEW t, NEW i, NEW j, NEW x, NEW y, SameDigits(t, i, j, s, x, y)
    PROVE  /\ Number(t, i, j) = Number(s, x, y)
           /\ Length(t, i, j) = Length(s, x, y)
           /\ Digit(t, i, j, 1) = Digit(s, x, y, 1)
<1>1. /\ 1 \in 1 .. MaxVarint /\ 2 \in 1 .. MaxVarint /\ 3 \in 1 .. MaxVarint
      /\ 4 \in 1 .. MaxVarint /\ 5 \in 1 .. MaxVarint
      /\ \A n \in 5 .. MaxVarint : n \in 1 .. MaxVarint
      /\ \A n \in 6 .. MaxVarint : n \in 1 .. MaxVarint
  BY DEF MaxVarint
<1>2. /\ Digit(t, i, j, 1) = Digit(s, x, y, 1)
      /\ Digit(t, i, j, 2) = Digit(s, x, y, 2)
      /\ Digit(t, i, j, 3) = Digit(s, x, y, 3)
      /\ Digit(t, i, j, 4) = Digit(s, x, y, 4)
      /\ Digit(t, i, j, 5) = Digit(s, x, y, 5)
      /\ \A n \in 5 .. MaxVarint : Digit(t, i, j, n) = Digit(s, x, y, n)
      /\ \A n \in 6 .. MaxVarint : Digit(t, i, j, n) = Digit(s, x, y, n)
  BY <1>1, Zenon DEF SameDigits
<1>3. Number(t, i, j) = Number(s, x, y)
  <2>1. (\E n \in 6 .. MaxVarint : Digit(t, i, j, n) # 0)
            <=> (\E n \in 6 .. MaxVarint : Digit(s, x, y, n) # 0)
    BY <1>2, Zenon
  <2>2. QED
    BY <1>2, <2>1, Zenon DEF Number
<1>4. Length(t, i, j) = Length(s, x, y)
  <2>1. (\E n \in 5 .. MaxVarint : Digit(t, i, j, n) # 0)
            <=> (\E n \in 5 .. MaxVarint : Digit(s, x, y, n) # 0)
    BY <1>2, Zenon
  <2>2. QED
    BY <1>2, <2>1, Zenon DEF Length
<1>5. QED
  BY <1>2, <1>3, <1>4, Zenon

\* The same of a tag.
ShiftedTag(k, u, v) ==
    Shifted(k, u, v) /\ u.number = v.number /\ u.wire_type = v.wire_type

LEMMA TagShifts ==
    ASSUME NEW s \in Seq(Byte), NEW t \in Seq(Byte), NEW k, Window(s, k, t),
           NEW i \in Nat, NEW e \in Nat, i <= e, e <= Len(s), NEW m
    PROVE  ShiftedTag(k, readTag(t, k + i, k + e, m), readTag(s, i, e, m))
<1>1. PICK v : v = readVarint(s, i, e)
  OBVIOUS
<1>2. v.index \in Nat /\ v.index <= e
  BY <1>1, VarintInside
<1>3. PICK u : u = readVarint(t, k + i, k + e)
  OBVIOUS
<1>4. Shifted(k, u, v)
  BY <1>1, <1>3, VarintShifts, Zenon
<1>5. u.ok = v.ok /\ u.index = k + v.index
  BY <1>4, Zenon DEF Shifted
<1>6. k \in Nat /\ v.index <= Len(s)
  BY <1>2 DEF Window
<1>7. SameDigits(t, k + i, u.index, s, i, v.index)
  <2>1. SameDigits(t, k + i, k + v.index, s, i, v.index)
    BY <1>2, <1>6, DigitShifts, Zenon
  <2>2. QED
    BY <1>5, <2>1
<1>8. /\ Number(t, k + i, u.index) = Number(s, i, v.index)
      /\ Digit(t, k + i, u.index, 1) = Digit(s, i, v.index, 1)
  BY <1>7, NumberShifts
<1>9. u.index - (k + i) = v.index - i
  BY <1>2, <1>5, <1>6
<1>10. PICK n, w : n = Number(s, i, v.index) /\ w = Digit(s, i, v.index, 1) % 8
  OBVIOUS
<1>11. PICK o : o = (v.ok /\ v.index - i <= m /\ n # 0 /\ w \in WireType)
  OBVIOUS
<1>12. readTag(t, k + i, k + e, m) =
           [ok |-> o, index |-> u.index, number |-> n, wire_type |-> w]
  BY <1>3, <1>5, <1>8, <1>9, <1>10, <1>11, Zenon DEF readTag
<1>13. readTag(s, i, e, m) = [ok |-> o, index |-> v.index, number |-> n, wire_type |-> w]
  BY <1>1, <1>10, <1>11, Zenon DEF readTag
<1>14. QED
  BY <1>5, <1>12, <1>13 DEF Shifted, ShiftedTag

LEMMA AdvanceShifts ==
    ASSUME NEW k \in Nat, NEW i \in Nat, NEW e \in Nat, NEW n \in Nat
    PROVE  Shifted(k, Advance(k + i, k + e, n), Advance(i, e, n))
  BY DEF Advance, Shifted

LEMMA BytesShift ==
    ASSUME NEW s \in Seq(Byte), NEW t \in Seq(Byte), NEW k, Window(s, k, t),
           NEW i \in Nat, NEW e \in Nat, i <= e, e <= Len(s)
    PROVE  /\ Shifted(k, readBytes(t, k + i, k + e), readBytes(s, i, e))
           /\ readBytes(t, k + i, k + e).start = k + readBytes(s, i, e).start
<1>1. PICK v : v = readVarint(s, i, e)
  OBVIOUS
<1>2. v.index \in Nat /\ v.index <= e
  BY <1>1, VarintInside
<1>a. k \in Nat /\ v.index <= Len(s)
  BY <1>2 DEF Window
<1>3. PICK u : u = readVarint(t, k + i, k + e)
  OBVIOUS
<1>4. Shifted(k, u, v)
  BY <1>1, <1>3, VarintShifts, Zenon
<1>5. u.ok = v.ok /\ u.index = k + v.index
  BY <1>4, Zenon DEF Shifted
<1>6. SameDigits(t, k + i, u.index, s, i, v.index)
  <2>1. SameDigits(t, k + i, k + v.index, s, i, v.index)
    BY <1>2, <1>a, DigitShifts, Zenon
  <2>2. QED
    BY <1>5, <2>1
<1>7. PICK n : n = Length(s, i, v.index)
  OBVIOUS
<1>8. n \in Nat
  BY <1>2, <1>a, <1>7, LengthIsNat
<1>9. Length(t, k + i, u.index) = n
  BY <1>6, <1>7, NumberShifts
<1>10. PICK b : b = Advance(v.index, e, n)
  OBVIOUS
<1>11. PICK c : c = Advance(u.index, k + e, n)
  OBVIOUS
<1>12. Shifted(k, c, b)
  <2>1. Shifted(k, Advance(k + v.index, k + e, n), b)
    BY <1>2, <1>a, <1>8, <1>10, AdvanceShifts
  <2>2. QED
    BY <1>5, <1>11, <2>1
<1>13. c.ok = b.ok /\ c.index = k + b.index
  BY <1>12, Zenon DEF Shifted
<1>14. readBytes(s, i, e) = [ok |-> v.ok /\ b.ok, index |-> b.index, start |-> v.index]
  BY <1>1, <1>7, <1>10, Zenon DEF readBytes
<1>15. readBytes(t, k + i, k + e) = [ok |-> v.ok /\ b.ok, index |-> c.index, start |-> u.index]
  BY <1>3, <1>5, <1>9, <1>11, <1>13, Zenon DEF readBytes
<1>16. QED
  BY <1>5, <1>13, <1>14, <1>15 DEF Shifted

LEMMA ValueShifts ==
    ASSUME NEW s \in Seq(Byte), NEW t \in Seq(Byte), NEW k, Window(s, k, t),
           NEW i \in Nat, NEW e \in Nat, i <= e, e <= Len(s), NEW w \in WireType
    PROVE  Shifted(k, skipValue(t, k + i, k + e, w), skipValue(s, i, e, w))
<1>1. k \in Nat
  BY DEF Window
<1>2. CASE w = Varint
  <2>1. \A z, x, y : skipValue(z, x, y, w) = readVarint(z, x, y)
    BY <1>2 DEF skipValue, Varint, Fixed64, Fixed32
  <2>2. Shifted(k, readVarint(t, k + i, k + e), readVarint(s, i, e))
    BY VarintShifts, Zenon
  <2>3. QED
    BY <2>1, <2>2
<1>3. CASE w = Fixed64
  <2>1. \A z, x, y : skipValue(z, x, y, w) = Advance(x, y, 8)
    BY <1>3 DEF skipValue, Varint, Fixed64, Fixed32
  <2>2. Shifted(k, Advance(k + i, k + e, 8), Advance(i, e, 8))
    BY <1>1, AdvanceShifts
  <2>3. QED
    BY <2>1, <2>2
<1>4. CASE w = Fixed32
  <2>1. \A z, x, y : skipValue(z, x, y, w) = Advance(x, y, 4)
    BY <1>4 DEF skipValue, Varint, Fixed64, Fixed32
  <2>2. Shifted(k, Advance(k + i, k + e, 4), Advance(i, e, 4))
    BY <1>1, AdvanceShifts
  <2>3. QED
    BY <2>1, <2>2
<1>5. CASE w \notin {Varint, Fixed64, Fixed32}
  <2>1. \A z, x, y : skipValue(z, x, y, w) =
            [ok |-> readBytes(z, x, y).ok, index |-> readBytes(z, x, y).index]
    BY <1>5 DEF skipValue
  <2>2. Shifted(k, readBytes(t, k + i, k + e), readBytes(s, i, e))
    BY BytesShift, Zenon
  <2>3. QED
    BY <2>1, <2>2 DEF Shifted
<1>6. QED
  BY <1>2, <1>3, <1>4, <1>5, Zenon

-----------------------------------------------------------------------------
(* Recursion and induction along a rank *)

\* What holds of a place when it holds of all places of lower rank, holds.
LEMMA ByRank ==
    ASSUME NEW D, NEW rank \in [D -> Nat], NEW G,
           \A p \in D : (\A q \in D : rank[q] < rank[p] => q \in G) => p \in G
    PROVE  D \subseteq G
<1> SUFFICES ASSUME D \ G # {} PROVE FALSE
  OBVIOUS
<1> DEFINE T == {rank[p] : p \in D \ G}
<1>1. T \subseteq Nat /\ T # {}
  OBVIOUS
<1>2. PICK n \in T : \A j \in T : ~(j < n)
  BY <1>1, LeastPosition
<1>3. PICK p \in D \ G : rank[p] = n
  BY <1>2
<1>4. \A q \in D : rank[q] < rank[p] => q \in G
  BY <1>2, <1>3
<1>5. QED
  BY <1>3, <1>4, Zenon

\* The numbers up to n by induction.
LEMMA Counting ==
    ASSUME NEW n \in Nat, NEW G, 0 \in G, \A k \in 0 .. n - 1 : k \in G => k + 1 \in G
    PROVE  \A k \in 0 .. n : k \in G
<1> DEFINE rank == [k \in 0 .. n |-> k]
<1>1. rank \in [0 .. n -> Nat]
  OBVIOUS
<1>2. ASSUME NEW p \in 0 .. n, \A q \in 0 .. n : rank[q] < rank[p] => q \in G
      PROVE  p \in G
  <2>1. CASE p = 0
    BY <2>1
  <2>2. CASE p # 0
    <3>1. p - 1 \in 0 .. n - 1 /\ p - 1 \in 0 .. n /\ (p - 1) + 1 = p
      BY <2>2
    <3>2. rank[p - 1] < rank[p]
      BY <3>1
    <3>3. QED
      BY <1>2, <3>1, <3>2
  <2>3. QED
    BY <2>1, <2>2
<1> HIDE DEF rank
<1>3. PICK D : D = 0 .. n
  OBVIOUS
<1>a. D \subseteq G
  <2>1. rank \in [D -> Nat]
    BY <1>1, <1>3
  <2>2. \A p \in D : (\A q \in D : rank[q] < rank[p] => q \in G) => p \in G
    BY <1>2, <1>3
  <2>3. QED
    BY <2>1, <2>2, ByRank, Zenon
<1>4. QED
  BY <1>3, <1>a

\* The places of C ask one of lower rank, the others are final.
Recursion(D, C, next, step, final, f) ==
    f = [p \in D |-> IF p \in C THEN step[p][f[next[p]]] ELSE final[p]]

RecursionUpto(D, C, next, step, final, rank, n, f) ==
    \A p \in D : rank[p] < n =>
        f[p] = IF p \in C THEN step[p][f[next[p]]] ELSE final[p]

LEMMA RecursionExists ==
    ASSUME NEW D, NEW C, NEW next, NEW step, NEW final, NEW B \in Nat,
           NEW rank \in [D -> 0 .. B], NEW R,
           \A p \in D \cap C : next[p] \in D /\ rank[next[p]] < rank[p] /\ step[p] \in [R -> R],
           \A p \in D \ C : final[p] \in R
    PROVE  \E f \in [D -> R] : Recursion(D, C, next, step, final, f)
<1> DEFINE Upto(n, f) == RecursionUpto(D, C, next, step, final, rank, n, f)
           Is(p, f) == IF p \in C THEN step[p][f[next[p]]] ELSE final[p]
           G == {n \in 0 .. B + 1 : \E f : Upto(n, f)}
<1>1. 0 \in G
  <2>1. \A p \in D : ~(rank[p] < 0)
    OBVIOUS
  <2>2. Upto(0, {})
    BY <2>1, Zenon DEF RecursionUpto
  <2>3. QED
    BY <2>2
<1>2. ASSUME NEW n \in 0 .. (B + 1) - 1, n \in G
      PROVE  n + 1 \in G
  <2>1. PICK f : Upto(n, f)
    BY <1>2
  <2> DEFINE h == [p \in D |-> IF rank[p] < n THEN f[p] ELSE Is(p, f)]
  <2>2. ASSUME NEW p \in D, rank[p] < n + 1 PROVE h[p] = Is(p, h)
    <3>1. h[p] = Is(p, f)
      BY <2>1, Zenon DEF RecursionUpto
    <3>2. ASSUME p \in C PROVE h[next[p]] = f[next[p]]
      <4>1. next[p] \in D /\ rank[next[p]] < rank[p]
        BY <3>2
      <4>2. rank[next[p]] < n
        BY <2>2, <4>1
      <4>3. QED
        BY <4>1, <4>2, Zenon
    <3> HIDE DEF h
    <3>3. QED
      BY <3>1, <3>2, Zenon
  <2> HIDE DEF h
  <2>3. Upto(n + 1, h)
    BY <2>2, Zenon DEF RecursionUpto
  <2>4. n + 1 \in 0 .. B + 1
    OBVIOUS
  <2>5. QED
    BY <2>3, <2>4
<1>3. B + 1 \in Nat /\ B + 1 \in 0 .. B + 1
  OBVIOUS
<1>4. B + 1 \in G
  <2> HIDE DEF G
  <2>1. QED
    BY <1>1, <1>2, <1>3, Counting, Zenon
<1>5. PICK f : Upto(B + 1, f)
  BY <1>4
<1>6. \A p \in D : rank[p] < B + 1 /\ rank[p] \in Nat
  OBVIOUS
<1>7. \A p \in D : f[p] = Is(p, f)
  BY <1>5, <1>6, Zenon DEF RecursionUpto
<1> DEFINE h == [p \in D |-> f[p]]
<1>8. \A p \in D : h[p] = Is(p, h)
  BY <1>7, Zenon
<1> HIDE DEF Is, Upto, G
<1>9. h \in [D -> R]
  <2> DEFINE T == {p \in D : h[p] \in R}
  <2> HIDE DEF h
  <2>1. rank \in [D -> Nat]
    OBVIOUS
  <2>2. ASSUME NEW p \in D, \A q \in D : rank[q] < rank[p] => q \in T
        PROVE  p \in T
    <3>1. CASE p \in C
      <4>1. next[p] \in T /\ step[p] \in [R -> R]
        BY <2>2, <3>1, Zenon
      <4>2. step[p][h[next[p]]] \in R
        BY <4>1
      <4>3. QED
        BY <1>8, <3>1, <4>2, Zenon DEF Is
    <3>2. CASE p \notin C
      BY <1>8, <3>2, Zenon DEF Is
    <3>3. QED
      BY <3>1, <3>2
  <2>3. D \subseteq T
    <3> HIDE DEF T
    <3>1. QED
      BY <2>1, <2>2, ByRank, Zenon
  <2>4. \A p \in D : h[p] \in R
    BY <2>3
  <2>5. h = [p \in D |-> h[p]]
    BY Zenon DEF h
  <2>6. QED
    BY <2>4, <2>5
<1>10. Recursion(D, C, next, step, final, h)
  <2>1. h = [p \in D |-> h[p]]
    BY Zenon
  <2> HIDE DEF h
  <2>2. h = [p \in D |-> Is(p, h)]
    BY <1>8, <2>1
  <2>3. QED
    BY <2>2, Zenon DEF Recursion, Is
<1>11. QED
  BY <1>9, <1>10, Zenon
=============================================================================
