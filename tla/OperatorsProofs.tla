-------------------------- MODULE OperatorsProofs ---------------------------
(***************************************************************************)
(* What Load and the prepare steps promise the kernels, for tensors of any *)
(* rank and size: no index of a regular operator leaves its tensor, and    *)
(* the windows of a convolution fit its image.  Then what the kernels make *)
(* of it: the products that a convolution sums, and the element that a     *)
(* copy leaves at each coordinate, are those the operation means.          *)
(***************************************************************************)
EXTENDS Operators, FiniteSetTheorems, TLAPS

-----------------------------------------------------------------------------
(* Induction, and functions defined by it. *)

\* Induction over 0 .. n, for a set.
LEMMA EveryPlace ==
  ASSUME NEW n \in Nat, NEW S \in SUBSET (0 .. n), 0 \in S, \A k \in 1 .. n : k - 1 \in S => k \in S
  PROVE  \A k \in 0 .. n : k \in S
<1> DEFINE Missing == {k \in 0 .. n : k \notin S}
<1> SUFFICES ASSUME Missing # {} PROVE FALSE
  OBVIOUS
<1>1. Missing \subseteq Nat
  OBVIOUS
<1>2. PICK k \in Missing : \A j \in Missing : ~ (<<j, k>> \in OpToRel(<, Nat))
  BY <1>1, NatLessThanWellFounded, WFMin
<1>3. k \in 0 .. n /\ k # 0 /\ k \notin S
  BY <1>2
<1> HIDE DEF Missing
<1>4. k \in 1 .. n /\ k - 1 \in 0 .. n /\ k - 1 \in Nat /\ k \in Nat /\ k - 1 < k
  BY <1>3
<1>5. k - 1 \notin S
  BY <1>3, <1>4
<1>6. k - 1 \in Missing
  BY <1>4, <1>5 DEF Missing
<1> QED
  BY <1>2, <1>4, <1>6 DEF OpToRel

\* f starts at v, and each further value is what g makes of the one before.
Folds(f, n, v, g) == f[0] = v /\ \A i \in 1 .. n : f[i] = g[<<i, f[i - 1]>>]

LEMMA FoldExists ==
  ASSUME NEW n \in Nat, NEW V, NEW v \in V, NEW g \in [(1 .. n) \X V -> V]
  PROVE  \E f \in [0 .. n -> V] : Folds(f, n, v, g)
<1> DEFINE Steps(f, k) == f[0] = v /\ \A i \in 1 .. k : f[i] = g[<<i, f[i - 1]>>]
           S == {k \in 0 .. n : \E f \in [0 .. n -> V] : Steps(f, k)}
<1>1. 0 \in S
  <2>1. [i \in 0 .. n |-> v] \in [0 .. n -> V] /\ Steps([i \in 0 .. n |-> v], 0)
    OBVIOUS
  <2> HIDE DEF Steps
  <2> QED
    BY <2>1
<1>2. ASSUME NEW k \in 1 .. n, k - 1 \in S
      PROVE  k \in S
  <2>1. PICK f \in [0 .. n -> V] : Steps(f, k - 1)
    BY <1>2
  <2>2. k \in 0 .. n /\ k - 1 \in 0 .. n /\ k # 0
    OBVIOUS
  <2>3. f[k - 1] \in V /\ <<k, f[k - 1]>> \in (1 .. n) \X V
    BY <2>1, <2>2
  <2> DEFINE w == g[<<k, f[k - 1]>>]
             h == [f EXCEPT ![k] = w]
  <2>4. w \in V
    BY <2>3
  <2> HIDE DEF w
  <2>5. h \in [0 .. n -> V] /\ h[k] = w /\ \A i \in 0 .. n : i # k => h[i] = f[i]
    BY <2>2, <2>4
  <2> HIDE DEF h
  <2>6. h[0] = v
    BY <2>1, <2>2, <2>5
  <2>7. ASSUME NEW i \in 1 .. k
        PROVE  h[i] = g[<<i, h[i - 1]>>]
    <3>1. i - 1 \in 0 .. n /\ i - 1 # k /\ h[i - 1] = f[i - 1]
      BY <2>5
    <3>2. CASE i = k
      BY <2>5, <3>1, <3>2 DEF w
    <3>3. CASE i # k
      <4>1. i \in 1 .. k - 1 /\ i \in 0 .. n
        BY <3>3
      <4>2. f[i] = g[<<i, f[i - 1]>>]
        BY <2>1, <4>1
      <4> QED
        BY <2>5, <3>1, <3>3, <4>1, <4>2
    <3> QED
      BY <3>2, <3>3
  <2>8. Steps(h, k)
    BY <2>6, <2>7
  <2> HIDE DEF Steps
  <2> QED
    BY <2>2, <2>5, <2>8
<1>3. n \in S
  <2>1. S \in SUBSET (0 .. n) /\ n \in 0 .. n
    OBVIOUS
  <2> HIDE DEF S
  <2> QED
    BY <1>1, <1>2, <2>1, EveryPlace
<1> QED
  BY <1>3 DEF Folds

-----------------------------------------------------------------------------
(* Sizes of tensors. *)

\* The equations of product.
LEMMA ProductSteps ==
  ASSUME NEW s \in Seq(Int), NEW from \in Nat
  PROVE  /\ \A i \in 0 .. Len(s) : product(s, from, i) \in Int
         /\ \A i \in 0 .. Len(s) : i <= from => product(s, from, i) = 1
         /\ \A i \in 1 .. Len(s) : i > from => product(s, from, i) = product(s, from, i - 1) * s[i]
<1> DEFINE n == Len(s)
           Is(f) == f = [i \in 0 .. n |-> IF i <= from THEN 1 ELSE f[i - 1] * s[i]]
           P == CHOOSE f : Is(f)
           g == [p \in (1 .. n) \X Int |-> IF p[1] <= from THEN 1 ELSE p[2] * s[p[1]]]
<1>1. n \in Nat /\ \A i \in 1 .. n : s[i] \in Int
  OBVIOUS
<1>2. \E f \in [0 .. n -> Int] : Is(f)
  <2>1. g \in [(1 .. n) \X Int -> Int]
    BY <1>1
  <2>2. PICK f \in [0 .. n -> Int] : f[0] = 1 /\ \A i \in 1 .. n : f[i] = g[<<i, f[i - 1]>>]
    <3> DEFINE V == Int
               v == 1
    <3>1. n \in Nat /\ v \in V /\ g \in [(1 .. n) \X V -> V]
      BY <1>1, <2>1
    <3> HIDE DEF g, n, V, v
    <3>2. \E f \in [0 .. n -> V] : Folds(f, n, v, g)
      BY <3>1, FoldExists
    <3> QED
      BY <3>2 DEF V, v, Folds
  <2>3. \A i \in 1 .. n : f[i] = IF i <= from THEN 1 ELSE f[i - 1] * s[i]
    <3>1. ASSUME NEW i \in 1 .. n
          PROVE  f[i] = IF i <= from THEN 1 ELSE f[i - 1] * s[i]
      <4>0. i - 1 \in 0 .. n /\ f[i - 1] \in Int
        BY <1>1
      <4>1. <<i, f[i - 1]>> \in (1 .. n) \X Int
        BY <4>0
      <4> QED
        BY <2>2, <4>1
    <3> QED
      BY <3>1
  <2>4. \A i \in 0 .. n : f[i] = IF i <= from THEN 1 ELSE f[i - 1] * s[i]
    BY <1>1, <2>2, <2>3
  <2>5. Is(f)
    BY <2>4
  <2> HIDE DEF Is
  <2> QED
    BY <2>5
<1>3. Is(P)
  <2> HIDE DEF Is
  <2> QED
    BY <1>2
<1>4. \A i \in 0 .. n : P[i] = IF i <= from THEN 1 ELSE P[i - 1] * s[i]
  <2> HIDE DEF P
  <2> QED
    BY <1>3
<1>5. \A i : product(s, from, i) = P[i]
  BY DEF product
<1> HIDE DEF P
<1>6. \A i \in 0 .. n : P[i] \in Int
  <2> DEFINE S == {i \in 0 .. n : P[i] \in Int}
  <2>1. 0 \in S
    BY <1>1, <1>4
  <2>2. ASSUME NEW k \in 1 .. n, k - 1 \in S
        PROVE  k \in S
    BY <1>1, <1>4, <2>2
  <2>3. S \in SUBSET (0 .. n)
    OBVIOUS
  <2>4. \A k \in 0 .. n : k \in S
    <3> HIDE DEF S
    <3> QED
      BY <1>1, <2>1, <2>2, <2>3, EveryPlace
  <2> QED
    BY <2>4
<1>7. \A i \in 1 .. n : i > from => P[i] = P[i - 1] * s[i]
  BY <1>4
<1>8. \A i \in 0 .. n : i <= from => P[i] = 1
  BY <1>4
<1> QED
  BY <1>5, <1>6, <1>7, <1>8

\* A product is that of its two parts.
LEMMA ProductSplit ==
  ASSUME NEW s \in Seq(Int), NEW from \in Nat, NEW mid \in 0 .. Len(s), from <= mid
  PROVE  \A to \in mid .. Len(s) : product(s, from, to) = product(s, from, mid) * product(s, mid, to)
<1> DEFINE n == Len(s)
           S == {k \in 0 .. n : k >= mid => product(s, from, k) = product(s, from, mid) * product(s, mid, k)}
<1>1. n \in Nat /\ mid \in Nat /\ \A i \in 1 .. n : s[i] \in Int
  OBVIOUS
<1>2. /\ \A i \in 0 .. n : product(s, from, i) \in Int /\ product(s, mid, i) \in Int
      /\ \A i \in 1 .. n : i > mid => /\ product(s, from, i) = product(s, from, i - 1) * s[i]
                                      /\ product(s, mid, i) = product(s, mid, i - 1) * s[i]
      /\ product(s, mid, mid) = 1
  BY <1>1, ProductSteps
<1>3. 0 \in S
  BY <1>1, <1>2
<1>4. ASSUME NEW k \in 1 .. n, k - 1 \in S
      PROVE  k \in S
  <2>1. CASE k > mid
    <3> DEFINE a == product(s, from, mid)
               b == product(s, mid, k - 1)
    <3>1. k - 1 \in 0 .. n /\ k - 1 >= mid
      BY <1>1, <2>1
    <3>2. a \in Int /\ b \in Int /\ s[k] \in Int
      BY <1>1, <1>2, <3>1
    <3>3. product(s, from, k - 1) = a * b
      BY <1>4, <3>1
    <3>4. product(s, from, k) = (a * b) * s[k] /\ product(s, mid, k) = b * s[k]
      BY <1>2, <2>1, <3>3
    <3> HIDE DEF a, b
    <3>5. (a * b) * s[k] = a * (b * s[k])
      BY <3>2
    <3> QED
      BY <3>4, <3>5 DEF a
  <2>2. CASE k = mid
    BY <1>1, <1>2, <2>2
  <2>3. CASE k < mid
    BY <1>1, <2>3
  <2> QED
    BY <1>1, <2>1, <2>2, <2>3
<1>5. \A k \in 0 .. n : k \in S
  <2>1. S \in SUBSET (0 .. n)
    OBVIOUS
  <2> HIDE DEF S
  <2> QED
    BY <1>1, <1>3, <1>4, <2>1, EveryPlace
<1> QED
  BY <1>1, <1>5

\* A product depends on the sizes it is of.
LEMMA ProductCongruence ==
  ASSUME NEW s \in Seq(Int), NEW r \in Seq(Int), NEW from \in Nat, NEW to \in 0 .. Len(s), to <= Len(r),
         \A i \in 1 .. to : i > from => s[i] = r[i]
  PROVE  product(s, from, to) = product(r, from, to)
<1> DEFINE S == {k \in 0 .. to : product(s, from, k) = product(r, from, k)}
<1>1. to \in Nat /\ Len(s) \in Nat /\ Len(r) \in Nat
  OBVIOUS
<1>2. 0 \in S
  BY <1>1, ProductSteps
<1>3. ASSUME NEW k \in 1 .. to, k - 1 \in S
      PROVE  k \in S
  <2>1. k \in 1 .. Len(s) /\ k \in 1 .. Len(r) /\ k \in 0 .. Len(s) /\ k \in 0 .. Len(r)
    BY <1>1
  <2>2. CASE k <= from
    BY <2>1, <2>2, ProductSteps
  <2>3. CASE k > from
    <3>1. /\ product(s, from, k) = product(s, from, k - 1) * s[k]
          /\ product(r, from, k) = product(r, from, k - 1) * r[k]
      BY <2>1, <2>3, ProductSteps
    <3> QED
      BY <1>3, <2>3, <3>1
  <2> QED
    BY <1>1, <2>2, <2>3
<1>4. \A k \in 0 .. to : k \in S
  <2>1. S \in SUBSET (0 .. to)
    OBVIOUS
  <2> HIDE DEF S
  <2> QED
    BY <1>1, <1>2, <1>3, <2>1, EveryPlace
<1> QED
  BY <1>1, <1>4

\* Sizes that are not negative have such a product.
LEMMA ProductNat ==
  ASSUME NEW s \in Seq(Int), NEW from \in Nat, \A i \in 1 .. Len(s) : s[i] >= 0
  PROVE  \A k \in 0 .. Len(s) : product(s, from, k) \in Nat
<1> DEFINE n == Len(s)
           S == {k \in 0 .. n : product(s, from, k) \in Nat}
<1>1. n \in Nat /\ \A i \in 1 .. n : s[i] \in Nat
  OBVIOUS
<1>2. 0 \in S
  BY <1>1, ProductSteps
<1>3. ASSUME NEW k \in 1 .. n, k - 1 \in S
      PROVE  k \in S
  <2>1. k \in 0 .. n
    BY <1>1
  <2>2. CASE k <= from
    BY <2>1, <2>2, ProductSteps
  <2>3. CASE k > from
    <3>1. product(s, from, k) = product(s, from, k - 1) * s[k]
      BY <2>3, ProductSteps
    <3>2. product(s, from, k - 1) \in Nat /\ s[k] \in Nat
      BY <1>1, <1>3
    <3> QED
      BY <2>1, <3>1, <3>2
  <2> QED
    BY <1>1, <2>2, <2>3
<1>4. \A k \in 0 .. n : k \in S
  <2>1. S \in SUBSET (0 .. n)
    OBVIOUS
  <2> HIDE DEF S
  <2> QED
    BY <1>1, <1>2, <1>3, <2>1, EveryPlace
<1> QED
  BY <1>4

\* The product from one axis on, as that axis times the rest.
LEMMA ProductHead ==
  ASSUME NEW s \in Seq(Int), NEW a \in 1 .. Len(s)
  PROVE  product(s, a - 1, Len(s)) = s[a] * product(s, a, Len(s))
<1>1. Len(s) \in Nat /\ a - 1 \in Nat /\ a \in Nat /\ a \in 0 .. Len(s) /\ a - 1 \in 0 .. Len(s) /\ s[a] \in Int
      /\ Len(s) \in a .. Len(s) /\ a - 1 <= a
  OBVIOUS
<1>2. product(s, a - 1, Len(s)) = product(s, a - 1, a) * product(s, a, Len(s))
  BY <1>1, ProductSplit
<1>3. product(s, a - 1, a) = product(s, a - 1, a - 1) * s[a] /\ product(s, a - 1, a - 1) = 1
  BY <1>1, ProductSteps
<1> QED
  BY <1>1, <1>2, <1>3

\* A product of sizes that is not 0 has no size 0.
LEMMA ProductPositive ==
  ASSUME NEW s \in Seq(Int), \A i \in 1 .. Len(s) : s[i] >= 0, product(s, 0, Len(s)) > 0
  PROVE  \A a \in 1 .. Len(s) : s[a] > 0
<1> SUFFICES ASSUME NEW a \in 1 .. Len(s), s[a] = 0
             PROVE  product(s, 0, Len(s)) = 0
  OBVIOUS
<1>1. Len(s) \in Nat /\ a - 1 \in 0 .. Len(s) /\ a \in 0 .. Len(s) /\ Len(s) \in a - 1 .. Len(s) /\ Len(s) \in 0 .. Len(s)
      /\ a - 1 \in Nat /\ a \in Nat /\ 0 <= a - 1
  OBVIOUS
<1>2. product(s, 0, Len(s)) = product(s, 0, a - 1) * product(s, a - 1, Len(s))
  BY <1>1, ProductSplit
<1>3. product(s, a - 1, Len(s)) = 0 * product(s, a, Len(s))
  BY ProductHead
<1>4. product(s, 0, a - 1) \in Int /\ product(s, a, Len(s)) \in Int
  BY <1>1, ProductSteps
<1> QED
  BY <1>2, <1>3, <1>4

-----------------------------------------------------------------------------
(* Arithmetic. *)

LEMMA TimesMonotone ==
  ASSUME NEW a \in Int, NEW b \in Int, NEW c \in Nat, a <= b
  PROVE  a * c <= b * c
<1>1. b - a \in Nat
  OBVIOUS
<1>2. (b - a) * c \in Nat
  BY <1>1
<1>3. (b - a) * c = b * c - a * c
  OBVIOUS
<1> QED
  BY <1>2, <1>3

\* Row a of A rows of B elements, and element b of it.
LEMMA RowMajor ==
  ASSUME NEW A \in Nat, NEW B \in Nat, NEW a \in 0 .. A - 1, NEW b \in 0 .. B - 1
  PROVE  a * B + b \in 0 .. A * B - 1
<1>1. a + 1 \in Int /\ a + 1 <= A /\ a \in Nat /\ b \in Nat /\ b < B
  OBVIOUS
<1>2. (a + 1) * B <= A * B
  BY <1>1, TimesMonotone
<1>3. (a + 1) * B = a * B + B
  BY <1>1
<1>4. a * B \in Nat /\ A * B \in Nat
  BY <1>1
<1> QED
  BY <1>1, <1>2, <1>3, <1>4

\* A quotient and its remainder.
LEMMA Division ==
  ASSUME NEW n \in Int, NEW d \in Nat, d > 0
  PROVE  /\ n \div d \in Int /\ n % d \in 0 .. d - 1
         /\ n = d * (n \div d) + (n % d)
  OBVIOUS

\* A quotient is below each bound whose product is above what is divided.
LEMMA QuotientBelow ==
  ASSUME NEW A \in Nat, NEW d \in Nat, d > 0, NEW n \in 0 .. A * d - 1
  PROVE  n \div d \in 0 .. A - 1
<1> DEFINE q == n \div d
           r == n % d
<1>1. q \in Int /\ r \in 0 .. d - 1 /\ n = d * q + r /\ n \in Nat /\ n < A * d
  BY Division
<1> HIDE DEF q, r
<1>2. q >= 0
  <2>1. CASE q < 0
    <3>1. q * d <= (-1) * d
      BY <1>1, <2>1, TimesMonotone
    <3> QED
      BY <1>1, <3>1
  <2> QED
    BY <1>1, <2>1
<1>3. q < A
  <2>1. CASE q >= A
    <3>1. A * d <= q * d
      BY <1>1, <2>1, TimesMonotone
    <3> QED
      BY <1>1, <3>1
  <2> QED
    BY <1>1, <2>1
<1> QED
  BY <1>1, <1>2, <1>3 DEF q

-----------------------------------------------------------------------------
(* Coordinates and flat indexes. *)

\* An index on each axis.
Within(s, c) == c \in [1 .. Len(s) -> Int] /\ \A a \in 1 .. Len(s) : c[a] \in 0 .. s[a] - 1

\* f has the flat index of the first axes, for any number of them.
Flat(s, c, f) ==
  /\ f \in [0 .. Len(s) -> Int] /\ f[0] = 0
  /\ \A a \in 1 .. Len(s) : f[a] = f[a - 1] * s[a] + c[a]

\* The equations of FlatIndex.
LEMMA FlatExists ==
  ASSUME NEW s \in Seq(Int), NEW c \in [1 .. Len(s) -> Int]
  PROVE  \E f : Flat(s, c, f) /\ FlatIndex(s, c) = f[Len(s)]
<1> DEFINE n == Len(s)
           Is(f) == f = [a \in 0 .. n |-> IF a = 0 THEN 0 ELSE f[a - 1] * s[a] + c[a]]
           P == CHOOSE f : Is(f)
           g == [p \in (1 .. n) \X Int |-> p[2] * s[p[1]] + c[p[1]]]
<1>1. n \in Nat /\ \A a \in 1 .. n : s[a] \in Int /\ c[a] \in Int
  OBVIOUS
<1>2. \E f \in [0 .. n -> Int] : Is(f)
  <2>1. g \in [(1 .. n) \X Int -> Int]
    BY <1>1
  <2>2. PICK f \in [0 .. n -> Int] : f[0] = 0 /\ \A a \in 1 .. n : f[a] = g[<<a, f[a - 1]>>]
    <3> DEFINE V == Int
               v == 0
    <3>1. n \in Nat /\ v \in V /\ g \in [(1 .. n) \X V -> V]
      BY <1>1, <2>1
    <3> HIDE DEF g, n, V, v
    <3>2. \E f \in [0 .. n -> V] : Folds(f, n, v, g)
      BY <3>1, FoldExists
    <3> QED
      BY <3>2 DEF V, v, Folds
  <2>3. ASSUME NEW a \in 1 .. n
        PROVE  f[a] = f[a - 1] * s[a] + c[a]
    <3>0. a - 1 \in 0 .. n
      BY <1>1
    <3>1. f[a - 1] \in Int
      BY <3>0
    <3>2. <<a, f[a - 1]>> \in (1 .. n) \X Int
      BY <3>1
    <3> QED
      BY <2>2, <3>2
  <2>4. \A a \in 0 .. n : f[a] = IF a = 0 THEN 0 ELSE f[a - 1] * s[a] + c[a]
    BY <1>1, <2>2, <2>3
  <2>5. Is(f)
    BY <2>4
  <2> HIDE DEF Is
  <2> QED
    BY <2>5
<1>3. Is(P)
  <2> HIDE DEF Is
  <2> QED
    BY <1>2
<1>4. FlatIndex(s, c) = P[n]
  BY DEF FlatIndex
<1> HIDE DEF P
<1>5. \A a \in 0 .. n : P[a] = IF a = 0 THEN 0 ELSE P[a - 1] * s[a] + c[a]
  BY <1>3
<1>6. \A a \in 0 .. n : P[a] \in Int
  <2> DEFINE S == {a \in 0 .. n : P[a] \in Int}
  <2>1. 0 \in S
    BY <1>1, <1>5
  <2>2. ASSUME NEW k \in 1 .. n, k - 1 \in S
        PROVE  k \in S
    <3>1. k \in 0 .. n /\ k # 0 /\ P[k - 1] \in Int
      BY <1>1, <2>2
    <3>2. P[k] = P[k - 1] * s[k] + c[k]
      BY <1>5, <3>1
    <3>3. P[k - 1] * s[k] + c[k] \in Int
      BY <1>1, <3>1
    <3> QED
      BY <3>1, <3>2, <3>3
  <2>3. S \in SUBSET (0 .. n)
    OBVIOUS
  <2>4. \A k \in 0 .. n : k \in S
    <3> HIDE DEF S
    <3> QED
      BY <1>1, <2>1, <2>2, <2>3, EveryPlace
  <2> QED
    BY <2>4
<1>7. P \in [0 .. n -> Int]
  BY <1>3, <1>6
<1>8. P[0] = 0 /\ \A a \in 1 .. n : P[a] = P[a - 1] * s[a] + c[a]
  BY <1>1, <1>5
<1> QED
  BY <1>4, <1>7, <1>8 DEF Flat

\* The flat index of coordinates is an index of the tensor.
LEMMA FlatInRange ==
  ASSUME NEW s \in Seq(Int), NEW c, Within(s, c), NEW f, Flat(s, c, f), \A a \in 1 .. Len(s) : s[a] >= 0
  PROVE  \A k \in 0 .. Len(s) : f[k] \in 0 .. product(s, 0, k) - 1
<1> DEFINE n == Len(s)
           S == {k \in 0 .. n : f[k] \in 0 .. product(s, 0, k) - 1}
<1>1. n \in Nat /\ \A a \in 1 .. n : s[a] \in Nat
  OBVIOUS
<1>2. 0 \in S
  <2>1. product(s, 0, 0) = 1
    BY <1>1, ProductSteps
  <2> QED
    BY <1>1, <2>1 DEF Flat
<1>3. ASSUME NEW k \in 1 .. n, k - 1 \in S
      PROVE  k \in S
  <2> DEFINE A == product(s, 0, k - 1)
  <2>1. A \in Nat /\ product(s, 0, k) = A * s[k]
    <3>1. k - 1 \in 0 .. n /\ k > 0
      BY <1>1
    <3>2. product(s, 0, k) = product(s, 0, k - 1) * s[k]
      BY <3>1, ProductSteps
    <3>3. product(s, 0, k - 1) \in Nat
      BY <3>1, ProductNat
    <3> QED
      BY <3>2, <3>3
  <2>2. f[k - 1] \in 0 .. A - 1 /\ c[k] \in 0 .. s[k] - 1 /\ s[k] \in Nat
    BY <1>1, <1>3 DEF Within
  <2> HIDE DEF A
  <2>3. f[k - 1] * s[k] + c[k] \in 0 .. A * s[k] - 1
    BY <2>1, <2>2, RowMajor
  <2>4. f[k] = f[k - 1] * s[k] + c[k]
    BY DEF Flat
  <2> QED
    BY <1>1, <2>1, <2>3, <2>4
<1>4. \A k \in 0 .. n : k \in S
  <2>1. S \in SUBSET (0 .. n)
    OBVIOUS
  <2> HIDE DEF S
  <2> QED
    BY <1>1, <1>2, <1>3, <2>1, EveryPlace
<1> QED
  BY <1>4

\* A flat index as the sum of what each axis contributes.
LEMMA FlatAsSum ==
  ASSUME NEW s \in Seq(Int), NEW c \in [1 .. Len(s) -> Int], NEW F \in [0 .. Len(s) -> Int],
         F[0] = 0, \A a \in 1 .. Len(s) : F[a] = F[a - 1] + c[a] * product(s, a, Len(s))
  PROVE  F[Len(s)] = FlatIndex(s, c)
<1> DEFINE n == Len(s)
           R(k) == product(s, k, n)
<1>1. PICK f : Flat(s, c, f) /\ FlatIndex(s, c) = f[n]
  BY FlatExists
<1> DEFINE S == {k \in 0 .. n : F[k] = f[k] * R(k)}
<1>2. n \in Nat /\ \A a \in 1 .. n : s[a] \in Int /\ c[a] \in Int
  OBVIOUS
<1>3. \A k \in 0 .. n : R(k) \in Int
  BY <1>2, ProductSteps
<1>4. 0 \in S
  BY <1>1, <1>2, <1>3 DEF Flat
<1>5. ASSUME NEW k \in 1 .. n, k - 1 \in S
      PROVE  k \in S
  <2>1. k - 1 \in 0 .. n /\ k \in 0 .. n
    BY <1>2
  <2> DEFINE x == f[k - 1]
             r == R(k)
  <2>2. x \in Int /\ r \in Int /\ s[k] \in Int /\ c[k] \in Int
    BY <1>1, <1>2, <1>3, <2>1 DEF Flat
  <2>3. R(k - 1) = s[k] * r
    BY ProductHead
  <2>4. F[k - 1] = x * (s[k] * r)
    BY <1>5, <2>3
  <2>5. F[k] = x * (s[k] * r) + c[k] * r
    BY <2>4
  <2>6. f[k] = x * s[k] + c[k]
    BY <1>1 DEF Flat
  <2> HIDE DEF x, r
  <2>7. x * (s[k] * r) + c[k] * r = (x * s[k] + c[k]) * r
    BY <2>2
  <2> QED
    BY <2>1, <2>5, <2>6, <2>7 DEF r
<1>6. \A k \in 0 .. n : k \in S
  <2>1. S \in SUBSET (0 .. n)
    OBVIOUS
  <2> HIDE DEF S
  <2> QED
    BY <1>2, <1>4, <1>5, <2>1, EveryPlace
<1>7. n \in 0 .. n /\ R(n) = 1 /\ f[n] \in Int
  BY <1>1, <1>2, ProductSteps DEF Flat
<1> QED
  BY <1>1, <1>6, <1>7

-----------------------------------------------------------------------------
(* What Load has asked of an operator. *)

Loaded(o) ==
  /\ \A t \in Tensors(o) : TensorOK(t) /\ QuantizationOK(t)
  /\ validateOperator(o)

LEMMA Operands ==
  ASSUME NEW c, NEW o \in OperatorsOf(c), Loaded(o)
  PROVE  /\ Len(o.ins) \in Nat /\ Len(o.outs) \in Nat
         /\ \A k \in 1 .. Len(o.ins) : o.ins[k] \in TensorInfo /\ TensorOK(o.ins[k]) /\ QuantizationOK(o.ins[k])
         /\ \A k \in 1 .. Len(o.outs) : o.outs[k] \in TensorInfo /\ TensorOK(o.outs[k]) /\ QuantizationOK(o.outs[k])
<1>1. o.ins \in Seq(TensorInfo) /\ o.outs \in Seq(TensorInfo)
  BY DEF OperatorsOf
<1>2. ASSUME NEW k \in 1 .. Len(o.ins)
      PROVE  o.ins[k] \in TensorInfo /\ TensorOK(o.ins[k]) /\ QuantizationOK(o.ins[k])
  <2>1. o.ins[k] \in Tensors(o)
    BY DEF Tensors
  <2> QED
    BY <1>1, <2>1 DEF Loaded
<1>3. ASSUME NEW k \in 1 .. Len(o.outs)
      PROVE  o.outs[k] \in TensorInfo /\ TensorOK(o.outs[k]) /\ QuantizationOK(o.outs[k])
  <2>1. o.outs[k] \in Tensors(o)
    BY DEF Tensors
  <2> QED
    BY <1>1, <2>1 DEF Loaded
<1> QED
  BY <1>1, <1>2, <1>3

LEMMA TensorFacts ==
  ASSUME NEW t \in TensorInfo, TensorOK(t)
  PROVE  /\ t.shape \in Seq(Int) /\ rank(t) \in Nat /\ rank(t) = Len(t.shape)
         /\ \A a \in 1 .. rank(t) : t.shape[a] \in Nat
         /\ NumElements(t) \in Nat /\ NumElements(t) = product(t.shape, 0, Len(t.shape))
<1>1. t.shape \in Seq(Int) /\ rank(t) = Len(t.shape) /\ \A a \in 1 .. Len(t.shape) : t.shape[a] >= 0
  BY DEF TensorInfo, rank, TensorOK
<1>2. product(t.shape, 0, Len(t.shape)) \in Nat
  BY <1>1, ProductNat
<1> QED
  BY <1>1, <1>2 DEF NumElements, rank

-----------------------------------------------------------------------------
(* CONCATENATION *)

LEMMA ConcatenationInRange ==
  ASSUME NEW o \in OperatorsOf("CONCATENATION"), Loaded(o)
  PROVE  concatenation(o).kind # "panic"
<1> DEFINE out   == o.outs[1]
           nd    == rank(out)
           axis  == resolveAxis(o.opt.axis, nd)
           outer == product(out.shape, 0, axis)
           block(k) == product(o.ins[k].shape, axis, nd)
           inner == Len(o.ins)
           turns == Nest(outer, inner)
<1>1. o.code = "CONCATENATION"
  BY DEF OperatorsOf
<1>2. ConcatenationRule(o)
  BY <1>1 DEF Loaded, validateOperator
<1>3. /\ inner >= 1 /\ Len(o.outs) = 1 /\ InRank(axis, nd)
      /\ \A k \in 1 .. inner :
           /\ rank(o.ins[k]) = nd
           /\ \A a \in 1 .. nd : a # axis + 1 => o.ins[k].shape[a] = out.shape[a]
  BY <1>2 DEF ConcatenationRule
<1>4. out \in TensorInfo /\ TensorOK(out) /\ inner \in Nat
  BY <1>3, Operands
<1>5. /\ out.shape \in Seq(Int) /\ nd \in Nat /\ nd = Len(out.shape)
      /\ axis \in 0 .. nd - 1
  BY <1>3, <1>4, TensorFacts DEF InRank
<1>6. outer \in Nat
  <2> HIDE DEF axis, nd, out
  <2>0. rank(out) = Len(out.shape) /\ (\A a \in 1 .. rank(out) : out.shape[a] \in Nat)
    BY <1>4, TensorFacts
  <2>1. axis \in 0 .. Len(out.shape) /\ \A a \in 1 .. Len(out.shape) : out.shape[a] >= 0
    BY <1>5, <2>0
  <2>2. out.shape \in Seq(Int) /\ 0 \in Nat
    BY <1>5
  <2>3. \A k \in 0 .. Len(out.shape) : product(out.shape, 0, k) \in Nat
    BY <2>1, <2>2, ProductNat
  <2> QED
    BY <2>1, <2>3
<1> HIDE DEF outer, inner, axis, nd, out
<1>7. ASSUME NEW k \in 1 .. inner
      PROVE  NumElements(o.ins[k]) = outer * block(k) /\ block(k) \in Nat
  <2> DEFINE s == o.ins[k].shape
  <2>0. k \in 1 .. Len(o.ins)
    BY DEF inner
  <2>1. o.ins[k] \in TensorInfo /\ TensorOK(o.ins[k])
    BY <2>0, Operands
  <2>2. /\ s \in Seq(Int) /\ Len(s) = nd /\ NumElements(o.ins[k]) = product(s, 0, nd)
        /\ \A a \in 1 .. Len(s) : s[a] >= 0
    BY <1>3, <2>1, TensorFacts
  <2>3. \A a \in 1 .. axis : s[a] = out.shape[a]
    <3>1. \A a \in 1 .. nd : a # axis + 1 => s[a] = out.shape[a]
      BY <1>3
    <3> HIDE DEF s
    <3> QED
      BY <1>5, <3>1
  <2> HIDE DEF s
  <2>4. axis \in 0 .. Len(out.shape) /\ axis <= Len(s) /\ axis \in 0 .. Len(s) /\ axis \in Nat /\ Len(s) \in axis .. Len(s)
        /\ 0 <= axis
    BY <1>5, <2>2
  <2>5. product(s, 0, axis) = outer
    <3>1. product(out.shape, 0, axis) = product(s, 0, axis)
      BY <1>5, <2>2, <2>3, <2>4, ProductCongruence
    <3> QED
      BY <3>1 DEF outer
  <2>6. product(s, 0, Len(s)) = product(s, 0, axis) * product(s, axis, Len(s))
    BY <2>2, <2>4, ProductSplit
  <2>7. product(s, axis, Len(s)) \in Nat
    BY <2>2, <2>4, ProductNat
  <2> QED
    BY <2>2, <2>5, <2>6, <2>7 DEF s
<1>8. ASSUME NEW n \in 1 .. Len(turns)
      PROVE  ~Beyond(Contents(o, turns[n][2]), turns[n][1] * block(turns[n][2]), block(turns[n][2]))
  <2> DEFINE q == (n - 1) \div inner
             k == 1 + ((n - 1) % inner)
  <2>0. outer * inner \in Nat
    BY <1>4, <1>6
  <2>1. n \in 1 .. outer * inner /\ turns[n] = <<q, k>>
    BY <2>0 DEF Nest
  <2>2. q \in 0 .. outer - 1
    <3>1. n \in 1 .. outer * inner /\ inner \in Nat /\ inner >= 1
      BY <1>3, <1>4, <2>1
    <3> QED
      BY <1>6, <3>1, QuotientBelow
  <2>3. k \in 1 .. inner
    <3>1. (n - 1) % inner \in 0 .. inner - 1
      BY <1>3, <1>4, <2>1, Division
    <3> QED
      BY <1>4, <3>1
  <2> HIDE DEF q, k
  <2> DEFINE b == block(k)
  <2>4. NumElements(o.ins[k]) = outer * b /\ b \in Nat
    BY <1>7, <2>3
  <2>5. Len(Contents(o, k)) = outer * b
    <3>1. outer * b \in Nat
      BY <1>6, <2>4
    <3> QED
      BY <2>4, <3>1 DEF Contents
  <2> HIDE DEF b
  <2>6. (q + 1) * b <= outer * b
    BY <1>6, <2>2, <2>4, TimesMonotone
  <2>7. q * b + b = (q + 1) * b /\ q * b \in Int
    BY <2>2, <2>4
  <2>8. ~(q * b + b > outer * b)
    BY <1>6, <2>4, <2>6, <2>7
  <2>9. ~Beyond(Contents(o, k), q * b, b)
    BY <2>5, <2>8 DEF Beyond
  <2> QED
    BY <2>1, <2>9 DEF b
<1> QED
  BY <1>8 DEF concatenation, Error, Wrote, inner, outer, axis, nd, out

-----------------------------------------------------------------------------
(* SPLIT_V, RESHAPE, LOGISTIC and QUANTIZE *)

\* A set of places has a first one.
LEMMA SmallestPlace ==
  ASSUME NEW n \in Nat, NEW S \in SUBSET (1 .. n), S # {}
  PROVE  \E k \in S : \A j \in S : k <= j
<1>1. S \subseteq Nat
  OBVIOUS
<1>2. PICK k \in S : \A j \in S : ~ (<<j, k>> \in OpToRel(<, Nat))
  BY <1>1, NatLessThanWellFounded, WFMin
<1>3. \A j \in S : j \in Nat /\ k \in Nat /\ ~ (j < k)
  BY <1>1, <1>2 DEF OpToRel
<1>4. \A j \in S : k <= j
  BY <1>3
<1> QED
  BY <1>4

LEMMA SplitVInRange ==
  ASSUME NEW o \in OperatorsOf("SPLIT_V"), Loaded(o), Regular(o)
  PROVE  splitV(o).kind # "panic"
<1> DEFINE in == o.ins[1]
           axis  == resolveAxis(o.ins[3].const[1], rank(in))
           whole == in.shape[axis + 1]
           sizes == Resolved(o.ins[2].const, whole)
           outer == product(in.shape, 0, axis)
           inner == product(in.shape, axis + 1, rank(in))
           lengthOK(k) == NumElements(o.outs[k]) = sizes[k] * inner * outer
           bad == {k \in 1 .. Len(o.outs) :
                        \/ ~lengthOK(k)
                        \/ axis >= rank(o.outs[k])
                        \/ o.outs[k].shape[axis + 1] # sizes[k]}
           first == CHOOSE k \in bad : \A j \in bad : k <= j
<1>1. o.code = "SPLIT_V" /\ Len(o.outs) \in Nat
  BY Operands DEF OperatorsOf
<1>2. \A k \in 1 .. Len(o.outs) : rank(o.outs[k]) = rank(in)
  BY <1>1 DEF Regular
<1>3. Len(o.ins) = 3
  BY <1>1 DEF Loaded, validateOperator, SplitVRule
<1>4. rank(in) \in Nat
  BY <1>3, Operands, TensorFacts
<1>5. ASSUME InRank(axis, rank(in)), bad # {}
      PROVE  ~(axis >= rank(o.outs[first]))
  <2>1. bad \in SUBSET (1 .. Len(o.outs))
    OBVIOUS
  <2> HIDE DEF bad
  <2>2. first \in bad
    BY <1>1, <1>5, <2>1, SmallestPlace
  <2>3. rank(o.outs[first]) = rank(in)
    BY <1>2, <2>1, <2>2
  <2>4. axis \in 0 .. rank(in) - 1
    BY <1>5 DEF InRank
  <2> HIDE DEF first, axis, in
  <2> QED
    BY <1>4, <2>3, <2>4
<1> QED
  BY <1>5 DEF splitV, Error, Panic, Wrote

LEMMA ReshapeInRange ==
  ASSUME NEW o
  PROVE  reshape(o).kind # "panic"
BY DEF reshape, Wrote, Error

LEMMA PointwiseInRange ==
  ASSUME NEW c \in {"LOGISTIC", "QUANTIZE"}, NEW o \in OperatorsOf(c), Loaded(o)
  PROVE  pointwise(o).kind # "panic"
<1>1. o.code = c
  BY DEF OperatorsOf
<1>2. Len(o.ins) = 1 /\ NumElements(o.ins[1]) = NumElements(o.outs[1])
  <2>1. CASE c = "LOGISTIC"
    BY <1>1, <2>1 DEF Loaded, validateOperator, LogisticRule
  <2>2. CASE c = "QUANTIZE"
    BY <1>1, <2>2 DEF Loaded, validateOperator, QuantizeRule
  <2> QED
    BY <2>1, <2>2
<1>3. NumElements(o.ins[1]) \in Nat
  BY <1>2, Operands, TensorFacts
<1> QED
  BY <1>2, <1>3 DEF pointwise, Wrote

LEMMA LogisticPrepared ==
  ASSUME NEW o \in OperatorsOf("LOGISTIC"), Regular(o)
  PROVE  prepareLogistic(o).kind # "panic"
BY DEF OperatorsOf, Regular, prepareLogistic, Error, Ready

-----------------------------------------------------------------------------
(* STRIDED_SLICE *)

\* What a slice's end may be after clamping, and each place on the way to it.
LEMMA SliceWithinAxis ==
  ASSUME NEW start \in Int, NEW stop \in Int, NEW stride \in Int, stride # 0, NEW size \in Nat,
         stride > 0 => start \in 0 .. size /\ stop \in 0 .. size,
         stride < 0 => (start \in -1 .. size - 1 /\ stop \in -1 .. size - 1) \/ (start = 0 /\ stop = 0),
         NEW i \in Nat, i < Extent(start, stop, stride)
  PROVE  start + i * stride \in 0 .. size - 1
<1>1. CASE stride > 0 /\ stop > start
  <2> DEFINE n == stop - start + stride - 1
             q == n \div stride
  <2>1. Extent(start, stop, stride) = q
    BY <1>1 DEF Extent
  <2>2. stride \in Nat /\ n \in Int
    BY <1>1
  <2>3. q \in Int /\ n % stride \in 0 .. stride - 1 /\ n = stride * q + (n % stride)
    BY <1>1, <2>2, Division
  <2>4. stride * q <= stop - start + stride - 1
    BY <2>2, <2>3
  <2> HIDE DEF q
  <2>5. i + 1 \in Int /\ i + 1 <= q
    BY <2>1, <2>3
  <2>6. (i + 1) * stride <= q * stride
    BY <2>2, <2>3, <2>5, TimesMonotone
  <2>7. (i + 1) * stride = i * stride + stride /\ q * stride = stride * q /\ i * stride \in Nat
    BY <2>2, <2>3
  <2> QED
    BY <1>1, <2>2, <2>3, <2>4, <2>6, <2>7
<1>2. CASE stride < 0 /\ stop < start
  <2> DEFINE d == -stride
             n == start - stop + d - 1
             q == n \div d
  <2>1. d \in Nat /\ d > 0 /\ n \in Int /\ start - stop - stride - 1 = n
    BY <1>2
  <2>2. Extent(start, stop, stride) = q
    BY <1>2, <2>1 DEF Extent
  <2>3. q \in Int /\ n % d \in 0 .. d - 1 /\ n = d * q + (n % d)
    BY <2>1, Division
  <2>4. d * q <= start - stop + d - 1
    BY <2>1, <2>3
  <2> HIDE DEF q
  <2>5. i + 1 \in Int /\ i + 1 <= q
    BY <2>2, <2>3
  <2>6. (i + 1) * d <= q * d
    BY <2>1, <2>3, <2>5, TimesMonotone
  <2>7. (i + 1) * d = i * d + d /\ q * d = d * q /\ i * d \in Nat /\ i * stride = -(i * d)
    BY <1>2, <2>1, <2>3
  <2>8. i * d <= start - stop - 1 /\ start <= size - 1 /\ stop >= -1
    BY <1>2, <2>1, <2>3, <2>4, <2>6, <2>7
  <2> QED
    BY <1>2, <2>1, <2>7, <2>8
<1>3. CASE ~(stride > 0 /\ stop > start) /\ ~(stride < 0 /\ stop < start)
  BY <1>3 DEF Extent
<1> QED
  BY <1>1, <1>2, <1>3

\* The index into the input that the walk computes is that of the place on each
\* axis.
LEMMA SliceOffsetIsFlat ==
  ASSUME NEW o, NEW s \in Seq(Int), s = o.ins[1].shape, NEW idx, NEW c \in [1 .. Len(s) -> Int],
         \A a \in 1 .. Len(s) : c[a] = SliceStart(o, a) + idx[a] * SliceStride(o, a)
  PROVE  SliceOffset(o, idx) = FlatIndex(s, c)
<1> DEFINE n == Len(s)
           w(a) == (SliceStart(o, a) + idx[a] * SliceStride(o, a)) * product(s, a, n)
           Is(f) == f = [a \in 0 .. n |-> IF a = 0 THEN 0 ELSE f[a - 1] + w(a)]
           P == CHOOSE f : Is(f)
           g == [p \in (1 .. n) \X Int |-> p[2] + c[p[1]] * product(s, p[1], n)]
<1>1. n \in Nat /\ \A a \in 1 .. n : c[a] \in Int /\ product(s, a, n) \in Int /\ w(a) = c[a] * product(s, a, n)
  <2>1. n \in Nat /\ \A a \in 1 .. n : c[a] \in Int /\ a \in Nat /\ n \in 0 .. n
    OBVIOUS
  <2>2. \A a \in 1 .. n : product(s, a, n) \in Int
    BY <2>1, ProductSteps
  <2> QED
    BY <2>1, <2>2
<1> HIDE DEF w
<1>2. \E f \in [0 .. n -> Int] : Is(f)
  <2>1. g \in [(1 .. n) \X Int -> Int]
    BY <1>1
  <2>2. PICK f \in [0 .. n -> Int] : f[0] = 0 /\ \A a \in 1 .. n : f[a] = g[<<a, f[a - 1]>>]
    <3> DEFINE V == Int
               v == 0
    <3>1. n \in Nat /\ v \in V /\ g \in [(1 .. n) \X V -> V]
      BY <1>1, <2>1
    <3> HIDE DEF g, n, V, v
    <3>2. \E f \in [0 .. n -> V] : Folds(f, n, v, g)
      BY <3>1, FoldExists
    <3> QED
      BY <3>2 DEF V, v, Folds
  <2>3. ASSUME NEW a \in 1 .. n
        PROVE  f[a] = f[a - 1] + w(a)
    <3>1. a - 1 \in 0 .. n
      BY <1>1
    <3>2. f[a - 1] \in Int
      BY <3>1
    <3>3. <<a, f[a - 1]>> \in (1 .. n) \X Int
      BY <3>2
    <3>4. f[a] = f[a - 1] + c[a] * product(s, a, n)
      BY <2>2, <3>3
    <3> QED
      BY <1>1, <3>4
  <2>4. \A a \in 0 .. n : f[a] = IF a = 0 THEN 0 ELSE f[a - 1] + w(a)
    BY <1>1, <2>2, <2>3
  <2>5. Is(f)
    BY <2>4
  <2> HIDE DEF Is
  <2> QED
    BY <2>5
<1>3. Is(P)
  <2> HIDE DEF Is
  <2> QED
    BY <1>2
<1>4. SliceOffset(o, idx) = P[n]
  BY DEF SliceOffset, w
<1> HIDE DEF P
<1>5. \A a \in 0 .. n : P[a] = IF a = 0 THEN 0 ELSE P[a - 1] + w(a)
  BY <1>3
<1>6. \A a \in 0 .. n : P[a] \in Int
  <2> DEFINE S == {a \in 0 .. n : P[a] \in Int}
  <2>1. 0 \in S
    BY <1>1, <1>5
  <2>2. ASSUME NEW k \in 1 .. n, k - 1 \in S
        PROVE  k \in S
    BY <1>1, <1>5, <2>2
  <2>3. S \in SUBSET (0 .. n)
    OBVIOUS
  <2>4. \A k \in 0 .. n : k \in S
    <3> HIDE DEF S
    <3> QED
      BY <1>1, <2>1, <2>2, <2>3, EveryPlace
  <2> QED
    BY <2>4
<1>7. P \in [0 .. n -> Int]
  BY <1>3, <1>6
<1>8. P[0] = 0 /\ \A a \in 1 .. n : P[a] = P[a - 1] + c[a] * product(s, a, n)
  BY <1>1, <1>5
<1>9. P[n] = FlatIndex(s, c)
  BY <1>7, <1>8, FlatAsSum
<1> QED
  BY <1>4, <1>9

\* A set of places has a last one.
LEMMA GreatestPlace ==
  ASSUME NEW n \in Nat, NEW S \in SUBSET (1 .. n), S # {}
  PROVE  \E k \in S : \A j \in S : j <= k
<1> DEFINE Gaps == {n + 1 - h : h \in S}
<1>1. Gaps \in SUBSET (1 .. n) /\ Gaps # {}
  <2>1. \A h \in S : h \in 1 .. n /\ n + 1 - h \in 1 .. n
    OBVIOUS
  <2> QED
    BY <2>1
<1> HIDE DEF Gaps
<1>2. PICK g \in Gaps : \A j \in Gaps : g <= j
  BY <1>1, SmallestPlace
<1>3. PICK k \in S : g = n + 1 - k
  BY <1>2 DEF Gaps
<1>4. ASSUME NEW j \in S
      PROVE  j <= k
  <2>1. n + 1 - j \in Gaps
    BY DEF Gaps
  <2>2. g <= n + 1 - j
    BY <1>2, <2>1
  <2> QED
    BY <1>3, <2>2
<1> QED
  BY <1>4

\* The axis that takes the next index: the last one that has one.
CarryAxis(s, idx) ==
  CHOOSE x \in 1 .. Len(s) : idx[x] + 1 < s[x] /\ \A y \in x + 1 .. Len(s) : idx[y] + 1 >= s[y]

LEMMA NextIsWithin ==
  ASSUME NEW s \in Seq(Int), NEW idx, Within(s, idx), HasNext(s, idx)
  PROVE  LET a == CarryAxis(s, idx) IN
         /\ a \in 1 .. Len(s) /\ idx[a] + 1 < s[a] /\ \A y \in a + 1 .. Len(s) : idx[y] = s[y] - 1
         /\ NextIndex(s, idx) = [x \in 1 .. Len(s) |-> CASE x < a -> idx[x] [] x = a -> idx[x] + 1 [] OTHER -> 0]
         /\ Within(s, NextIndex(s, idx))
<1> DEFINE n == Len(s)
           S == {x \in 1 .. n : idx[x] + 1 < s[x]}
           a == CarryAxis(s, idx)
<1>1. n \in Nat /\ \A x \in 1 .. n : s[x] \in Int /\ idx[x] \in 0 .. s[x] - 1
  BY DEF Within
<1>2. S \in SUBSET (1 .. n) /\ S # {}
  BY DEF HasNext
<1>3. PICK k \in S : \A j \in S : j <= k
  <2> HIDE DEF S
  <2> QED
    BY <1>1, <1>2, GreatestPlace
<1>4. k \in 1 .. n /\ idx[k] + 1 < s[k]
  BY <1>3
<1>5. \A y \in k + 1 .. n : idx[y] + 1 >= s[y]
  <2>1. ASSUME NEW y \in k + 1 .. n
        PROVE  idx[y] + 1 >= s[y]
    <3>1. y \in 1 .. n /\ ~(y <= k)
      BY <1>1, <1>4
    <3>2. y \notin S
      BY <1>3, <3>1
    <3> QED
      BY <1>1, <3>1, <3>2
  <2> QED
    BY <2>1
<1>6. a \in 1 .. n /\ idx[a] + 1 < s[a] /\ \A y \in a + 1 .. n : idx[y] + 1 >= s[y]
  BY <1>4, <1>5 DEF CarryAxis
<1>7. \A y \in a + 1 .. n : idx[y] = s[y] - 1
  <2>1. ASSUME NEW y \in a + 1 .. n
        PROVE  idx[y] = s[y] - 1
    <3>1. y \in 1 .. n
      BY <1>1, <1>6
    <3>2. idx[y] + 1 >= s[y]
      BY <1>6
    <3>3. s[y] \in Int /\ idx[y] \in 0 .. s[y] - 1
      BY <1>1, <3>1
    <3> HIDE DEF a, n
    <3> QED
      BY <3>2, <3>3
  <2> QED
    BY <2>1
<1>8. NextIndex(s, idx) = [x \in 1 .. n |-> CASE x < a -> idx[x] [] x = a -> idx[x] + 1 [] OTHER -> 0]
  BY DEF NextIndex, CarryAxis
<1> HIDE DEF a, S, n
<1>9. ASSUME NEW x \in 1 .. n
      PROVE  NextIndex(s, idx)[x] \in 0 .. s[x] - 1
  <2>1. CASE x < a
    BY <1>1, <1>8, <2>1
  <2>2. CASE x = a
    BY <1>1, <1>6, <1>8, <2>2
  <2>3. CASE x > a
    BY <1>1, <1>6, <1>8, <2>3
  <2> QED
    BY <1>1, <1>6, <2>1, <2>2, <2>3
<1>10. NextIndex(s, idx) \in [1 .. n -> Int]
  <2> DEFINE N == NextIndex(s, idx)
  <2>1. N = [x \in 1 .. n |-> N[x]]
    BY <1>8
  <2>2. \A x \in 1 .. n : N[x] \in Int
    BY <1>1, <1>9
  <2> HIDE DEF N
  <2>3. N \in [1 .. n -> Int]
    BY <2>1, <2>2
  <2> QED
    BY <2>3 DEF N
<1>11. Within(s, NextIndex(s, idx))
  BY <1>9, <1>10 DEF Within, n
<1> QED
  BY <1>6, <1>7, <1>8, <1>11 DEF n, a

\* The equations of Walk.
LEMMA WalkSteps ==
  ASSUME NEW s \in Seq(Int), NEW n \in Nat, n > 0
  PROVE  /\ Walk(s, n)[0] = [a \in 1 .. Len(s) |-> 0]
         /\ \A i \in 1 .. n - 1 :
              Walk(s, n)[i] = IF ~HasNext(s, Walk(s, n)[i - 1]) THEN [a \in 1 .. Len(s) |-> 0]
                              ELSE NextIndex(s, Walk(s, n)[i - 1])
<1> DEFINE m == n - 1
           z == [a \in 1 .. Len(s) |-> 0]
           e(x) == IF ~HasNext(s, x) THEN z ELSE NextIndex(s, x)
           Is(f) == f = [i \in 0 .. m |-> IF i = 0 \/ ~HasNext(s, f[i - 1]) THEN z ELSE NextIndex(s, f[i - 1])]
           P == CHOOSE f : Is(f)
           V == [1 .. Len(s) -> Int]
           g == [p \in (1 .. m) \X V |-> e(p[2])]
<1>1. m \in Nat
  OBVIOUS
<1>2. \A x \in V : e(x) \in V
  <2>1. ASSUME NEW x \in V
        PROVE  NextIndex(s, x) \in V
    <3> DEFINE a == CarryAxis(s, x)
    <3>1. NextIndex(s, x) = [y \in 1 .. Len(s) |-> CASE y < a -> x[y] [] y = a -> x[y] + 1 [] OTHER -> 0]
      BY DEF NextIndex, CarryAxis
    <3> HIDE DEF a
    <3>2. \A y \in 1 .. Len(s) : x[y] \in Int /\ x[y] + 1 \in Int
      OBVIOUS
    <3>3. \A y \in 1 .. Len(s) : NextIndex(s, x)[y] \in Int
      BY <3>1, <3>2
    <3> QED
      BY <3>1, <3>3
  <2> QED
    BY <2>1
<1>3. \E f \in [0 .. m -> V] : Is(f)
  <2> HIDE DEF e, V, m
  <2>1. g \in [(1 .. m) \X V -> V]
    BY <1>2
  <2>2. z \in V
    BY DEF V
  <2> HIDE DEF z
  <2>3. PICK f \in [0 .. m -> V] : Folds(f, m, z, g)
    <3> HIDE DEF g
    <3> QED
      BY <1>1, <2>1, <2>2, FoldExists
  <2>4. ASSUME NEW i \in 1 .. m
        PROVE  f[i] = e(f[i - 1])
    <3>1. i - 1 \in 0 .. m
      BY <1>1
    <3>2. <<i, f[i - 1]>> \in (1 .. m) \X V
      BY <3>1
    <3> QED
      BY <2>3, <3>2 DEF Folds
  <2>5. \A i \in 0 .. m : f[i] = IF i = 0 \/ ~HasNext(s, f[i - 1]) THEN z ELSE NextIndex(s, f[i - 1])
    BY <1>1, <2>3, <2>4 DEF Folds, e
  <2>6. Is(f)
    BY <2>5
  <2> HIDE DEF Is
  <2> QED
    BY <2>6
<1>4. Is(P)
  <2> HIDE DEF Is
  <2> QED
    BY <1>3
<1>5. Walk(s, n) = P
  BY DEF Walk
<1> HIDE DEF P
<1>6. \A i \in 0 .. m : P[i] = IF i = 0 \/ ~HasNext(s, P[i - 1]) THEN z ELSE NextIndex(s, P[i - 1])
  BY <1>4
<1>7. P[0] = z
  BY <1>1, <1>6
<1>8. ASSUME NEW i \in 1 .. m
      PROVE  P[i] = IF ~HasNext(s, P[i - 1]) THEN z ELSE NextIndex(s, P[i - 1])
  <2>1. i \in 0 .. m /\ i # 0
    BY <1>1
  <2> HIDE DEF z
  <2> QED
    BY <1>6, <2>1
<1> QED
  BY <1>5, <1>7, <1>8

LEMMA WalkIsWithin ==
  ASSUME NEW s \in Seq(Int), NEW n \in Nat, n > 0, \A a \in 1 .. Len(s) : s[a] > 0
  PROVE  \A i \in 0 .. n - 1 : Within(s, Walk(s, n)[i])
<1> DEFINE m == n - 1
           W == Walk(s, n)
           S == {i \in 0 .. m : Within(s, W[i])}
<1>1. m \in Nat
  OBVIOUS
<1>2. Within(s, [a \in 1 .. Len(s) |-> 0])
  BY DEF Within
<1>3. 0 \in S
  BY <1>1, <1>2, WalkSteps
<1>4. ASSUME NEW k \in 1 .. m, k - 1 \in S
      PROVE  k \in S
  <2>1. W[k] = IF ~HasNext(s, W[k - 1]) THEN [a \in 1 .. Len(s) |-> 0] ELSE NextIndex(s, W[k - 1])
    BY WalkSteps
  <2>2. Within(s, W[k - 1]) /\ k \in 0 .. m
    BY <1>1, <1>4
  <2> QED
    BY <1>2, <2>1, <2>2, NextIsWithin
<1>5. \A i \in 0 .. m : i \in S
  <2>1. S \in SUBSET (0 .. m)
    OBVIOUS
  <2> HIDE DEF S, m
  <2> QED
    BY <1>1, <1>3, <1>4, <2>1, EveryPlace
<1> QED
  BY <1>5

\* The ends of a slice, clamped to their axis.
LEMMA SliceEnds ==
  ASSUME NEW m, NEW i \in Int, NEW stride \in Int, stride # 0, NEW size \in Nat
  PROVE  LET start == startForAxis(m, i, stride, size)
             stop  == stopForAxis(m, i, stride, size)
         IN /\ start \in Int /\ stop \in Int
            /\ stride > 0 => start \in 0 .. size /\ stop \in 0 .. size
            /\ stride < 0 => IF size = 0 THEN start = 0 /\ stop = 0
                             ELSE start \in -1 .. size - 1 /\ stop \in -1 .. size - 1
<1>1. FromEnd(i, size) \in Int
  BY DEF FromEnd
<1>2. ClampedToAxis(i, stride, size) \in Int
      /\ (stride > 0 => ClampedToAxis(i, stride, size) \in 0 .. size)
      /\ (stride < 0 => ClampedToAxis(i, stride, size) \in -1 .. size - 1)
  <2> DEFINE j == FromEnd(i, size)
  <2> HIDE DEF j
  <2>1. j \in Int
    BY <1>1 DEF j
  <2>2. CASE stride > 0
    <3>1. ClampedToAxis(i, stride, size) = Clamp(j, 0, size)
      BY <2>2 DEF ClampedToAxis, j
    <3>2. Clamp(j, 0, size) \in 0 .. size
      BY <2>1 DEF Clamp
    <3> QED
      BY <2>2, <3>1, <3>2
  <2>3. CASE stride < 0
    <3>1. ClampedToAxis(i, stride, size) = Clamp(j, -1, size - 1)
      BY <2>3 DEF ClampedToAxis, j
    <3>2. Clamp(j, -1, size - 1) \in -1 .. size - 1
      BY <2>1 DEF Clamp
    <3> QED
      BY <2>3, <3>1, <3>2
  <2> QED
    BY <2>2, <2>3
<1> DEFINE k == ClampedToAxis(i, stride, size)
<1> HIDE DEF k
<1>3. k \in Int /\ (stride > 0 => k \in 0 .. size) /\ (stride < 0 => k \in -1 .. size - 1)
  BY <1>2 DEF k
<1>4. startForAxis(m, i, stride, size) =
        IF size = 0 THEN 0 ELSE IF m THEN (IF stride > 0 THEN 0 ELSE size - 1) ELSE k
  BY DEF startForAxis, k
<1>5. stopForAxis(m, i, stride, size) =
        IF size = 0 THEN 0 ELSE IF m THEN (IF stride > 0 THEN size ELSE -1) ELSE k
  BY DEF stopForAxis, k
<1>6. CASE size = 0
  BY <1>4, <1>5, <1>6
<1>7. CASE size # 0 /\ m
  BY <1>4, <1>5, <1>7
<1>8. CASE size # 0 /\ ~m
  BY <1>3, <1>4, <1>5, <1>8
<1> QED
  BY <1>6, <1>7, <1>8

\* What Load and the first checks of stridedSlice say of its operands.
LEMMA SliceOperands ==
  ASSUME NEW o \in OperatorsOf("STRIDED_SLICE"), Loaded(o), ~SliceRanksDiffer(o),
         \A a \in 1 .. rank(o.ins[1]) : SliceStride(o, a) # 0
  PROVE  LET s == o.ins[1].shape
             r == o.outs[1].shape
         IN /\ s \in Seq(Int) /\ Len(s) = rank(o.ins[1]) /\ NumElements(o.ins[1]) = product(s, 0, Len(s))
            /\ r \in Seq(Int) /\ Len(r) = Len(s) /\ NumElements(o.outs[1]) = product(r, 0, Len(r))
            /\ NumElements(o.outs[1]) \in Nat
            /\ \A a \in 1 .. Len(s) :
                 /\ s[a] \in Nat /\ r[a] \in Nat
                 /\ SliceStride(o, a) \in Int /\ SliceStart(o, a) \in Int /\ SliceStop(o, a) \in Int
                 /\ SliceStride(o, a) # 0
                 /\ SliceStride(o, a) > 0 => SliceStart(o, a) \in 0 .. s[a] /\ SliceStop(o, a) \in 0 .. s[a]
                 /\ SliceStride(o, a) < 0 =>
                      \/ SliceStart(o, a) \in -1 .. s[a] - 1 /\ SliceStop(o, a) \in -1 .. s[a] - 1
                      \/ SliceStart(o, a) = 0 /\ SliceStop(o, a) = 0
<1> DEFINE s == o.ins[1].shape
           r == o.outs[1].shape
<1>1. StridedSliceRule(o)
  BY DEF OperatorsOf, Loaded, validateOperator
<1>2. Len(o.ins) = 4 /\ Len(o.outs) = 1
  BY <1>1 DEF StridedSliceRule
<1>3. \A k \in 1 .. 4 : o.ins[k] \in TensorInfo /\ TensorOK(o.ins[k])
  BY <1>2, Operands
<1>4. o.outs[1] \in TensorInfo /\ TensorOK(o.outs[1])
  BY <1>2, Operands
<1>5. /\ s \in Seq(Int) /\ Len(s) = rank(o.ins[1]) /\ NumElements(o.ins[1]) = product(s, 0, Len(s))
      /\ \A a \in 1 .. Len(s) : s[a] \in Nat
  <2>1. o.ins[1] \in TensorInfo /\ TensorOK(o.ins[1])
    BY <1>3
  <2> QED
    BY <2>1, TensorFacts
<1>6. /\ r \in Seq(Int) /\ Len(r) = rank(o.outs[1]) /\ NumElements(o.outs[1]) = product(r, 0, Len(r))
      /\ NumElements(o.outs[1]) \in Nat
      /\ \A a \in 1 .. Len(r) : r[a] \in Nat
  BY <1>4, TensorFacts
<1>7. Len(r) = Len(s) /\ \A k \in 2 .. 4 : Len(o.ins[k].const) = Len(s)
  BY <1>5, <1>6 DEF SliceRanksDiffer
<1>8. \A k \in 2 .. 4, a \in 1 .. Len(s) : o.ins[k].const[a] \in Int
  <2>1. ASSUME NEW k \in 2 .. 4, NEW a \in 1 .. Len(s)
        PROVE  o.ins[k].const[a] \in Int
    <3>1. o.ins[k] \in TensorInfo
      BY <1>3
    <3>2. o.ins[k].const \in Seq(Int)
      BY <3>1 DEF TensorInfo
    <3>3. a \in 1 .. Len(o.ins[k].const)
      BY <1>7
    <3> QED
      BY <3>2, <3>3
  <2> QED
    BY <2>1
<1>9. ASSUME NEW a \in 1 .. Len(s)
      PROVE  /\ SliceStride(o, a) \in Int /\ SliceStart(o, a) \in Int /\ SliceStop(o, a) \in Int
             /\ SliceStride(o, a) # 0
             /\ SliceStride(o, a) > 0 => SliceStart(o, a) \in 0 .. s[a] /\ SliceStop(o, a) \in 0 .. s[a]
             /\ SliceStride(o, a) < 0 =>
                  \/ SliceStart(o, a) \in -1 .. s[a] - 1 /\ SliceStop(o, a) \in -1 .. s[a] - 1
                  \/ SliceStart(o, a) = 0 /\ SliceStop(o, a) = 0
  <2> DEFINE b == o.ins[2].const[a]
             e == o.ins[3].const[a]
             d == SliceStride(o, a)
  <2>1. b \in Int /\ e \in Int /\ d \in Int
    BY <1>8 DEF SliceStride
  <2>2. d # 0 /\ s[a] \in Nat
    BY <1>5
  <2>3. /\ SliceStart(o, a) = startForAxis(a \in o.opt.beginMask, b, d, s[a])
        /\ SliceStop(o, a) = stopForAxis(a \in o.opt.endMask, e, d, s[a])
    BY DEF SliceStart, SliceStop
  <2> HIDE DEF b, e, d, s
  <2>4. /\ SliceStart(o, a) \in Int
        /\ d > 0 => SliceStart(o, a) \in 0 .. s[a]
        /\ d < 0 => IF s[a] = 0 THEN SliceStart(o, a) = 0 ELSE SliceStart(o, a) \in -1 .. s[a] - 1
    BY <2>1, <2>2, <2>3, SliceEnds
  <2>5. /\ SliceStop(o, a) \in Int
        /\ d > 0 => SliceStop(o, a) \in 0 .. s[a]
        /\ d < 0 => IF s[a] = 0 THEN SliceStop(o, a) = 0 ELSE SliceStop(o, a) \in -1 .. s[a] - 1
    BY <2>1, <2>2, <2>3, SliceEnds
  <2> QED
    BY <2>1, <2>2, <2>4, <2>5 DEF d
<1> QED
  BY <1>5, <1>6, <1>7, <1>9

\* The place on each axis of the input that the walk reads at idx.
SlicePlaces(o, idx) ==
  [a \in 1 .. Len(o.ins[1].shape) |-> SliceStart(o, a) + idx[a] * SliceStride(o, a)]

LEMMA SliceReadsWithin ==
  ASSUME NEW o \in OperatorsOf("STRIDED_SLICE"), Loaded(o), ~SliceRanksDiffer(o),
         \A a \in 1 .. rank(o.ins[1]) : SliceStride(o, a) # 0,
         \A a \in 1 .. rank(o.ins[1]) : SliceExtent(o, a) = o.outs[1].shape[a],
         NEW idx, Within(o.outs[1].shape, idx)
  PROVE  /\ Within(o.ins[1].shape, SlicePlaces(o, idx))
         /\ SliceOffset(o, idx) = FlatIndex(o.ins[1].shape, SlicePlaces(o, idx))
         /\ SliceOffset(o, idx) \in 0 .. NumElements(o.ins[1]) - 1
<1> DEFINE s == o.ins[1].shape
           r == o.outs[1].shape
           c == SlicePlaces(o, idx)
<1>1. /\ s \in Seq(Int) /\ Len(s) = rank(o.ins[1]) /\ NumElements(o.ins[1]) = product(s, 0, Len(s))
      /\ Len(r) = Len(s) /\ \A a \in 1 .. Len(s) : s[a] \in Nat
  BY SliceOperands
<1>2. ASSUME NEW a \in 1 .. Len(s)
      PROVE  SliceStart(o, a) + idx[a] * SliceStride(o, a) \in 0 .. s[a] - 1
  <2> DEFINE start == SliceStart(o, a)
             stop  == SliceStop(o, a)
             d     == SliceStride(o, a)
             size  == s[a]
             i     == idx[a]
  <2>1. /\ d \in Int /\ start \in Int /\ stop \in Int /\ size \in Nat /\ d # 0
        /\ d > 0 => start \in 0 .. size /\ stop \in 0 .. size
        /\ d < 0 => (start \in -1 .. size - 1 /\ stop \in -1 .. size - 1) \/ (start = 0 /\ stop = 0)
    BY SliceOperands
  <2>2. r[a] = Extent(start, stop, d)
    BY <1>1 DEF SliceExtent
  <2>3. r[a] \in Nat
    BY <1>1, SliceOperands
  <2>4. i \in 0 .. r[a] - 1
    BY <1>1 DEF Within
  <2> HIDE DEF start, stop, d, size, i
  <2>5. i \in Nat /\ i < Extent(start, stop, d)
    BY <2>2, <2>3, <2>4
  <2>6. start + i * d \in 0 .. size - 1
    BY <2>1, <2>5, SliceWithinAxis
  <2> QED
    BY <2>6 DEF start, d, size, i
<1>3. c = [a \in 1 .. Len(s) |-> SliceStart(o, a) + idx[a] * SliceStride(o, a)]
  BY DEF SlicePlaces
<1>4. Within(s, c)
  <2> HIDE DEF c
  <2> QED
    BY <1>1, <1>2, <1>3 DEF Within
<1>5. SliceOffset(o, idx) = FlatIndex(s, c)
  <2>1. c \in [1 .. Len(s) -> Int] /\ \A a \in 1 .. Len(s) : c[a] = SliceStart(o, a) + idx[a] * SliceStride(o, a)
    BY <1>3, <1>4 DEF Within
  <2> HIDE DEF c
  <2> QED
    BY <1>1, <2>1, SliceOffsetIsFlat
<1>6. FlatIndex(s, c) \in 0 .. product(s, 0, Len(s)) - 1
  <2>1. c \in [1 .. Len(s) -> Int]
    BY <1>4 DEF Within
  <2> HIDE DEF c, s
  <2>2. PICK f : Flat(s, c, f) /\ FlatIndex(s, c) = f[Len(s)]
    BY <1>1, <2>1, FlatExists
  <2>3. Len(s) \in 0 .. Len(s) /\ \A a \in 1 .. Len(s) : s[a] >= 0
    BY <1>1
  <2> QED
    BY <1>1, <1>4, <2>2, <2>3, FlatInRange
<1> QED
  BY <1>1, <1>4, <1>5, <1>6

LEMMA StridedSliceInRange ==
  ASSUME NEW o \in OperatorsOf("STRIDED_SLICE"), Loaded(o)
  PROVE  stridedSlice(o).kind # "panic"
<1> DEFINE r == o.outs[1].shape
           n == NumElements(o.outs[1])
<1>1. ASSUME ~SliceRanksDiffer(o),
             \A a \in 1 .. rank(o.ins[1]) : SliceStride(o, a) # 0,
             \A a \in 1 .. rank(o.ins[1]) : SliceExtent(o, a) = r[a],
             NEW i \in 0 .. n - 1
      PROVE  SliceOffset(o, Walk(r, n)[i]) \in 0 .. NumElements(o.ins[1]) - 1
  <2>1. /\ r \in Seq(Int) /\ n = product(r, 0, Len(r)) /\ n \in Nat
        /\ \A a \in 1 .. Len(r) : r[a] >= 0
    <3>1. /\ r \in Seq(Int) /\ Len(r) = Len(o.ins[1].shape) /\ n = product(r, 0, Len(r)) /\ n \in Nat
          /\ \A a \in 1 .. Len(o.ins[1].shape) : r[a] \in Nat
      BY <1>1, SliceOperands
    <3> HIDE DEF r, n
    <3> QED
      BY <3>1
  <2>2. n > 0
    BY <2>1
  <2>3. \A a \in 1 .. Len(r) : r[a] > 0
    BY <2>1, <2>2, ProductPositive
  <2>4. Within(r, Walk(r, n)[i])
    <3> HIDE DEF r, n
    <3> QED
      BY <2>1, <2>2, <2>3, WalkIsWithin
  <2> QED
    BY <1>1, <2>4, SliceReadsWithin
<1> QED
  BY <1>1 DEF stridedSlice, Error, Wrote

-----------------------------------------------------------------------------
(* The tensors of the kernels that multiply and accumulate. *)

LEMMA FourAxes ==
  ASSUME NEW t \in TensorInfo, TensorOK(t), rank(t) = 4
  PROVE  /\ \A a \in 1 .. 4 : t.shape[a] \in Nat
         /\ NumElements(t) = ((t.shape[1] * t.shape[2]) * t.shape[3]) * t.shape[4]
<1> DEFINE s == t.shape
<1>1. s \in Seq(Int) /\ Len(s) = 4 /\ NumElements(t) = product(s, 0, 4) /\ \A a \in 1 .. 4 : s[a] \in Nat
  BY TensorFacts
<1> HIDE DEF s
<1>2. product(s, 0, 0) = 1
  BY <1>1, ProductSteps
<1>3. \A a \in 1 .. 4 : product(s, 0, a) = product(s, 0, a - 1) * s[a]
  <2>1. \A a \in 1 .. 4 : a \in 1 .. Len(s) /\ a > 0 /\ 0 \in Nat
    BY <1>1
  <2> QED
    BY <1>1, <2>1, ProductSteps
<1>4. product(s, 0, 1) = product(s, 0, 0) * s[1] /\ product(s, 0, 2) = product(s, 0, 1) * s[2]
  BY <1>3
<1>5. product(s, 0, 3) = product(s, 0, 2) * s[3] /\ product(s, 0, 4) = product(s, 0, 3) * s[4]
  BY <1>3
<1>6. s[1] \in Nat /\ 1 * s[1] = s[1]
  BY <1>1
<1>7. NumElements(t) = ((s[1] * s[2]) * s[3]) * s[4]
  BY <1>1, <1>2, <1>4, <1>5, <1>6
<1> QED
  BY <1>1, <1>7 DEF s

LEMMA TwoAxes ==
  ASSUME NEW t \in TensorInfo, TensorOK(t), rank(t) = 2
  PROVE  t.shape[1] \in Nat /\ t.shape[2] \in Nat /\ NumElements(t) = t.shape[1] * t.shape[2]
<1> DEFINE s == t.shape
<1>1. s \in Seq(Int) /\ Len(s) = 2 /\ NumElements(t) = product(s, 0, 2) /\ \A a \in 1 .. 2 : s[a] \in Nat
  BY TensorFacts
<1> HIDE DEF s
<1>2. product(s, 0, 0) = 1
  BY <1>1, ProductSteps
<1>3. \A a \in 1 .. 2 : product(s, 0, a) = product(s, 0, a - 1) * s[a]
  <2>1. \A a \in 1 .. 2 : a \in 1 .. Len(s) /\ a > 0 /\ 0 \in Nat
    BY <1>1
  <2> QED
    BY <1>1, <2>1, ProductSteps
<1>4. product(s, 0, 1) = product(s, 0, 0) * s[1] /\ product(s, 0, 2) = product(s, 0, 1) * s[2]
  BY <1>3
<1>5. s[1] \in Nat /\ s[2] \in Nat /\ 1 * s[1] = s[1]
  BY <1>1
<1>6. NumElements(t) = s[1] * s[2]
  BY <1>1, <1>2, <1>4, <1>5
<1> QED
  BY <1>5, <1>6 DEF s

\* Constant data is never empty, so no axis of its tensor has size 0.
LEMMA ConstIsNotEmpty ==
  ASSUME NEW t \in TensorInfo, TensorOK(t), IsConst(t)
  PROVE  \A a \in 1 .. rank(t) : t.shape[a] > 0
<1>1. t.const \in Seq(Int) /\ t.const # << >> /\ Len(t.const) = NumElements(t)
  BY DEF TensorInfo, TensorOK, IsConst
<1>2. NumElements(t) > 0
  <2> DEFINE c == t.const
  <2>1. c \in Seq(Int) /\ c # << >>
    BY <1>1
  <2> HIDE DEF c
  <2>2. Len(c) > 0
    BY <2>1
  <2> QED
    BY <1>1, <2>2 DEF c
<1>3. /\ t.shape \in Seq(Int) /\ rank(t) = Len(t.shape) /\ product(t.shape, 0, Len(t.shape)) > 0
      /\ \A a \in 1 .. Len(t.shape) : t.shape[a] >= 0
  BY <1>2, TensorFacts
<1> QED
  BY <1>3, ProductPositive

\* A bias with a scale for each channel, or one for all: checkBias finds the
\* scale of every channel.
LEMMA BiasChecked ==
  ASSUME NEW bias \in TensorInfo, NEW in, NEW filter, NEW out, NEW channels \in Int,
         PerChannel(bias) /\ NumElements(bias) = channels => Len(bias.quant.scales) = channels
  PROVE  LET check == checkBias(bias, in, filter, out, channels)
         IN check.kind # "panic" /\ (check.kind = "ok" => NumElements(bias) = channels)
<1> DEFINE n == Len(bias.quant.scales)
           k(c) == IF PerChannel(bias) THEN c + 1 ELSE 1
           has  == {c \in 0 .. channels - 1 : k(c) <= n}
           ok(c) == /\ bias.quant.zeroPoints[k(c)] = 0
                    /\ BiasScaleOK(in, filterScale(filter, c), bias.quant.scales[k(c)], out)
<1>1. bias.quant.scales \in Seq(Int)
  BY DEF TensorInfo
<1>2. ASSUME BiasOK(bias, channels)
      PROVE  has = 0 .. channels - 1 /\ NumElements(bias) = channels
  <2>1. Quantized(bias) /\ NumElements(bias) = channels
    BY <1>2 DEF BiasOK
  <2>2. n \in Nat /\ n >= 1
    BY <1>1, <2>1 DEF Quantized
  <2>3. PerChannel(bias) => n = channels
    BY <2>1
  <2> HIDE DEF n
  <2>4. \A c \in 0 .. channels - 1 : k(c) <= n
    BY <2>2, <2>3
  <2> QED
    BY <2>1, <2>4
<1> HIDE DEF ok, has
<1>3. checkBias(bias, in, filter, out, channels) =
        IF ~BiasOK(bias, channels) \/ \E c \in has : ~ok(c) THEN Error
        ELSE IF has # 0 .. channels - 1 THEN Panic ELSE Ready(<< >>)
  BY DEF checkBias, has, ok
<1> QED
  BY <1>2, <1>3 DEF Error, Panic, Ready

LEMMA WrittenInRange ==
  ASSUME NEW writes, NEW in, NEW filter, NEW bias, NEW out,
         \A w \in writes :
           /\ w.at \in 0 .. NumElements(out) - 1
           /\ w.value.bias \in 0 .. NumElements(bias) - 1
           /\ \A t \in w.value.taps : t[1] \in 0 .. NumElements(in) - 1 /\ t[2] \in 0 .. NumElements(filter) - 1
  PROVE  Written(writes, in, filter, bias, out).kind # "panic"
BY DEF Written, Wrote
-----------------------------------------------------------------------------
(* CONV_2D and DEPTHWISE_CONV_2D *)

Convolutions == {"CONV_2D", "DEPTHWISE_CONV_2D"}

\* The sizes that the loops of both kernels run over are those of the tensors.
ConvSizes(o, p) ==
  /\ p.batches \in Nat /\ p.inDepth \in Nat /\ p.outDepth \in Nat
  /\ \A a \in Spatial : p.in[a] \in Nat /\ p.filter[a] \in Nat /\ p.out[a] \in Nat
  /\ NumElements(o.ins[1])  = ((p.batches * p.in[1]) * p.in[2]) * p.inDepth
  /\ NumElements(o.outs[1]) = ((p.batches * p.out[1]) * p.out[2]) * p.outDepth
  /\ NumElements(o.ins[3]) = p.outDepth

\* What ConvRule and Load say of the tensors.
LEMMA ConvOperands ==
  ASSUME NEW c \in Convolutions, NEW o \in OperatorsOf(c), Loaded(o)
  PROVE  /\ o.code = c /\ ConvRule(o)
         /\ \A k \in 1 .. 3 : o.ins[k] \in TensorInfo /\ TensorOK(o.ins[k])
         /\ o.outs[1] \in TensorInfo /\ TensorOK(o.outs[1])
         /\ rank(o.ins[1]) = 4 /\ rank(o.ins[2]) = 4 /\ rank(o.outs[1]) = 4
         /\ \A a \in 1 .. 4 : o.ins[1].shape[a] \in Nat /\ o.ins[2].shape[a] \in Nat /\ o.outs[1].shape[a] \in Nat
         /\ \A a \in 1 .. 4 : o.ins[2].shape[a] > 0
         /\ \A a \in Spatial : o.opt.stride[a] \in Int /\ o.opt.stride[a] >= 1 /\ o.opt.dilation[a] = 1
<1>1. o.code = c
  BY DEF OperatorsOf
<1>2. ConvRule(o)
  BY <1>1 DEF Convolutions, Loaded, validateOperator
<1>3. /\ Len(o.ins) = 3 /\ Len(o.outs) = 1 /\ IsConst(o.ins[2])
      /\ rank(o.ins[1]) = 4 /\ rank(o.ins[2]) = 4 /\ rank(o.outs[1]) = 4
  BY <1>2 DEF ConvRule, MacTensorsOK
<1>4. \A k \in 1 .. 3 : o.ins[k] \in TensorInfo /\ TensorOK(o.ins[k])
  BY <1>3, Operands
<1>5. o.outs[1] \in TensorInfo /\ TensorOK(o.outs[1])
  BY <1>3, Operands
<1>6. /\ o.ins[1] \in TensorInfo /\ TensorOK(o.ins[1])
      /\ o.ins[2] \in TensorInfo /\ TensorOK(o.ins[2])
  BY <1>4
<1>7. \A a \in 1 .. 4 : o.ins[1].shape[a] \in Nat /\ o.ins[2].shape[a] \in Nat /\ o.outs[1].shape[a] \in Nat
  BY <1>3, <1>5, <1>6, FourAxes
<1>8. \A a \in 1 .. 4 : o.ins[2].shape[a] > 0
  BY <1>3, <1>6, ConstIsNotEmpty
<1>9. \A a \in Spatial : o.opt.stride[a] \in Int /\ o.opt.stride[a] >= 1 /\ o.opt.dilation[a] = 1
  <2>1. o.opt \in OptionsOf(c)
    BY DEF OperatorsOf
  <2>2. o.opt.stride \in [Spatial -> Int]
    BY <2>1 DEF OptionsOf, Convolutions
  <2> QED
    BY <1>2, <2>2 DEF ConvRule
<1> QED
  BY <1>1, <1>2, <1>3, <1>4, <1>5, <1>7, <1>8, <1>9

\* p with the scales that finishConvParams adds.
Rescaled(p, q) == \E sc : q = [p EXCEPT !.scales = sc]

\* The steps that both convolutions' prepare steps end with.
LEMMA ConvFinished ==
  ASSUME NEW c \in Convolutions, NEW o \in OperatorsOf(c), Loaded(o), NEW axis, NEW p, p.outDepth \in Int,
         FilterScalesOK(o.ins[2], axis, p.outDepth)
  PROVE  /\ finishConvParams(o, p).kind # "panic"
         /\ finishConvParams(o, p).kind = "ok" =>
              /\ NumElements(o.ins[3]) = p.outDepth
              /\ Rescaled(p, finishConvParams(o, p).params)
<1> DEFINE in == o.ins[1]
           filter == o.ins[2]
           bias == o.ins[3]
           out == o.outs[1]
           check == checkBias(bias, in, filter, out, p.outDepth)
<1>1. ConvRule(o) /\ bias \in TensorInfo
  BY ConvOperands
<1>2. Len(bias.quant.scales) = p.outDepth
  BY <1>1 DEF ConvRule, FilterScalesOK
<1>3. check.kind # "panic" /\ (check.kind = "ok" => NumElements(bias) = p.outDepth)
  <2> HIDE DEF bias, in, filter, out
  <2> QED
    BY <1>1, <1>2, BiasChecked
<1> HIDE DEF check
<1>4. finishConvParams(o, p) =
        IF filter.quant.zeroPoints[1] # 0 THEN Error
        ELSE IF check.kind # "ok" THEN check
        ELSE Ready([p EXCEPT !.scales = perChannelMultipliers(in, filter, out, p.outDepth)])
  BY DEF finishConvParams, check
<1> DEFINE q(sc) == [p EXCEPT !.scales = sc]
           scales == perChannelMultipliers(in, filter, out, p.outDepth)
<1>5. \/ finishConvParams(o, p) = Error
      \/ finishConvParams(o, p) = check /\ check.kind # "ok"
      \/ check.kind = "ok" /\ finishConvParams(o, p) = Ready(q(scales))
  BY <1>4
<1> HIDE DEF q, scales
<1>6. finishConvParams(o, p).kind = "ok" => check.kind = "ok" /\ finishConvParams(o, p).params = q(scales)
  BY <1>5 DEF Error, Ready
<1>7. finishConvParams(o, p).kind # "panic"
  BY <1>3, <1>5 DEF Error, Ready
<1> QED
  BY <1>3, <1>6, <1>7 DEF q, Rescaled

\* convGeometry's checks make its sizes those of the tensors.
LEMMA GeometrySizes ==
  ASSUME NEW c \in Convolutions, NEW o \in OperatorsOf(c), Loaded(o), NEW outDepth, GeometryOK(o, outDepth),
         NumElements(o.ins[3]) = outDepth
  PROVE  ConvSizes(o, convGeometry(o, outDepth))
<1> DEFINE s == o.ins[1].shape
           f == o.ins[2].shape
           r == o.outs[1].shape
           p == convGeometry(o, outDepth)
<1>1. \A a \in 1 .. 4 : s[a] \in Nat /\ f[a] \in Nat /\ r[a] \in Nat
  BY ConvOperands
<1>2. r = <<s[1], OutSize(o, 1), OutSize(o, 2), outDepth>>
  BY DEF GeometryOK
<1>3. r[1] = s[1] /\ r[2] = OutSize(o, 1) /\ r[3] = OutSize(o, 2) /\ r[4] = outDepth
  BY <1>2
<1>4. NumElements(o.ins[1]) = ((s[1] * s[2]) * s[3]) * s[4]
  BY ConvOperands, FourAxes
<1>5. NumElements(o.outs[1]) = ((r[1] * r[2]) * r[3]) * r[4]
  BY ConvOperands, FourAxes
<1>6. /\ p.batches = s[1] /\ p.inDepth = s[4] /\ p.outDepth = r[4]
      /\ p.in[1] = s[2] /\ p.in[2] = s[3] /\ p.filter[1] = f[2] /\ p.filter[2] = f[3]
      /\ p.out[1] = r[2] /\ p.out[2] = r[3]
  BY <1>3 DEF convGeometry, Spatial
<1> HIDE DEF p, s, f, r
<1>7. 1 \in 1 .. 4 /\ 2 \in 1 .. 4 /\ 3 \in 1 .. 4 /\ 4 \in 1 .. 4
  OBVIOUS
<1>8. /\ s[1] \in Nat /\ s[2] \in Nat /\ s[3] \in Nat /\ s[4] \in Nat
      /\ f[2] \in Nat /\ f[3] \in Nat /\ r[2] \in Nat /\ r[3] \in Nat /\ r[4] \in Nat
  BY <1>1, <1>7
<1>9. \A a \in Spatial : p.in[a] \in Nat /\ p.filter[a] \in Nat /\ p.out[a] \in Nat
  BY <1>6, <1>8 DEF Spatial
<1>10. ConvSizes(o, p)
  <2>1. NumElements(o.ins[1]) = ((p.batches * p.in[1]) * p.in[2]) * p.inDepth
    BY <1>4, <1>6
  <2>2. NumElements(o.outs[1]) = ((p.batches * p.out[1]) * p.out[2]) * p.outDepth
    BY <1>3, <1>5, <1>6
  <2>3. NumElements(o.ins[3]) = p.outDepth
    BY <1>3, <1>6
  <2> QED
    BY <1>6, <1>8, <1>9, <2>1, <2>2, <2>3 DEF ConvSizes
<1> QED
  BY <1>10 DEF p

\* What a convolution writes and reads outside its inner loop.
LEMMA ConvPlaces ==
  ASSUME NEW o, NEW p, ConvSizes(o, p), NEW x \in ConvOutputs(p)
  PROVE  /\ OutputAt(p, x) \in 0 .. NumElements(o.outs[1]) - 1
         /\ x[4] \in 0 .. p.outDepth - 1
         /\ x[4] \in 0 .. NumElements(o.ins[3]) - 1
         /\ \A f \in FilterInside(p, x) :
              /\ f[1] \in 0 .. p.filter[1] - 1 /\ f[2] \in 0 .. p.filter[2] - 1
              /\ PixelAt(p, x, f) \in Int
              /\ \A n \in 0 .. p.inDepth - 1 : PixelAt(p, x, f) + n \in 0 .. NumElements(o.ins[1]) - 1
<1>1. /\ x[1] \in 0 .. p.batches - 1 /\ x[2] \in 0 .. p.out[1] - 1
      /\ x[3] \in 0 .. p.out[2] - 1 /\ x[4] \in 0 .. p.outDepth - 1
  BY DEF ConvOutputs
<1>2. /\ p.batches \in Nat /\ p.inDepth \in Nat /\ p.outDepth \in Nat
      /\ p.in[1] \in Nat /\ p.in[2] \in Nat /\ p.out[1] \in Nat /\ p.out[2] \in Nat
  BY DEF ConvSizes, Spatial
<1>3. OutputAt(p, x) \in 0 .. NumElements(o.outs[1]) - 1
  <2>1. x[1] * p.out[1] + x[2] \in 0 .. p.batches * p.out[1] - 1
    BY <1>1, <1>2, RowMajor
  <2>2. p.batches * p.out[1] \in Nat
    BY <1>2
  <2>3. (x[1] * p.out[1] + x[2]) * p.out[2] + x[3] \in 0 .. (p.batches * p.out[1]) * p.out[2] - 1
    BY <1>1, <1>2, <2>1, <2>2, RowMajor
  <2>4. (p.batches * p.out[1]) * p.out[2] \in Nat
    BY <1>2, <2>2
  <2>5. ((x[1] * p.out[1] + x[2]) * p.out[2] + x[3]) * p.outDepth + x[4]
          \in 0 .. ((p.batches * p.out[1]) * p.out[2]) * p.outDepth - 1
    BY <1>1, <1>2, <2>3, <2>4, RowMajor
  <2> QED
    BY <2>5 DEF ConvSizes, OutputAt
<1>4. ASSUME NEW f \in FilterInside(p, x)
      PROVE  /\ f[1] \in 0 .. p.filter[1] - 1 /\ f[2] \in 0 .. p.filter[2] - 1
             /\ PixelAt(p, x, f) \in Int
             /\ \A n \in 0 .. p.inDepth - 1 : PixelAt(p, x, f) + n \in 0 .. NumElements(o.ins[1]) - 1
  <2> DEFINE y == InputAt(p, x, 1, f[1])
             z == InputAt(p, x, 2, f[2])
             row == x[1] * p.in[1] + y
             pixel == row * p.in[2] + z
  <2>1. f[1] \in 0 .. p.filter[1] - 1 /\ f[2] \in 0 .. p.filter[2] - 1
    BY DEF FilterInside
  <2>2. y \in 0 .. p.in[1] - 1 /\ z \in 0 .. p.in[2] - 1
    BY DEF FilterInside, Spatial
  <2> HIDE DEF y, z
  <2>3. row \in 0 .. p.batches * p.in[1] - 1 /\ p.batches * p.in[1] \in Nat
    BY <1>1, <1>2, <2>2, RowMajor
  <2> HIDE DEF row
  <2>4. pixel \in 0 .. (p.batches * p.in[1]) * p.in[2] - 1
    BY <1>2, <2>2, <2>3, RowMajor
  <2>5. (p.batches * p.in[1]) * p.in[2] \in Nat
    BY <1>2, <2>3
  <2> HIDE DEF pixel
  <2>6. \A n \in 0 .. p.inDepth - 1 :
          pixel * p.inDepth + n \in 0 .. ((p.batches * p.in[1]) * p.in[2]) * p.inDepth - 1
    BY <1>2, <2>4, <2>5, RowMajor
  <2>7. PixelAt(p, x, f) = pixel * p.inDepth
    BY DEF PixelAt, pixel, row, y, z
  <2>8. PixelAt(p, x, f) \in Int
    BY <1>2, <2>4, <2>7
  <2> QED
    BY <2>1, <2>6, <2>7, <2>8 DEF ConvSizes
<1> QED
  BY <1>1, <1>3, <1>4 DEF ConvSizes
\* The fields of convGeometry, which no later step of a prepare step changes.
SameGeometry(p, q) ==
  /\ p.batches = q.batches /\ p.inDepth = q.inDepth /\ p.outDepth = q.outDepth
  /\ p.in = q.in /\ p.filter = q.filter /\ p.out = q.out
  /\ p.pad = q.pad /\ p.stride = q.stride /\ p.dilation = q.dilation

LEMMA SameGeometrySameSizes ==
  ASSUME NEW o, NEW p, NEW q, ConvSizes(o, q), SameGeometry(p, q)
  PROVE  ConvSizes(o, p)
BY DEF ConvSizes, SameGeometry

\* The groups of a CONV_2D divide the input's channels and the filters.
Grouped(o, p) ==
  /\ p.filterInDepth \in Nat /\ p.filterInDepth > 0 /\ p.filtersPerGroup \in Nat /\ p.filtersPerGroup > 0
  /\ \E groups \in Nat : p.outDepth = groups * p.filtersPerGroup /\ p.inDepth = groups * p.filterInDepth
  /\ NumElements(o.ins[2]) = ((p.outDepth * p.filter[1]) * p.filter[2]) * p.filterInDepth

LEMMA ConvPrepared ==
  ASSUME NEW o \in OperatorsOf("CONV_2D"), Loaded(o)
  PROVE  /\ Regular(o) => prepareConv(o).kind # "panic"
         /\ prepareConv(o).kind = "ok" =>
              \E p, outDepth :
                /\ prepareConv(o).params = p
                /\ GeometryOK(o, outDepth) /\ SameGeometry(p, convGeometry(o, outDepth))
                /\ ConvSizes(o, p) /\ Grouped(o, p)
<1> DEFINE filter   == o.ins[2]
           n        == filter.shape[1]
           d        == o.ins[1].shape[4]
           e        == filter.shape[4]
           groups   == d \div e
           g == convGeometry(o, n)
           p == [g EXCEPT !.filterInDepth = e, !.filtersPerGroup = n \div groups]
           r == finishConvParams(o, p)
           q(sc) == [p EXCEPT !.scales = sc]
<1>0. "CONV_2D" \in Convolutions
  BY DEF Convolutions
<1>1. n \in Nat /\ n > 0 /\ d \in Nat /\ e \in Nat /\ e > 0
  BY <1>0, ConvOperands
<1>2. Regular(o) => d > 0
  BY <1>1 DEF OperatorsOf, Regular
<1>3. prepareConv(o) =
        IF ~GeometryOK(o, n) \/ e = 0 \/ d % e # 0 THEN Error
        ELSE IF groups = 0 THEN Panic
        ELSE IF n % groups # 0 \/ ~FilterScalesOK(filter, 0, n) THEN Error
        ELSE r
  BY DEF prepareConv
<1>4. g.outDepth = n /\ p.outDepth = n /\ SameGeometry(p, g) /\ \A sc : SameGeometry(q(sc), g)
  BY DEF convGeometry, SameGeometry
<1>5. \A sc : q(sc).outDepth = n /\ q(sc).filterInDepth = e /\ q(sc).filtersPerGroup = n \div groups
              /\ q(sc).inDepth = d /\ q(sc).filter[1] = filter.shape[2] /\ q(sc).filter[2] = filter.shape[3]
  BY DEF convGeometry, Spatial
<1>6. NumElements(filter) = ((n * filter.shape[2]) * filter.shape[3]) * e
  BY <1>0, ConvOperands, FourAxes
<1> HIDE DEF p, q, g, filter, n, d, e
<1>7. ASSUME d % e = 0
      PROVE  groups \in Nat /\ d = groups * e /\ (Regular(o) => groups > 0)
  <2> HIDE DEF groups
  <2>1. groups \in Int /\ d = e * groups + 0
    BY <1>1, <1>7, Division DEF groups
  <2>2. groups >= 0
    <3>1. CASE groups < 0
      <4>1. groups * e <= (-1) * e
        BY <1>1, <2>1, <3>1, TimesMonotone
      <4> QED
        BY <1>1, <2>1, <4>1
    <3> QED
      BY <2>1, <3>1
  <2>3. groups = 0 => d = 0
    BY <1>1, <2>1
  <2> QED
    BY <1>1, <1>2, <2>1, <2>2, <2>3
<1>8. ASSUME d % e = 0, groups # 0, n % groups = 0
      PROVE  n \div groups \in Nat /\ n \div groups > 0 /\ n = groups * (n \div groups)
  <2>1. groups \in Nat /\ groups > 0
    BY <1>7, <1>8
  <2> HIDE DEF groups
  <2> DEFINE k == n \div groups
  <2>2. k \in Int /\ n = groups * k + 0
    BY <1>1, <1>8, <2>1, Division
  <2> HIDE DEF k
  <2>3. k > 0
    <3>1. CASE k <= 0
      <4>1. k * groups <= 0 * groups
        BY <2>1, <2>2, <3>1, TimesMonotone
      <4> QED
        BY <1>1, <2>1, <2>2, <4>1
    <3> QED
      BY <2>2, <3>1
  <2> QED
    BY <2>1, <2>2, <2>3 DEF k
<1> HIDE DEF groups
<1>9. ASSUME FilterScalesOK(filter, 0, n)
      PROVE  /\ r.kind # "panic"
             /\ r.kind = "ok" => NumElements(o.ins[3]) = n /\ \E sc : r.params = q(sc)
  <2>1. p.outDepth \in Int /\ FilterScalesOK(o.ins[2], 0, p.outDepth)
    BY <1>1, <1>4, <1>9 DEF filter
  <2>2. r.kind # "panic" /\ (r.kind = "ok" => NumElements(o.ins[3]) = p.outDepth /\ Rescaled(p, r.params))
    BY <1>0, <2>1, ConvFinished
  <2> QED
    BY <1>4, <2>2 DEF q, Rescaled
<1>10. Regular(o) => prepareConv(o).kind # "panic"
  <2> HIDE DEF r
  <2> QED
    BY <1>3, <1>7, <1>9 DEF Error, r
<1>11. ASSUME prepareConv(o).kind = "ok"
       PROVE  \E pp, outDepth :
                /\ prepareConv(o).params = pp
                /\ GeometryOK(o, outDepth) /\ SameGeometry(pp, convGeometry(o, outDepth))
                /\ ConvSizes(o, pp) /\ Grouped(o, pp)
  <2> HIDE DEF r
  <2>1. GeometryOK(o, n) /\ d % e = 0 /\ groups # 0 /\ n % groups = 0 /\ FilterScalesOK(filter, 0, n) /\ prepareConv(o) = r
    BY <1>3, <1>11 DEF Error, Panic
  <2>2. PICK sc : r.params = q(sc) /\ NumElements(o.ins[3]) = n
    BY <1>9, <1>11, <2>1 DEF r
  <2>3. ConvSizes(o, convGeometry(o, n))
    BY <1>0, <2>1, <2>2, GeometrySizes
  <2>4. SameGeometry(q(sc), convGeometry(o, n))
    BY <1>4 DEF g
  <2>5. ConvSizes(o, q(sc))
    BY <2>3, <2>4, SameGeometrySameSizes
  <2>6. Grouped(o, q(sc))
    <3> DEFINE u == q(sc)
    <3>1. u.outDepth = n /\ u.filterInDepth = e /\ u.filtersPerGroup = n \div groups
          /\ u.inDepth = d /\ u.filter[1] = filter.shape[2] /\ u.filter[2] = filter.shape[3]
      BY <1>5
    <3> HIDE DEF u
    <3>2. NumElements(o.ins[2]) = ((u.outDepth * u.filter[1]) * u.filter[2]) * u.filterInDepth
      BY <1>6, <3>1 DEF filter
    <3>3. groups \in Nat /\ d = groups * e /\ n \div groups \in Nat /\ n \div groups > 0 /\ n = groups * (n \div groups)
      BY <1>7, <1>8, <2>1
    <3>4. Grouped(o, u)
      BY <1>1, <3>1, <3>2, <3>3 DEF Grouped
    <3> QED
      BY <3>4 DEF u
  <2> QED
    BY <2>1, <2>2, <2>4, <2>5, <2>6
<1> QED
  BY <1>10, <1>11

LEMMA ConvInRange ==
  ASSUME NEW o, NEW p, ConvSizes(o, p), Grouped(o, p)
  PROVE  conv2D(o, p).kind # "panic"
<1> DEFINE taps(x) == UNION {ConvProducts(p, x, f) : f \in FilterInside(p, x)}
           writes == {Write(OutputAt(p, x), Value(taps(x), x[4], p.scales[x[4]])) : x \in ConvOutputs(p)}
<1>1. ASSUME NEW x \in ConvOutputs(p), NEW t \in taps(x)
      PROVE  t[1] \in 0 .. NumElements(o.ins[1]) - 1 /\ t[2] \in 0 .. NumElements(o.ins[2]) - 1
  <2>1. PICK f \in FilterInside(p, x) : t \in ConvProducts(p, x, f)
    OBVIOUS
  <2> DEFINE e == p.filterInDepth
             k == p.filtersPerGroup
             pixel == PixelAt(p, x, f)
             filterBase == ((x[4] * p.filter[1] + f[1]) * p.filter[2] + f[2]) * e
  <2>2. PICK c \in 0 .. e - 1 : t = <<(pixel + (x[4] \div k) * e) + c, filterBase + c>>
    BY <2>1 DEF ConvProducts
  <2>3. PICK groups \in Nat : p.outDepth = groups * k /\ p.inDepth = groups * e
    BY DEF Grouped
  <2>4. /\ x[4] \in 0 .. p.outDepth - 1 /\ f[1] \in 0 .. p.filter[1] - 1 /\ f[2] \in 0 .. p.filter[2] - 1
        /\ pixel \in Int /\ \A n \in 0 .. p.inDepth - 1 : pixel + n \in 0 .. NumElements(o.ins[1]) - 1
    BY ConvPlaces
  <2>5. e \in Nat /\ e > 0 /\ k \in Nat /\ k > 0 /\ p.outDepth \in Nat /\ p.filter[1] \in Nat /\ p.filter[2] \in Nat
    BY DEF Grouped, ConvSizes, Spatial
  <2> HIDE DEF e, k, pixel
  <2>6. x[4] \div k \in 0 .. groups - 1
    BY <2>3, <2>4, <2>5, QuotientBelow
  <2> DEFINE h == x[4] \div k
  <2> HIDE DEF h
  <2>7. h \in 0 .. groups - 1
    BY <2>6 DEF h
  <2>8. h * e + c \in 0 .. groups * e - 1
    BY <2>5, <2>7, RowMajor
  <2>9. pixel + (h * e + c) \in 0 .. NumElements(o.ins[1]) - 1
    BY <2>3, <2>4, <2>8
  <2>10. (pixel + h * e) + c = pixel + (h * e + c)
    BY <2>4, <2>5, <2>7
  <2>11. t[1] \in 0 .. NumElements(o.ins[1]) - 1
    BY <2>2, <2>9, <2>10 DEF h
  <2>12. x[4] * p.filter[1] + f[1] \in 0 .. p.outDepth * p.filter[1] - 1 /\ p.outDepth * p.filter[1] \in Nat
    BY <2>4, <2>5, RowMajor
  <2>13. (x[4] * p.filter[1] + f[1]) * p.filter[2] + f[2] \in 0 .. (p.outDepth * p.filter[1]) * p.filter[2] - 1
    BY <2>4, <2>5, <2>12, RowMajor
  <2>14. (p.outDepth * p.filter[1]) * p.filter[2] \in Nat
    BY <2>5, <2>12
  <2>15. filterBase + c \in 0 .. ((p.outDepth * p.filter[1]) * p.filter[2]) * e - 1
    BY <2>5, <2>13, <2>14, RowMajor
  <2>16. t[2] \in 0 .. NumElements(o.ins[2]) - 1
    BY <2>2, <2>15 DEF Grouped, e
  <2> QED
    BY <2>11, <2>16
<1>2. ASSUME NEW w \in writes
      PROVE  /\ w.at \in 0 .. NumElements(o.outs[1]) - 1
             /\ w.value.bias \in 0 .. NumElements(o.ins[3]) - 1
             /\ \A t \in w.value.taps : t[1] \in 0 .. NumElements(o.ins[1]) - 1 /\ t[2] \in 0 .. NumElements(o.ins[2]) - 1
  <2> HIDE DEF taps
  <2>1. PICK x \in ConvOutputs(p) : w = Write(OutputAt(p, x), Value(taps(x), x[4], p.scales[x[4]]))
    OBVIOUS
  <2>2. w.at = OutputAt(p, x) /\ w.value.bias = x[4] /\ w.value.taps = taps(x)
    BY <2>1 DEF Write, Value
  <2> QED
    BY <1>1, <2>2, ConvPlaces
<1>3. conv2D(o, p) = Written(writes, o.ins[1], o.ins[2], o.ins[3], o.outs[1])
  BY DEF conv2D
<1> HIDE DEF writes
<1> QED
  BY <1>2, <1>3, WrittenInRange
\* One filter for each channel of the output, multiplier of them for each of the
\* input.
Spreads(o, p) ==
  /\ p.multiplier \in Nat /\ p.multiplier > 0 /\ p.outDepth = p.inDepth * p.multiplier
  /\ \E n \in Nat : n > 0 /\ NumElements(o.ins[2]) = ((n * p.filter[1]) * p.filter[2]) * p.outDepth

LEMMA DepthwisePrepared ==
  ASSUME NEW o \in OperatorsOf("DEPTHWISE_CONV_2D"), Loaded(o)
  PROVE  /\ prepareDepthwiseConv(o).kind # "panic"
         /\ prepareDepthwiseConv(o).kind = "ok" =>
              \E p, outDepth :
                /\ prepareDepthwiseConv(o).params = p
                /\ GeometryOK(o, outDepth) /\ SameGeometry(p, convGeometry(o, outDepth))
                /\ ConvSizes(o, p) /\ Spreads(o, p)
<1> DEFINE filter == o.ins[2]
           n == filter.shape[4]
           d == o.ins[1].shape[4]
           m == o.opt.multiplier
           g == convGeometry(o, n)
           p == [g EXCEPT !.multiplier = m]
           r == finishConvParams(o, p)
           q(sc) == [p EXCEPT !.scales = sc]
           passes == GeometryOK(o, n) /\ m >= 1 /\ n = d * m /\ FilterScalesOK(filter, 3, n)
<1>0. "DEPTHWISE_CONV_2D" \in Convolutions
  BY DEF Convolutions
<1>1. \A a \in 1 .. 4 : filter.shape[a] \in Nat /\ filter.shape[a] > 0
  BY <1>0, ConvOperands
<1>2. n \in Nat /\ d \in Nat /\ m = 1
  <2>1. n \in Nat /\ d \in Nat
    BY <1>0, ConvOperands
  <2>2. o.code = "DEPTHWISE_CONV_2D" /\ ConvRule(o)
    BY <1>0, ConvOperands
  <2> QED
    BY <2>1, <2>2 DEF ConvRule
<1>3. prepareDepthwiseConv(o) = IF passes THEN r ELSE Error
  BY DEF prepareDepthwiseConv
<1>4. g.outDepth = n /\ p.outDepth = n /\ SameGeometry(p, g) /\ \A sc : SameGeometry(q(sc), g)
  BY DEF convGeometry, SameGeometry
<1>5. \A sc : q(sc).outDepth = n /\ q(sc).multiplier = m /\ q(sc).inDepth = d
              /\ q(sc).filter[1] = filter.shape[2] /\ q(sc).filter[2] = filter.shape[3]
  BY DEF convGeometry, Spatial
<1>6. NumElements(filter) = ((filter.shape[1] * filter.shape[2]) * filter.shape[3]) * n
  BY <1>0, ConvOperands, FourAxes
<1> HIDE DEF p, q, g, n, d, m
<1>7. ASSUME FilterScalesOK(filter, 3, n)
      PROVE  /\ r.kind # "panic"
             /\ r.kind = "ok" => NumElements(o.ins[3]) = n /\ \E sc : r.params = q(sc)
  <2>1. p.outDepth \in Int /\ FilterScalesOK(o.ins[2], 3, p.outDepth)
    BY <1>2, <1>4, <1>7
  <2>2. r.kind # "panic" /\ (r.kind = "ok" => NumElements(o.ins[3]) = p.outDepth /\ Rescaled(p, r.params))
    BY <1>0, <2>1, ConvFinished
  <2> QED
    BY <1>4, <2>2 DEF q, Rescaled
<1> HIDE DEF r
<1>8. prepareDepthwiseConv(o).kind # "panic"
  BY <1>3, <1>7 DEF Error
<1>9. ASSUME prepareDepthwiseConv(o).kind = "ok"
      PROVE  \E pp, outDepth :
                /\ prepareDepthwiseConv(o).params = pp
                /\ GeometryOK(o, outDepth) /\ SameGeometry(pp, convGeometry(o, outDepth))
                /\ ConvSizes(o, pp) /\ Spreads(o, pp)
  <2>1. passes /\ prepareDepthwiseConv(o) = r
    BY <1>3, <1>9 DEF Error
  <2>2. PICK sc : r.params = q(sc) /\ NumElements(o.ins[3]) = n
    BY <1>7, <1>9, <2>1
  <2>3. ConvSizes(o, convGeometry(o, n))
    BY <1>0, <2>1, <2>2, GeometrySizes
  <2>4. SameGeometry(q(sc), convGeometry(o, n))
    BY <1>4 DEF g
  <2>5. ConvSizes(o, q(sc))
    BY <2>3, <2>4, SameGeometrySameSizes
  <2>6. Spreads(o, q(sc))
    <3> DEFINE u == q(sc)
    <3>1. u.outDepth = n /\ u.multiplier = m /\ u.inDepth = d
          /\ u.filter[1] = filter.shape[2] /\ u.filter[2] = filter.shape[3]
      BY <1>5
    <3> HIDE DEF u
    <3>2. NumElements(o.ins[2]) = ((filter.shape[1] * u.filter[1]) * u.filter[2]) * u.outDepth
      BY <1>6, <3>1
    <3>3. filter.shape[1] \in Nat /\ filter.shape[1] > 0
      BY <1>1
    <3>4. u.multiplier \in Nat /\ u.multiplier > 0 /\ u.outDepth = u.inDepth * u.multiplier
      BY <1>2, <2>1, <3>1
    <3>5. Spreads(o, u)
      BY <3>2, <3>3, <3>4 DEF Spreads
    <3> QED
      BY <3>5 DEF u
  <2> QED
    BY <2>1, <2>2, <2>4, <2>5, <2>6
<1> QED
  BY <1>8, <1>9

LEMMA DepthwiseInRange ==
  ASSUME NEW o, NEW p, ConvSizes(o, p), Spreads(o, p)
  PROVE  depthwiseConv2D(o, p).kind # "panic"
<1> DEFINE taps(x) == {DepthwiseProduct(p, x, f) : f \in FilterInside(p, x)}
           writes == {Write(OutputAt(p, x), Value(taps(x), x[4], p.scales[x[4]])) : x \in ConvOutputs(p)}
<1>1. ASSUME NEW x \in ConvOutputs(p), NEW t \in taps(x)
      PROVE  t[1] \in 0 .. NumElements(o.ins[1]) - 1 /\ t[2] \in 0 .. NumElements(o.ins[2]) - 1
  <2>1. PICK f \in FilterInside(p, x) : t = DepthwiseProduct(p, x, f)
    OBVIOUS
  <2> DEFINE m == p.multiplier
             pixel == PixelAt(p, x, f)
             inFilter == (f[1] * p.filter[2] + f[2]) * p.outDepth + x[4]
             size == p.filter[1] * p.filter[2]
  <2>2. t = <<pixel + x[4] \div m, inFilter>>
    BY <2>1 DEF DepthwiseProduct
  <2>3. /\ x[4] \in 0 .. p.outDepth - 1 /\ f[1] \in 0 .. p.filter[1] - 1 /\ f[2] \in 0 .. p.filter[2] - 1
        /\ pixel \in Int /\ \A n \in 0 .. p.inDepth - 1 : pixel + n \in 0 .. NumElements(o.ins[1]) - 1
    BY ConvPlaces
  <2>4. /\ m \in Nat /\ m > 0 /\ p.outDepth = p.inDepth * m /\ p.inDepth \in Nat /\ p.outDepth \in Nat
        /\ p.filter[1] \in Nat /\ p.filter[2] \in Nat
    BY DEF Spreads, ConvSizes, Spatial
  <2> HIDE DEF m, pixel
  <2>5. x[4] \div m \in 0 .. p.inDepth - 1
    BY <2>3, <2>4, QuotientBelow
  <2>6. t[1] \in 0 .. NumElements(o.ins[1]) - 1
    BY <2>2, <2>3, <2>5
  <2>7. f[1] * p.filter[2] + f[2] \in 0 .. size - 1 /\ size \in Nat
    BY <2>3, <2>4, RowMajor
  <2> HIDE DEF size
  <2>8. inFilter \in 0 .. size * p.outDepth - 1
    BY <2>3, <2>4, <2>7, RowMajor
  <2>9. PICK n \in Nat : n > 0 /\ NumElements(o.ins[2]) = ((n * p.filter[1]) * p.filter[2]) * p.outDepth
    BY DEF Spreads
  <2>10. ((n * p.filter[1]) * p.filter[2]) * p.outDepth = n * (size * p.outDepth)
    <3>1. (n * p.filter[1]) * p.filter[2] = n * size
      BY <2>4 DEF size
    <3>2. (n * size) * p.outDepth = n * (size * p.outDepth)
      BY <2>4, <2>7
    <3> QED
      BY <3>1, <3>2
  <2>11. size * p.outDepth \in Nat
    BY <2>4, <2>7
  <2>12. 1 * (size * p.outDepth) <= n * (size * p.outDepth)
    BY <2>9, <2>11, TimesMonotone
  <2> HIDE DEF inFilter
  <2>13. inFilter \in 0 .. NumElements(o.ins[2]) - 1
    BY <2>8, <2>9, <2>10, <2>11, <2>12
  <2> QED
    BY <2>2, <2>6, <2>13
<1>2. ASSUME NEW w \in writes
      PROVE  /\ w.at \in 0 .. NumElements(o.outs[1]) - 1
             /\ w.value.bias \in 0 .. NumElements(o.ins[3]) - 1
             /\ \A t \in w.value.taps : t[1] \in 0 .. NumElements(o.ins[1]) - 1 /\ t[2] \in 0 .. NumElements(o.ins[2]) - 1
  <2> HIDE DEF taps
  <2>1. PICK x \in ConvOutputs(p) : w = Write(OutputAt(p, x), Value(taps(x), x[4], p.scales[x[4]]))
    OBVIOUS
  <2>2. w.at = OutputAt(p, x) /\ w.value.bias = x[4] /\ w.value.taps = taps(x)
    BY <2>1 DEF Write, Value
  <2> QED
    BY <1>1, <2>2, ConvPlaces
<1>3. depthwiseConv2D(o, p) = Written(writes, o.ins[1], o.ins[2], o.ins[3], o.outs[1])
  BY DEF depthwiseConv2D
<1> HIDE DEF writes
<1> QED
  BY <1>2, <1>3, WrittenInRange
-----------------------------------------------------------------------------
(* FULLY_CONNECTED *)

LEMMA QuotientExact ==
  ASSUME NEW a \in Int, NEW d \in Nat, d > 0
  PROVE  (a * d) \div d = a
<1> DEFINE q == (a * d) \div d
           r == (a * d) % d
<1>1. q \in Int /\ r \in 0 .. d - 1 /\ a * d = d * q + r
  <2>1. a * d \in Int
    OBVIOUS
  <2> QED
    BY <2>1, Division
<1> HIDE DEF q, r
<1>2. CASE q < a
  <2>1. (q + 1) * d <= a * d /\ (q + 1) * d = d * q + d
    BY <1>1, <1>2, TimesMonotone
  <2> QED
    BY <1>1, <2>1
<1>3. CASE q > a
  <2>1. (a + 1) * d <= q * d /\ (a + 1) * d = a * d + d /\ q * d = d * q
    BY <1>1, <1>3, TimesMonotone
  <2>2. a * d \in Int /\ d * q \in Int
    BY <1>1
  <2> QED
    BY <1>1, <2>1, <2>2
<1> QED
  BY <1>1, <1>2, <1>3 DEF q

\* The products' rows are the input's and the filter's, the output has one column
\* for each of the filter's rows that are used.
ProductSizes(o, p) ==
  /\ p.batches \in Nat /\ p.outputDepth \in Nat /\ p.accumDepth \in Nat
  /\ NumElements(o.outs[1]) = p.batches * p.outputDepth
  /\ NumElements(o.ins[1])  = p.batches * p.accumDepth
  /\ NumElements(o.ins[3])  = p.outputDepth
  /\ \E rows \in Nat : p.outputDepth <= rows /\ NumElements(o.ins[2]) = rows * p.accumDepth

LEMMA FullyConnectedPrepared ==
  ASSUME NEW o \in OperatorsOf("FULLY_CONNECTED"), Loaded(o), Regular(o)
  PROVE  /\ prepareFullyConnected(o).kind # "panic"
         /\ prepareFullyConnected(o).kind = "ok" => ProductSizes(o, prepareFullyConnected(o).params)
<1> DEFINE in == o.ins[1]
           filter == o.ins[2]
           bias == o.ins[3]
           out == o.outs[1]
           nd == rank(out)
           outputDepth == out.shape[nd]
           accumDepth == filter.shape[rank(filter)]
           batches == NumElements(out) \div outputDepth
           check == checkBias(bias, in, filter, out, outputDepth)
           p == [batches |-> batches, outputDepth |-> outputDepth, accumDepth |-> accumDepth,
                 scales |-> <<in.quant.scales[1], filter.quant.scales[1], out.quant.scales[1]>>]
<1>1. o.code = "FULLY_CONNECTED"
  BY DEF OperatorsOf
<1>2. FullyConnectedRule(o)
  BY <1>1 DEF Loaded, validateOperator
<1>3. Len(o.ins) = 3 /\ Len(o.outs) = 1 /\ rank(filter) = 2
  BY <1>2 DEF FullyConnectedRule, MacTensorsOK
<1>4. \A k \in 1 .. 3 : o.ins[k] \in TensorInfo /\ TensorOK(o.ins[k]) /\ QuantizationOK(o.ins[k])
  BY <1>3, Operands
<1>5. /\ in \in TensorInfo /\ TensorOK(in) /\ filter \in TensorInfo /\ TensorOK(filter)
      /\ bias \in TensorInfo /\ TensorOK(bias) /\ QuantizationOK(bias)
  BY <1>4
<1>6. out \in TensorInfo /\ TensorOK(out)
  BY <1>3, Operands
<1>7. rank(bias) = 1
  BY <1>1 DEF Regular
<1>8. NumElements(bias) = bias.shape[1]
  <2> DEFINE s == bias.shape
  <2> HIDE DEF bias
  <2>1. /\ s \in Seq(Int) /\ Len(s) = 1 /\ NumElements(bias) = product(s, 0, 1)
        /\ \A a \in 1 .. 1 : s[a] \in Nat
    BY <1>5, <1>7, TensorFacts
  <2> HIDE DEF s
  <2>2. product(s, 0, 0) = 1
    BY <2>1, ProductSteps
  <2>3. \A a \in 1 .. 1 : product(s, 0, a) = product(s, 0, a - 1) * s[a]
    <3>1. \A a \in 1 .. 1 : a \in 1 .. Len(s) /\ a > 0 /\ 0 \in Nat
      BY <2>1
    <3> QED
      BY <2>1, <3>1, ProductSteps
  <2>4. product(s, 0, 1) = product(s, 0, 0) * s[1]
    BY <2>3
  <2> QED
    BY <2>1, <2>2, <2>4 DEF s
<1>9. PerChannel(bias) => Len(bias.quant.scales) = NumElements(bias)
  <2>1. bias.quant.dim \in Int
    BY <1>5 DEF TensorInfo
  <2>2. PerChannel(bias) => bias.quant.dim \in 0 .. 0 /\ Len(bias.quant.scales) = bias.shape[bias.quant.dim + 1]
    BY <1>5, <1>7 DEF QuantizationOK, InRank
  <2>3. PerChannel(bias) => bias.quant.dim + 1 = 1
    BY <2>1, <2>2
  <2> QED
    BY <1>8, <2>2, <2>3
<1>10. nd \in Nat /\ \A a \in 1 .. nd : out.shape[a] \in Nat
  BY <1>6, TensorFacts
<1>11. accumDepth \in Nat /\ filter.shape[1] \in Nat /\ NumElements(filter) = filter.shape[1] * accumDepth
  BY <1>3, <1>5, TwoAxes
<1>12. ASSUME nd >= 1, outputDepth # 0
       PROVE  /\ outputDepth \in Nat /\ batches \in Nat /\ NumElements(out) = batches * outputDepth
              /\ check.kind # "panic" /\ (check.kind = "ok" => NumElements(bias) = outputDepth)
  <2>1. nd \in 1 .. nd
    BY <1>10, <1>12
  <2>2. outputDepth \in Nat
    BY <1>10, <2>1
  <2>3. NumElements(out) = product(out.shape, 0, nd - 1) * outputDepth /\ product(out.shape, 0, nd - 1) \in Nat
    <3> DEFINE s == out.shape
    <3>1. s \in Seq(Int) /\ nd = Len(s) /\ NumElements(out) = product(s, 0, nd) /\ \A a \in 1 .. Len(s) : s[a] >= 0
      BY <1>6, <1>10, TensorFacts
    <3> HIDE DEF s, nd
    <3>2. nd - 1 \in 0 .. Len(s) /\ nd \in 1 .. Len(s) /\ nd > 0 /\ 0 \in Nat
      BY <1>10, <1>12, <3>1
    <3>3. product(s, 0, nd) = product(s, 0, nd - 1) * s[nd]
      BY <3>1, <3>2, ProductSteps
    <3>4. product(s, 0, nd - 1) \in Nat
      BY <3>1, <3>2, ProductNat
    <3> QED
      BY <3>1, <3>3, <3>4 DEF s
  <2>4. NumElements(bias) \in Nat
    BY <1>5, TensorFacts
  <2> HIDE DEF outputDepth, nd, out, bias, in, filter
  <2>5. batches = product(out.shape, 0, nd - 1)
    BY <1>12, <2>2, <2>3, QuotientExact
  <2>6. check.kind # "panic" /\ (check.kind = "ok" => NumElements(bias) = outputDepth)
    BY <1>5, <1>9, <2>2, BiasChecked
  <2> QED
    BY <2>2, <2>3, <2>5, <2>6
<1> HIDE DEF check, accumDepth, outputDepth, batches
<1>13. prepareFullyConnected(o) =
         IF \/ rank(filter) < 2 \/ nd < 1 \/ PerChannel(filter)
            \/ outputDepth = 0 \/ outputDepth > filter.shape[rank(filter) - 1]
            \/ NumElements(in) # batches * accumDepth
         THEN Error
         ELSE IF check.kind # "ok" THEN check ELSE Ready(p)
  BY DEF prepareFullyConnected, check, accumDepth, outputDepth, batches
<1> HIDE DEF nd, in, filter, out, bias
<1>14. prepareFullyConnected(o).kind # "panic"
  <2> HIDE DEF p
  <2>1. CASE nd < 1 \/ outputDepth = 0
    BY <1>13, <2>1 DEF Error
  <2>2. CASE ~(nd < 1 \/ outputDepth = 0)
    <3>1. check.kind # "panic"
      BY <1>10, <1>12, <2>2
    <3> QED
      BY <1>13, <3>1 DEF Error, Ready
  <2> QED
    BY <2>1, <2>2
<1>15. ASSUME prepareFullyConnected(o).kind = "ok"
       PROVE  ProductSizes(o, prepareFullyConnected(o).params)
  <2>1. /\ prepareFullyConnected(o) = Ready(p) /\ check.kind = "ok"
        /\ ~(nd < 1) /\ outputDepth # 0 /\ ~(outputDepth > filter.shape[rank(filter) - 1])
        /\ NumElements(in) = batches * accumDepth
    <3> HIDE DEF p
    <3> QED
      BY <1>13, <1>15 DEF Error
  <2>2. /\ outputDepth \in Nat /\ batches \in Nat /\ NumElements(out) = batches * outputDepth
        /\ NumElements(bias) = outputDepth
    BY <1>10, <1>12, <2>1
  <2>3. outputDepth <= filter.shape[1]
    <3>1. rank(filter) - 1 = 1
      BY <1>3
    <3> QED
      BY <1>11, <2>1, <2>2, <3>1
  <2>4. prepareFullyConnected(o).params = p
    BY <2>1 DEF Ready
  <2>5. p.batches = batches /\ p.outputDepth = outputDepth /\ p.accumDepth = accumDepth
    OBVIOUS
  <2> HIDE DEF p
  <2>6. /\ NumElements(o.outs[1]) = p.batches * p.outputDepth
        /\ NumElements(o.ins[1])  = p.batches * p.accumDepth
        /\ NumElements(o.ins[3])  = p.outputDepth
    BY <2>1, <2>2, <2>5 DEF in, out, bias
  <2>7. \E rows \in Nat : p.outputDepth <= rows /\ NumElements(o.ins[2]) = rows * p.accumDepth
    BY <1>11, <2>3, <2>5 DEF filter
  <2>8. ProductSizes(o, p)
    BY <1>11, <2>2, <2>5, <2>6, <2>7 DEF ProductSizes
  <2> QED
    BY <2>4, <2>8
<1> QED
  BY <1>14, <1>15

LEMMA FullyConnectedInRange ==
  ASSUME NEW o, NEW p, ProductSizes(o, p)
  PROVE  fullyConnected(o, p).kind # "panic"
<1> DEFINE d == p.accumDepth
           taps(x) == {<<x[1] * p.accumDepth + c, x[2] * p.accumDepth + c>> : c \in 0 .. p.accumDepth - 1}
           places == (0 .. p.batches - 1) \X (0 .. p.outputDepth - 1)
           writes == {Write(x[2] + p.outputDepth * x[1], Value(taps(x), x[2], p.scales)) : x \in places}
<1>1. /\ p.batches \in Nat /\ p.outputDepth \in Nat /\ d \in Nat
      /\ NumElements(o.outs[1]) = p.batches * p.outputDepth
      /\ NumElements(o.ins[1])  = p.batches * d
      /\ NumElements(o.ins[3])  = p.outputDepth
  BY DEF ProductSizes
<1>2. PICK rows \in Nat : p.outputDepth <= rows /\ NumElements(o.ins[2]) = rows * d
  BY DEF ProductSizes
<1>3. ASSUME NEW x \in places
      PROVE  /\ x[2] + p.outputDepth * x[1] \in 0 .. NumElements(o.outs[1]) - 1
             /\ x[2] \in 0 .. NumElements(o.ins[3]) - 1
             /\ \A c \in 0 .. d - 1 : /\ x[1] * d + c \in 0 .. NumElements(o.ins[1]) - 1
                                      /\ x[2] * d + c \in 0 .. NumElements(o.ins[2]) - 1
  <2>1. x[1] \in 0 .. p.batches - 1 /\ x[2] \in 0 .. p.outputDepth - 1
    OBVIOUS
  <2> HIDE DEF d
  <2>2. x[1] * p.outputDepth + x[2] \in 0 .. p.batches * p.outputDepth - 1
    BY <1>1, <2>1, RowMajor
  <2>3. x[2] + p.outputDepth * x[1] = x[1] * p.outputDepth + x[2]
    BY <1>1, <2>1
  <2>4. x[2] \in 0 .. rows - 1
    BY <1>1, <1>2, <2>1
  <2>5. \A c \in 0 .. d - 1 : x[1] * d + c \in 0 .. p.batches * d - 1
    BY <1>1, <2>1, RowMajor
  <2>6. \A c \in 0 .. d - 1 : x[2] * d + c \in 0 .. rows * d - 1
    BY <1>1, <2>4, RowMajor
  <2> QED
    BY <1>1, <1>2, <2>1, <2>2, <2>3, <2>5, <2>6
<1>4. ASSUME NEW w \in writes
      PROVE  /\ w.at \in 0 .. NumElements(o.outs[1]) - 1
             /\ w.value.bias \in 0 .. NumElements(o.ins[3]) - 1
             /\ \A t \in w.value.taps : t[1] \in 0 .. NumElements(o.ins[1]) - 1 /\ t[2] \in 0 .. NumElements(o.ins[2]) - 1
  <2>1. PICK x \in places : w = Write(x[2] + p.outputDepth * x[1], Value(taps(x), x[2], p.scales))
    <3> HIDE DEF taps, places
    <3> QED
      OBVIOUS
  <2>2. w.at = x[2] + p.outputDepth * x[1] /\ w.value.bias = x[2] /\ w.value.taps = taps(x)
    BY <2>1 DEF Write, Value
  <2>3. \A t \in taps(x) : t[1] \in 0 .. NumElements(o.ins[1]) - 1 /\ t[2] \in 0 .. NumElements(o.ins[2]) - 1
    BY <1>3
  <2> HIDE DEF taps, places
  <2> QED
    BY <1>3, <2>2, <2>3
<1>5. fullyConnected(o, p) = Written(writes, o.ins[1], o.ins[2], o.ins[3], o.outs[1])
  BY DEF fullyConnected
<1> HIDE DEF writes
<1> QED
  BY <1>4, <1>5, WrittenInRange
-----------------------------------------------------------------------------
(* The windows of a convolution, along one axis. *)

LEMMA SameWindows ==
  ASSUME NEW image \in Nat, NEW filter \in Nat, NEW stride \in Nat, stride > 0
  PROVE  LET out    == (image + stride - 1) \div stride
             pad    == computePadding(stride, 1, image, filter, out)
             last   == (out - 1) * stride
             behind == last + filter - image - pad
         IN /\ last < image /\ image <= last + stride
            /\ behind > 0 => behind - pad \in {0, 1}
            /\ behind <= 0 => pad = 0
<1> DEFINE n == image + stride - 1
           out == n \div stride
           last == (out - 1) * stride
           total == last + filter - image
           pad == computePadding(stride, 1, image, filter, out)
<1>1. n \in Int /\ out \in Int /\ n % stride \in 0 .. stride - 1 /\ n = stride * out + (n % stride)
  <2>1. n \in Int
    OBVIOUS
  <2> HIDE DEF n
  <2> QED
    BY <2>1, Division
<1>2. stride * out \in Int /\ stride * out <= image + stride - 1 /\ image <= stride * out
  BY <1>1
<1> HIDE DEF out
<1>3. last = stride * out - stride /\ last \in Int
  BY <1>1
<1>4. last < image /\ image <= last + stride
  BY <1>2, <1>3
<1>5. pad = IF total < 0 THEN 0 ELSE total \div 2
  <2>1. effectiveFilter(filter, 1) = filter
    BY DEF effectiveFilter
  <2> QED
    BY <2>1 DEF computePadding
<1> HIDE DEF last, pad
<1>6. total \in Int
  BY <1>3
<1> DEFINE half == total \div 2
<1>7. half \in Int /\ total % 2 \in 0 .. 1 /\ total = 2 * half + (total % 2)
  <2> HIDE DEF total
  <2> QED
    BY <1>6, Division
<1> HIDE DEF half
<1>8. pad = IF total < 0 THEN 0 ELSE half
  BY <1>5 DEF half
<1> HIDE DEF total
<1>9. /\ pad \in Int
      /\ total - pad > 0 => total - pad - pad \in {0, 1}
      /\ total - pad <= 0 => pad = 0
  BY <1>6, <1>7, <1>8
<1>10. last + filter - image - pad = total - pad
  BY <1>3, <1>9 DEF total
<1> QED
  BY <1>4, <1>9, <1>10 DEF last, pad, out

LEMMA ValidWindows ==
  ASSUME NEW image \in Nat, NEW filter \in Nat, NEW stride \in Nat, stride > 0,
         Quo(image + stride - filter, stride) >= 0
  PROVE  LET out  == Quo(image + stride - filter, stride)
             pad  == computePadding(stride, 1, image, filter, out)
             last == (out - 1) * stride
         IN /\ out > 0 => pad = 0 /\ last + filter <= image
            /\ last + stride + filter > image
<1> DEFINE n == image + stride - filter
           out == Quo(n, stride)
           last == (out - 1) * stride
           total == last + filter - image
           pad == computePadding(stride, 1, image, filter, out)
<1>1. pad = IF total < 0 THEN 0 ELSE total \div 2
  <2>1. effectiveFilter(filter, 1) = filter
    BY DEF effectiveFilter
  <2> QED
    BY <2>1 DEF computePadding
<1> HIDE DEF pad
<1>2. CASE n >= 0
  <2> DEFINE q == n \div stride
  <2>1. n \in Int /\ out = q
    BY <1>2 DEF Quo
  <2>2. q \in Int /\ n % stride \in 0 .. stride - 1 /\ n = stride * q + (n % stride)
    <3> HIDE DEF n
    <3> QED
      BY <2>1, Division
  <2> HIDE DEF q, out
  <2>3. last = stride * q - stride /\ last \in Int /\ stride * q \in Int
    BY <2>1, <2>2
  <2>4. stride * q <= image + stride - filter /\ image + stride - filter < stride * q + stride
    BY <2>2
  <2> HIDE DEF last
  <2>5. last + filter <= image /\ last + stride + filter > image
    BY <2>3, <2>4
  <2>6. total \in Int /\ total <= 0
    BY <2>3, <2>5
  <2>7. pad = 0
    <3>1. total = 0 => total \div 2 = 0
      OBVIOUS
    <3> HIDE DEF total
    <3> QED
      BY <1>1, <2>6, <3>1
  <2> QED
    BY <2>5, <2>7 DEF pad, last, out
<1>3. CASE n < 0
  <2> DEFINE m == -n
             q == m \div stride
  <2>1. m \in Nat /\ m > 0 /\ out = -q /\ out >= 0
    BY <1>3 DEF Quo
  <2>2. q \in Int /\ m % stride \in 0 .. stride - 1 /\ m = stride * q + (m % stride)
    <3> HIDE DEF m
    <3> QED
      BY <2>1, Division
  <2>3. q = 0
    <3>1. CASE q < 0
      <4> HIDE DEF q, m, out
      <4>1. q * stride <= (-1) * stride
        BY <2>2, <3>1, TimesMonotone
      <4> QED
        BY <2>1, <2>2, <4>1
    <3> HIDE DEF q
    <3> QED
      BY <2>1, <2>2, <3>1
  <2>4. out = 0
    BY <2>1, <2>3
  <2> HIDE DEF out
  <2>5. last = -stride
    BY <2>4
  <2>6. last + stride + filter > image
    BY <1>3, <2>5
  <2> QED
    BY <2>4, <2>6 DEF last, out
<1> QED
  BY <1>2, <1>3

\* The body of WindowsFit, for an operator and its parameters.
Fits(o, p) ==
  \A a \in Spatial :
    LET last   == (p.out[a] - 1) * p.stride[a]
        behind == last + p.filter[a] - p.in[a] - p.pad[a]
    IN IF o.opt.padding = "VALID"
       THEN /\ p.out[a] > 0 => p.pad[a] = 0 /\ last + p.filter[a] <= p.in[a]
            /\ last + p.stride[a] + p.filter[a] > p.in[a]
       ELSE /\ last < p.in[a] /\ p.in[a] <= last + p.stride[a]
            /\ p.out[a] > 0 /\ behind > 0 => behind - p.pad[a] \in {0, 1}
            /\ p.out[a] > 0 /\ behind <= 0 => p.pad[a] = 0

LEMMA GeometryFits ==
  ASSUME NEW c \in Convolutions, NEW o \in OperatorsOf(c), Loaded(o), NEW outDepth, GeometryOK(o, outDepth),
         NEW p, SameGeometry(p, convGeometry(o, outDepth))
  PROVE  Fits(o, p)
<1> SUFFICES ASSUME NEW a \in Spatial
             PROVE  LET last   == (p.out[a] - 1) * p.stride[a]
                        behind == last + p.filter[a] - p.in[a] - p.pad[a]
                    IN IF o.opt.padding = "VALID"
                       THEN /\ p.out[a] > 0 => p.pad[a] = 0 /\ last + p.filter[a] <= p.in[a]
                            /\ last + p.stride[a] + p.filter[a] > p.in[a]
                       ELSE /\ last < p.in[a] /\ p.in[a] <= last + p.stride[a]
                            /\ p.out[a] > 0 /\ behind > 0 => behind - p.pad[a] \in {0, 1}
                            /\ p.out[a] > 0 /\ behind <= 0 => p.pad[a] = 0
  BY DEF Fits
<1> DEFINE image  == o.ins[1].shape[a + 1]
           filter == o.ins[2].shape[a + 1]
           stride == o.opt.stride[a]
           out    == OutSize(o, a)
           pad    == computePadding(stride, 1, image, filter, out)
<1>1. image \in Nat /\ filter \in Nat /\ stride \in Nat /\ stride > 0 /\ o.opt.dilation[a] = 1
  <2>1. a + 1 \in 1 .. 4
    BY DEF Spatial
  <2>2. stride \in Int /\ stride >= 1 /\ o.opt.dilation[a] = 1
    BY ConvOperands
  <2>3. image \in Nat /\ filter \in Nat
    BY <2>1, ConvOperands
  <2> QED
    BY <2>2, <2>3
<1>2. p.in[a] = image /\ p.filter[a] = filter /\ p.stride[a] = stride /\ p.out[a] = out /\ p.pad[a] = pad
  BY <1>1 DEF SameGeometry, convGeometry
<1>3. out >= 0
  BY DEF GeometryOK
<1>4. out = IF o.opt.padding = "SAME" THEN (image + stride - 1) \div stride ELSE Quo(image + stride - filter, stride)
  <2>1. effectiveFilter(filter, 1) = filter
    BY <1>1 DEF effectiveFilter
  <2> QED
    BY <1>1, <2>1 DEF OutSize, computeOutSize
<1>5. o.opt.padding \in {"SAME", "VALID"}
  <2>1. o.opt \in OptionsOf(c)
    BY DEF OperatorsOf
  <2> QED
    BY <2>1 DEF OptionsOf, Convolutions
<1> HIDE DEF image, filter, stride
<1>6. CASE o.opt.padding = "SAME"
  <2>1. out = (image + stride - 1) \div stride
    BY <1>4, <1>6
  <2> HIDE DEF out
  <2> QED
    BY <1>1, <1>2, <1>6, <2>1, SameWindows
<1>7. CASE o.opt.padding = "VALID"
  <2>1. out = Quo(image + stride - filter, stride)
    BY <1>4, <1>7
  <2> HIDE DEF out
  <2> QED
    BY <1>1, <1>2, <1>3, <1>7, <2>1, ValidWindows
<1> QED
  BY <1>5, <1>6, <1>7
-----------------------------------------------------------------------------
(* The operator on its way from the file to its kernel. *)

\* What a prepare step that succeeds leaves for the kernel.
Prepared(o, p) ==
  /\ o.code \in Convolutions => ConvSizes(o, p)
  /\ o.code = "CONV_2D" => Grouped(o, p)
  /\ o.code = "DEPTHWISE_CONV_2D" => Spreads(o, p)
  /\ o.code = "FULLY_CONNECTED" => ProductSizes(o, p)

LEMMA PrepareInRange ==
  ASSUME NEW o, o.code \in Codes, o \in OperatorsOf(o.code), Loaded(o), Regular(o)
  PROVE  /\ Prepare(o).kind # "panic"
         /\ Prepare(o).kind = "ok" => Prepared(o, Prepare(o).params)
<1>1. CASE o.code = "CONV_2D"
  <2>1. Prepare(o) = prepareConv(o) /\ o \in OperatorsOf("CONV_2D") /\ "CONV_2D" \in Convolutions
    BY <1>1 DEF Prepare, Convolutions
  <2>2. ASSUME Prepare(o).kind = "ok"
        PROVE  Prepared(o, Prepare(o).params)
    <3>1. PICK p :
            /\ Prepare(o).params = p
            /\ ConvSizes(o, p) /\ Grouped(o, p)
      BY <2>1, <2>2, ConvPrepared
    <3> QED
      BY <1>1, <3>1 DEF Prepared, Convolutions
  <2> QED
    BY <2>1, <2>2, ConvPrepared
<1>2. CASE o.code = "DEPTHWISE_CONV_2D"
  <2>1. /\ Prepare(o) = prepareDepthwiseConv(o) /\ o \in OperatorsOf("DEPTHWISE_CONV_2D")
        /\ "DEPTHWISE_CONV_2D" \in Convolutions
    BY <1>2 DEF Prepare, Convolutions
  <2>2. ASSUME Prepare(o).kind = "ok"
        PROVE  Prepared(o, Prepare(o).params)
    <3>1. PICK p :
            /\ Prepare(o).params = p
            /\ ConvSizes(o, p) /\ Spreads(o, p)
      BY <2>1, <2>2, DepthwisePrepared
    <3> QED
      BY <1>2, <3>1 DEF Prepared, Convolutions
  <2> QED
    BY <2>1, <2>2, DepthwisePrepared
<1>3. CASE o.code = "FULLY_CONNECTED"
  <2>1. Prepare(o) = prepareFullyConnected(o) /\ o \in OperatorsOf("FULLY_CONNECTED")
    BY <1>3 DEF Prepare
  <2> QED
    BY <1>3, <2>1, FullyConnectedPrepared DEF Prepared, Convolutions
<1>4. CASE o.code = "LOGISTIC"
  <2>1. Prepare(o) = prepareLogistic(o) /\ o \in OperatorsOf("LOGISTIC")
    BY <1>4 DEF Prepare
  <2> QED
    BY <1>4, <2>1, LogisticPrepared DEF Prepared, Convolutions
<1>5. CASE o.code = "QUANTIZE"
  <2>1. Prepare(o) = prepareQuantize(o)
    BY <1>5 DEF Prepare
  <2> QED
    BY <1>5, <2>1 DEF prepareQuantize, Ready, Error, Prepared, Convolutions
<1>6. CASE o.code \in {"CONCATENATION", "SPLIT_V", "STRIDED_SLICE", "RESHAPE"}
  <2>1. Prepare(o) = Ready(<< >>)
    BY <1>6 DEF Prepare
  <2> QED
    BY <1>6, <2>1 DEF Ready, Prepared, Convolutions
<1> QED
  BY <1>1, <1>2, <1>3, <1>4, <1>5, <1>6 DEF Codes

\* A convolution that is not regular fits its image too, if its prepare step
\* succeeds.
LEMMA PreparedFits ==
  ASSUME NEW o, o.code \in Convolutions, o \in OperatorsOf(o.code), Loaded(o), Prepare(o).kind = "ok"
  PROVE  Fits(o, Prepare(o).params)
<1>1. CASE o.code = "CONV_2D"
  <2>1. Prepare(o) = prepareConv(o) /\ o \in OperatorsOf("CONV_2D") /\ "CONV_2D" \in Convolutions
    BY <1>1 DEF Prepare, Convolutions
  <2>2. PICK p, outDepth :
          /\ Prepare(o).params = p
          /\ GeometryOK(o, outDepth) /\ SameGeometry(p, convGeometry(o, outDepth))
    BY <2>1, ConvPrepared
  <2> QED
    BY <2>1, <2>2, GeometryFits
<1>2. CASE o.code = "DEPTHWISE_CONV_2D"
  <2>1. /\ Prepare(o) = prepareDepthwiseConv(o) /\ o \in OperatorsOf("DEPTHWISE_CONV_2D")
        /\ "DEPTHWISE_CONV_2D" \in Convolutions
    BY <1>2 DEF Prepare, Convolutions
  <2>2. PICK p, outDepth :
          /\ Prepare(o).params = p
          /\ GeometryOK(o, outDepth) /\ SameGeometry(p, convGeometry(o, outDepth))
    BY <2>1, DepthwisePrepared
  <2> QED
    BY <2>1, <2>2, GeometryFits
<1> QED
  BY <1>1, <1>2 DEF Convolutions

LEMMA KernelInRange ==
  ASSUME NEW o, o.code \in Codes, o \in OperatorsOf(o.code), Loaded(o), Regular(o), NEW p, Prepared(o, p)
  PROVE  Kernel(o, p).kind # "panic"
<1>1. CASE o.code = "CONCATENATION"
  <2>1. Kernel(o, p) = concatenation(o) /\ o \in OperatorsOf("CONCATENATION")
    BY <1>1 DEF Kernel
  <2> QED
    BY <2>1, ConcatenationInRange
<1>2. CASE o.code = "SPLIT_V"
  <2>1. Kernel(o, p) = splitV(o) /\ o \in OperatorsOf("SPLIT_V")
    BY <1>2 DEF Kernel
  <2> QED
    BY <2>1, SplitVInRange
<1>3. CASE o.code = "STRIDED_SLICE"
  <2>1. Kernel(o, p) = stridedSlice(o) /\ o \in OperatorsOf("STRIDED_SLICE")
    BY <1>3 DEF Kernel
  <2> QED
    BY <2>1, StridedSliceInRange
<1>4. CASE o.code = "RESHAPE"
  <2>1. Kernel(o, p) = reshape(o)
    BY <1>4 DEF Kernel
  <2> QED
    BY <2>1, ReshapeInRange
<1>5. CASE o.code = "CONV_2D"
  <2>1. Kernel(o, p) = conv2D(o, p) /\ ConvSizes(o, p) /\ Grouped(o, p)
    BY <1>5 DEF Kernel, Prepared, Convolutions
  <2> QED
    BY <2>1, ConvInRange
<1>6. CASE o.code = "DEPTHWISE_CONV_2D"
  <2>1. Kernel(o, p) = depthwiseConv2D(o, p) /\ ConvSizes(o, p) /\ Spreads(o, p)
    BY <1>6 DEF Kernel, Prepared, Convolutions
  <2> QED
    BY <2>1, DepthwiseInRange
<1>7. CASE o.code = "FULLY_CONNECTED"
  <2>1. Kernel(o, p) = fullyConnected(o, p) /\ ProductSizes(o, p)
    BY <1>7 DEF Kernel, Prepared
  <2> QED
    BY <2>1, FullyConnectedInRange
<1>8. CASE o.code \in {"LOGISTIC", "QUANTIZE"}
  <2>1. Kernel(o, p) = pointwise(o)
    BY <1>8 DEF Kernel
  <2> QED
    BY <1>8, <2>1, PointwiseInRange
<1> QED
  BY <1>1, <1>2, <1>3, <1>4, <1>5, <1>6, <1>7, <1>8 DEF Codes

\* Everything the operator has been through has been checked, the kernel runs with
\* what the prepare step computed, and the outputs are what it wrote.
OperatorsInv ==
  /\ op \in Ops
  /\ stage \notin {"file", "refused"} => Loaded(op)
  /\ stage \in {"ready", "done"} \/ params # << >> =>
       /\ Loaded(op)
       /\ Prepare(op).kind = "ok" /\ params = Prepare(op).params
  /\ stage = "done" => Kernel(op, params).kind = "ok" /\ outs = Kernel(op, params).outs
  /\ stage = "failed" => Prepare(op).kind = "error" \/ Kernel(op, Prepare(op).params).kind = "error"
  /\ NeverOutOfRange

LEMMA OpFacts ==
  ASSUME NEW o \in Ops
  PROVE  o.code \in Codes /\ o \in OperatorsOf(o.code)
BY OpsAssumption

LEMMA InitOperators == Init => OperatorsInv
BY DEF Init, OperatorsInv, NeverOutOfRange

LEMMA NextOperators == OperatorsInv /\ [Next]_opVars => OperatorsInv'
<1> SUFFICES ASSUME OperatorsInv, [Next]_opVars
             PROVE  OperatorsInv'
  OBVIOUS
<1> USE DEF OperatorsInv, NeverOutOfRange
<1>1. CASE Load
  BY <1>1 DEF Load, Loaded
<1>2. CASE NewInterpreter
  <2>1. stage = "loaded" /\ Loaded(op) /\ op' = op /\ op \in Ops
    BY <1>2 DEF NewInterpreter
  <2>2. CASE Prepare(op).kind = "ok" /\ stage' = "ready" /\ params' = Prepare(op).params
    BY <2>1, <2>2
  <2>3. CASE Prepare(op).kind = "error" /\ stage' = "failed" /\ UNCHANGED params
    BY <2>1, <2>3
  <2>4. CASE Prepare(op).kind = "panic" /\ stage' = "panicked" /\ UNCHANGED params
    <3>1. ~Regular(op)
      BY <2>1, <2>4, OpFacts, PrepareInRange
    <3> QED
      BY <2>1, <2>4, <3>1
  <2> QED
    BY <1>2, <2>2, <2>3, <2>4 DEF NewInterpreter
<1>3. CASE Invoke
  <2>1. /\ stage \in {"ready", "done"} /\ Loaded(op) /\ op' = op /\ params' = params /\ op \in Ops
        /\ Prepare(op).kind = "ok" /\ params = Prepare(op).params
    BY <1>3 DEF Invoke
  <2>2. CASE Kernel(op, params).kind = "ok" /\ stage' = "done" /\ outs' = Kernel(op, params).outs
    BY <2>1, <2>2
  <2>4. CASE Kernel(op, params).kind = "error" /\ stage' = "failed" /\ UNCHANGED outs
    BY <2>1, <2>4
  <2>3. CASE Kernel(op, params).kind = "panic" /\ stage' = "panicked"
    <3>1. ~Regular(op)
      <4>1. Regular(op) => Prepared(op, params)
        BY <2>1, OpFacts, PrepareInRange
      <4> QED
        BY <2>1, <2>3, <4>1, OpFacts, KernelInRange
    <3> QED
      BY <2>1, <2>3, <3>1
  <2> QED
    BY <1>3, <2>2, <2>3, <2>4 DEF Invoke
<1>4. CASE UNCHANGED opVars
  BY <1>4 DEF opVars
<1> QED
  BY <1>1, <1>2, <1>3, <1>4 DEF Next

\* No operator that Load accepts makes NewInterpreter or Invoke panic, as long as
\* it is regular: no index of any kernel is outside its tensor, whatever the
\* ranks, the shapes, the constant parameters and the options.
THEOREM KernelsStayInRange == Spec => []NeverOutOfRange
<1>1. OperatorsInv => NeverOutOfRange
  BY DEF OperatorsInv
<1> QED
  BY InitOperators, NextOperators, <1>1, PTL DEF Spec

\* The windows of every convolution that NewInterpreter accepts fit its image.
THEOREM EveryWindowFits == Spec => []WindowsFit
<1>1. OperatorsInv => WindowsFit
  <2> SUFFICES ASSUME OperatorsInv, params # << >>, op.code \in Convolutions
               PROVE  Fits(op, params)
    BY DEF WindowsFit, Fits, Convolutions
  <2>1. /\ op \in Ops /\ Loaded(op)
        /\ Prepare(op).kind = "ok" /\ params = Prepare(op).params
    BY DEF OperatorsInv
  <2> QED
    BY <2>1, OpFacts, PreparedFits
<1> QED
  BY InitOperators, NextOperators, <1>1, PTL DEF Spec
-----------------------------------------------------------------------------
(* The places of a slice. *)

LEMMA SignOfProduct ==
  ASSUME NEW x \in Int, NEW d \in Int, d # 0
  PROVE  /\ d > 0 => (x * d >= 0 <=> x >= 0)
         /\ d < 0 => (x * d >= 0 <=> x <= 0)
<1>1. ASSUME d > 0, x < 0
      PROVE  x * d < 0
  <2>1. x * d <= (-1) * d
    BY <1>1, TimesMonotone
  <2> QED
    BY <1>1, <2>1
<1>2. ASSUME d < 0, x > 0
      PROVE  x * d < 0
  <2>1. 1 * (-d) <= x * (-d)
    BY <1>2, TimesMonotone
  <2> QED
    BY <1>2, <2>1
<1>3. d > 0 /\ x >= 0 => x * d >= 0
  OBVIOUS
<1>4. d < 0 /\ x <= 0 => x * d >= 0
  OBVIOUS
<1> QED
  BY <1>1, <1>2, <1>3, <1>4

LEMMA RoundedUp ==
  ASSUME NEW n \in Nat, NEW d \in Nat, d > 0
  PROVE  /\ (n + d - 1) \div d \in Nat
         /\ \A i \in Nat : i < (n + d - 1) \div d <=> i * d < n
<1> DEFINE m == n + d - 1
           q == m \div d
<1>1. m \in Nat
  OBVIOUS
<1>2. q \in Int /\ m % d \in 0 .. d - 1 /\ m = d * q + (m % d)
  <2> HIDE DEF m
  <2> QED
    BY <1>1, Division
<1> HIDE DEF q
<1>3. d * q \in Int /\ q * d = d * q /\ d * q <= n + d - 1 /\ n - 1 < d * q
  BY <1>2
<1>4. q >= 0
  <2>1. CASE q < 0
    <3>1. q * d <= (-1) * d
      BY <1>2, <2>1, TimesMonotone
    <3> QED
      BY <1>3, <3>1
  <2> QED
    BY <1>2, <2>1
<1>5. ASSUME NEW i \in Nat
      PROVE  i < q <=> i * d < n
  <2>1. CASE i < q
    <3>1. (i + 1) * d <= q * d /\ (i + 1) * d = i * d + d /\ i * d \in Nat
      BY <1>2, <2>1, TimesMonotone
    <3> QED
      BY <1>3, <2>1, <3>1
  <2>2. CASE i >= q
    <3>1. q * d <= i * d /\ i * d \in Nat
      BY <1>2, <2>2, TimesMonotone
    <3> QED
      BY <1>2, <1>3, <2>2, <3>1
  <2> QED
    BY <1>2, <2>1, <2>2
<1> QED
  BY <1>2, <1>4, <1>5 DEF q

\* The extent is the number of steps until the stop.
LEMMA ExtentReaches ==
  ASSUME NEW start \in Int, NEW stop \in Int, NEW d \in Int, d # 0
  PROVE  /\ Extent(start, stop, d) \in Nat
         /\ \A i \in Nat : /\ d > 0 => (i < Extent(start, stop, d) <=> start + i * d < stop)
                           /\ d < 0 => (i < Extent(start, stop, d) <=> start + i * d > stop)
<1>1. CASE d > 0 /\ stop > start
  <2> DEFINE n == stop - start
  <2>1. n \in Nat /\ d \in Nat /\ n + d - 1 = stop - start + d - 1
    BY <1>1
  <2>2. Extent(start, stop, d) = (n + d - 1) \div d
    BY <1>1 DEF Extent
  <2> HIDE DEF n
  <2>3. /\ (n + d - 1) \div d \in Nat
        /\ \A i \in Nat : i < (n + d - 1) \div d <=> i * d < n
    BY <1>1, <2>1, RoundedUp
  <2>4. \A i \in Nat : i * d < n <=> start + i * d < stop
    BY <2>1 DEF n
  <2> DEFINE q == Extent(start, stop, d)
  <2>5. q \in Nat /\ \A i \in Nat : i < q <=> start + i * d < stop
    BY <2>2, <2>3, <2>4
  <2> HIDE DEF q
  <2>6. \A i \in Nat : /\ d > 0 => (i < q <=> start + i * d < stop)
                       /\ d < 0 => (i < q <=> start + i * d > stop)
    BY <1>1, <2>5
  <2> QED
    BY <2>5, <2>6 DEF q
<1>2. CASE d < 0 /\ stop < start
  <2> DEFINE n == start - stop
             e == -d
  <2>1. n \in Nat /\ e \in Nat /\ e > 0 /\ n + e - 1 = start - stop - d - 1
    BY <1>2
  <2>2. Extent(start, stop, d) = (n + e - 1) \div e
    BY <1>2, <2>1 DEF Extent
  <2>3. \A i \in Nat : i * d = -(i * e) /\ i * e \in Nat
    BY <1>2
  <2> HIDE DEF n, e
  <2>4. /\ (n + e - 1) \div e \in Nat
        /\ \A i \in Nat : i < (n + e - 1) \div e <=> i * e < n
    BY <2>1, RoundedUp
  <2>5. \A i \in Nat : i * e < n <=> start + i * d > stop
    BY <2>3 DEF n
  <2> DEFINE q == Extent(start, stop, d)
  <2>6. q \in Nat /\ \A i \in Nat : i < q <=> start + i * d > stop
    BY <2>2, <2>4, <2>5
  <2> HIDE DEF q
  <2>7. \A i \in Nat : /\ d > 0 => (i < q <=> start + i * d < stop)
                       /\ d < 0 => (i < q <=> start + i * d > stop)
    BY <1>2, <2>6
  <2> QED
    BY <2>6, <2>7 DEF q
<1>3. CASE d > 0 /\ stop <= start
  <2>1. Extent(start, stop, d) = 0
    BY <1>3 DEF Extent
  <2>2. \A i \in Nat : i * d >= 0 /\ i * d \in Int
    BY <1>3
  <2> QED
    BY <1>3, <2>1, <2>2
<1>4. CASE d < 0 /\ stop >= start
  <2>1. Extent(start, stop, d) = 0
    BY <1>4 DEF Extent
  <2>2. \A i \in Nat : i * d <= 0 /\ i * d \in Int
    BY <1>4
  <2> QED
    BY <1>4, <2>1, <2>2
<1> QED
  BY <1>1, <1>2, <1>3, <1>4

LEMMA MultipleLeavesNone ==
  ASSUME NEW k \in Int, NEW d \in Nat, d > 0
  PROVE  (k * d) % d = 0
<1> DEFINE n == k * d
<1>1. n \in Int /\ n \div d = k
  BY QuotientExact
<1>2. n = d * k
  OBVIOUS
<1> HIDE DEF n
<1>3. n % d \in 0 .. d - 1 /\ n = d * (n \div d) + (n % d)
  BY <1>1, Division
<1>4. n % d = 0
  BY <1>1, <1>2, <1>3
<1> QED
  BY <1>4 DEF n

\* n places, d apart.
Progression(start, d, n) == {start + i * d : i \in 0 .. n - 1}

LEMMA ProgressionIsInjective ==
  ASSUME NEW start \in Int, NEW d \in Int, d # 0, NEW i \in Int, NEW j \in Int, start + i * d = start + j * d
  PROVE  i = j
<1>1. (i - j) * d = 0 /\ (j - i) * d = 0
  OBVIOUS
<1>2. i - j \in Int /\ j - i \in Int
  OBVIOUS
<1>3. d > 0 => i - j >= 0 /\ j - i >= 0
  BY <1>1, <1>2, SignOfProduct
<1>4. d < 0 => i - j <= 0 /\ j - i <= 0
  BY <1>1, <1>2, SignOfProduct
<1> QED
  BY <1>3, <1>4

LEMMA ProgressionCardinality ==
  ASSUME NEW start \in Int, NEW d \in Int, d # 0, NEW n \in Nat
  PROVE  IsFiniteSet(Progression(start, d, n)) /\ Cardinality(Progression(start, d, n)) = n
<1> DEFINE S == 0 .. n - 1
           T == Progression(start, d, n)
           f == [i \in S |-> start + i * d]
<1>1. IsFiniteSet(S) /\ Cardinality(S) = n
  <2>1. 0 \in Int /\ n - 1 \in Int
    OBVIOUS
  <2>2. IsFiniteSet(S) /\ Cardinality(S) = IF 0 > n - 1 THEN 0 ELSE n - 1 - 0 + 1
    BY <2>1, FS_Interval
  <2> QED
    BY <2>2
<1>2. f \in [S -> T] /\ \A t \in T : \E i \in S : f[i] = t
  BY DEF Progression
<1>3. \A i, j \in S : f[i] = f[j] => i = j
  <2>1. ASSUME NEW i \in S, NEW j \in S, f[i] = f[j]
        PROVE  i = j
    <3>1. i \in Int /\ j \in Int /\ start + i * d = start + j * d
      BY <2>1
    <3> HIDE DEF S, f
    <3> QED
      BY <3>1, ProgressionIsInjective
  <2> QED
    BY <2>1
<1> HIDE DEF S, T, f
<1>4. ExistsBijection(S, T)
  BY <1>2, <1>3 DEF ExistsBijection, Bijection, Injection, Surjection, IsInjective
<1> QED
  BY <1>1, <1>4, FS_Bijection DEF T

-----------------------------------------------------------------------------
(* The places that a slice names on an axis are those that the walk reads.  *)

AtOrAfter(d, start, i) == IF d > 0 THEN i >= start ELSE i <= start
Before(d, stop, i)     == IF d > 0 THEN i < stop ELSE i > stop

\* For the places of the axis, the ends as they are clamped mean the same as the
\* ends as they are written.
LEMMA ClampingKeepsPlaces ==
  ASSUME NEW size \in Nat, NEW d \in Int, d # 0, NEW b \in Int, NEW m \in BOOLEAN, NEW i \in 0 .. size - 1
  PROVE  /\ AtOrAfter(d, startForAxis(m, b, d, size), i) <=> m \/ AtOrAfter(d, FromEnd(b, size), i)
         /\ Before(d, stopForAxis(m, b, d, size), i) <=> m \/ Before(d, FromEnd(b, size), i)
<1> DEFINE p == FromEnd(b, size)
           k == ClampedToAxis(b, d, size)
<1>1. p \in Int
  BY DEF FromEnd
<1>2. size # 0 /\ i \in Int /\ i >= 0 /\ i < size
  OBVIOUS
<1>3. /\ startForAxis(m, b, d, size) = IF m THEN (IF d > 0 THEN 0 ELSE size - 1) ELSE k
      /\ stopForAxis(m, b, d, size) = IF m THEN (IF d > 0 THEN size ELSE -1) ELSE k
  BY <1>2 DEF startForAxis, stopForAxis
<1>4. d > 0 => k = IF p < 0 THEN 0 ELSE IF p > size THEN size ELSE p
  BY DEF ClampedToAxis, Clamp
<1>5. ~(d > 0) => k = IF p < -1 THEN -1 ELSE IF p > size - 1 THEN size - 1 ELSE p
  BY DEF ClampedToAxis, Clamp
<1> HIDE DEF p, k
<1>6. CASE m
  BY <1>2, <1>3, <1>6 DEF AtOrAfter, Before
<1>7. CASE ~m /\ d > 0
  BY <1>1, <1>2, <1>3, <1>4, <1>7 DEF AtOrAfter, Before, p
<1>8. CASE ~m /\ ~(d > 0)
  BY <1>1, <1>2, <1>3, <1>5, <1>8 DEF AtOrAfter, Before, p
<1> QED
  BY <1>6, <1>7, <1>8

FirstOf(places, d) == CHOOSE i \in places : \A j \in places : (j - i) * d >= 0

\* The first of them, in the order of the walk, is where the walk starts.
LEMMA FirstPlace ==
  ASSUME NEW size \in Nat, NEW d \in Int, d # 0, NEW start \in 0 .. size - 1,
         NEW from, from = {i \in 0 .. size - 1 : AtOrAfter(d, start, i)}
  PROVE  FirstOf(from, d) = start
<1>1. start \in from
  BY DEF AtOrAfter
<1>2. \A j \in from : j \in Int /\ start \in Int /\ j - start \in Int /\ start - j \in Int
  OBVIOUS
<1>3. \A j \in from : (j - start) * d >= 0
  <2>1. ASSUME NEW j \in from
        PROVE  (j - start) * d >= 0
    <3>1. d > 0 => j - start >= 0
      BY <1>2 DEF AtOrAfter
    <3>2. d < 0 => j - start <= 0
      BY <1>2 DEF AtOrAfter
    <3> QED
      BY <1>2, <3>1, <3>2, SignOfProduct
  <2> QED
    BY <2>1
<1>4. ASSUME NEW k \in from, \A j \in from : (j - k) * d >= 0
      PROVE  k = start
  <2>1. (start - k) * d >= 0 /\ (k - start) * d >= 0
    BY <1>1, <1>3, <1>4
  <2>2. d > 0 => start - k >= 0 /\ k - start >= 0
    BY <1>2, <2>1, SignOfProduct
  <2>3. d < 0 => start - k <= 0 /\ k - start <= 0
    BY <1>2, <2>1, SignOfProduct
  <2> QED
    BY <1>2, <2>2, <2>3
<1> QED
  BY <1>1, <1>3, <1>4 DEF FirstOf

Magnitude(d) == IF d > 0 THEN d ELSE -d

\* The places between the two ends, a multiple of the stride from the start.
PlacesFrom(size, d, start, stop) ==
  {i \in 0 .. size - 1 :
     AtOrAfter(d, start, i) /\ Before(d, stop, i) /\ (i - start) % Magnitude(d) = 0}

LEMMA PlacesAreProgression ==
  ASSUME NEW size \in Nat, NEW d \in Int, d # 0, NEW start \in Int, NEW stop \in Int,
         d > 0 => start \in 0 .. size /\ stop \in 0 .. size,
         d < 0 => (start \in -1 .. size - 1 /\ stop \in -1 .. size - 1) \/ (start = 0 /\ stop = 0)
  PROVE  PlacesFrom(size, d, start, stop) = Progression(start, d, Extent(start, stop, d))
<1> DEFINE e == Magnitude(d)
           n == Extent(start, stop, d)
<1>1. e \in Nat /\ e > 0 /\ (d > 0 => e = d) /\ (d < 0 => e = -d)
  BY DEF Magnitude
<1>2. /\ n \in Nat
      /\ \A i \in Nat : i < n <=> Before(d, stop, start + i * d)
  <2>1. n \in Nat /\ \A i \in Nat : /\ d > 0 => (i < n <=> start + i * d < stop)
                                    /\ d < 0 => (i < n <=> start + i * d > stop)
    BY ExtentReaches
  <2> HIDE DEF n
  <2> QED
    BY <2>1 DEF Before
<1>3. ASSUME NEW i \in 0 .. size - 1, AtOrAfter(d, start, i), Before(d, stop, i), (i - start) % e = 0
      PROVE  i \in Progression(start, d, n)
  <2> DEFINE x == i - start
             q == x \div e
  <2>1. x \in Int /\ x % e = 0
    BY <1>3
  <2> HIDE DEF x, e
  <2>2. q \in Int /\ x = e * q
    <3>1. q \in Int /\ x = e * q + (x % e)
      BY <1>1, <2>1, Division
    <3> QED
      BY <1>1, <2>1, <3>1
  <2> HIDE DEF q
  <2>3. q * e = x
    BY <1>1, <2>2
  <2>4. CASE d > 0
    <3>1. x >= 0
      BY <1>3, <2>4 DEF AtOrAfter, x
    <3>2. q >= 0
      BY <1>1, <2>2, <2>3, <3>1, SignOfProduct
    <3>3. q \in Nat /\ i = start + q * d
      BY <1>1, <2>2, <2>3, <2>4, <3>2 DEF x
    <3>4. q < n
      BY <1>2, <1>3, <3>3
    <3> HIDE DEF n
    <3> QED
      BY <1>2, <3>3, <3>4 DEF Progression
  <2>5. CASE d < 0
    <3> DEFINE k == -q
    <3>1. x <= 0
      BY <1>3, <2>5 DEF AtOrAfter, x
    <3>2. k \in Int /\ k * e >= 0
      BY <1>1, <2>2, <2>3, <3>1
    <3>3. k * d = x
      BY <1>1, <2>2, <2>3, <2>5
    <3> HIDE DEF k
    <3>4. k >= 0
      BY <1>1, <3>2, SignOfProduct
    <3>5. k \in Nat /\ i = start + k * d
      BY <3>2, <3>3, <3>4 DEF x
    <3>6. k < n
      BY <1>2, <1>3, <3>5
    <3> HIDE DEF n
    <3> QED
      BY <1>2, <3>5, <3>6 DEF Progression
  <2> QED
    BY <2>4, <2>5
<1>4. ASSUME NEW k \in 0 .. n - 1
      PROVE  LET i == start + k * d IN
             /\ i \in 0 .. size - 1 /\ AtOrAfter(d, start, i) /\ Before(d, stop, i) /\ (i - start) % e = 0
  <2> DEFINE i == start + k * d
  <2>1. k \in Nat /\ k < n
    BY <1>2
  <2>2. i \in 0 .. size - 1
    BY <2>1, SliceWithinAxis
  <2>3. Before(d, stop, i)
    BY <1>2, <2>1
  <2>4. AtOrAfter(d, start, i)
    <3>1. k * d \in Int
      BY <2>1
    <3>2. d > 0 => k * d >= 0
      BY <2>1
    <3>3. d < 0 => k * d <= 0
      BY <2>1
    <3> QED
      BY <3>1, <3>2, <3>3 DEF AtOrAfter
  <2>5. (i - start) % e = 0
    <3> DEFINE j == IF d > 0 THEN k ELSE -k
    <3>1. j \in Int /\ i - start = j * e
      BY <2>1 DEF Magnitude
    <3> HIDE DEF j, e
    <3>2. (j * e) % e = 0
      BY <1>1, <3>1, MultipleLeavesNone
    <3> QED
      BY <3>1, <3>2
  <2> QED
    BY <2>2, <2>3, <2>4, <2>5
<1> HIDE DEF n, e
<1>5. ASSUME NEW i \in Progression(start, d, n)
      PROVE  i \in 0 .. size - 1 /\ AtOrAfter(d, start, i) /\ Before(d, stop, i) /\ (i - start) % e = 0
  <2>1. PICK k \in 0 .. n - 1 : i = start + k * d
    BY DEF Progression
  <2> QED
    BY <1>4, <2>1
<1> QED
  BY <1>3, <1>5 DEF n, e, PlacesFrom

\* The constants of a slice have a value for each axis of the input; only the
\* output may be of another rank.
LEMMA SliceConstants ==
  ASSUME NEW o \in OperatorsOf("STRIDED_SLICE"), Loaded(o)
  PROVE  /\ \A k \in 2 .. 4, a \in 1 .. rank(o.ins[1]) : o.ins[k].const[a] \in Int
         /\ SliceRanksDiffer(o) <=> rank(o.outs[1]) # rank(o.ins[1])
<1>1. StridedSliceRule(o)
  BY DEF OperatorsOf, Loaded, validateOperator
<1>2. Len(o.ins) = 4
  BY <1>1 DEF StridedSliceRule
<1>3. \A k \in 1 .. 4 : o.ins[k] \in TensorInfo /\ TensorOK(o.ins[k])
  BY <1>2, Operands
<1>4. \A k \in 2 .. 4 : IsConst(o.ins[k]) /\ NumElements(o.ins[k]) = rank(o.ins[1])
  BY <1>1 DEF StridedSliceRule
<1>5. rank(o.ins[1]) <= MaxDims /\ rank(o.ins[1]) \in Nat
  <2>1. o.ins[1] \in TensorInfo /\ TensorOK(o.ins[1])
    BY <1>3
  <2> QED
    BY <2>1, TensorFacts DEF TensorOK
<1>6. ASSUME NEW k \in 2 .. 4
      PROVE  o.ins[k].const \in Seq(Int) /\ Len(o.ins[k].const) = rank(o.ins[1])
  <2>1. o.ins[k] \in TensorInfo /\ TensorOK(o.ins[k])
    BY <1>3
  <2>2. IsConst(o.ins[k]) /\ NumElements(o.ins[k]) = rank(o.ins[1])
    BY <1>4
  <2>3. o.ins[k].const \in Seq(Int)
    BY <2>1 DEF TensorInfo
  <2> QED
    BY <2>1, <2>2, <2>3 DEF TensorOK
<1>7. ASSUME NEW k \in 2 .. 4, NEW a \in 1 .. rank(o.ins[1])
      PROVE  o.ins[k].const[a] \in Int
  <2>1. o.ins[k].const \in Seq(Int) /\ a \in 1 .. Len(o.ins[k].const)
    BY <1>6
  <2> QED
    BY <2>1
<1> HIDE DEF rank
<1>8. SliceRanksDiffer(o) <=> rank(o.outs[1]) # rank(o.ins[1])
  BY <1>5, <1>6, MaxDimsAssumption DEF SliceRanksDiffer
<1> QED
  BY <1>7, <1>8

\* What the options and the constants of a slice name on an axis.
LEMMA SelectedIsProgression ==
  ASSUME NEW o \in OperatorsOf("STRIDED_SLICE"), Loaded(o), ~SliceRanksDiffer(o),
         \A x \in 1 .. rank(o.ins[1]) : SliceStride(o, x) # 0,
         NEW a \in 1 .. rank(o.ins[1])
  PROVE  /\ Selected(o, a) = Progression(SliceStart(o, a), SliceStride(o, a), SliceExtent(o, a))
         /\ SliceExtent(o, a) \in Nat /\ SliceStart(o, a) \in Int /\ SliceStride(o, a) \in Int
<1> DEFINE size  == o.ins[1].shape[a]
           d     == SliceStride(o, a)
           start == SliceStart(o, a)
           stop  == SliceStop(o, a)
           bm    == a \in o.opt.beginMask
           em    == a \in o.opt.endMask
           b     == o.ins[2].const[a]
           e     == o.ins[3].const[a]
           w     == Magnitude(d)
           from  == {i \in 0 .. size - 1 : AtOrAfter(d, start, i)}
           first == FirstOf(from, d)
           P     == Progression(start, d, Extent(start, stop, d))
<1>1. /\ size \in Nat /\ d \in Int /\ start \in Int /\ stop \in Int /\ d # 0
      /\ d > 0 => start \in 0 .. size /\ stop \in 0 .. size
      /\ d < 0 => (start \in -1 .. size - 1 /\ stop \in -1 .. size - 1) \/ (start = 0 /\ stop = 0)
  <2>1. a \in 1 .. Len(o.ins[1].shape)
    BY DEF rank
  <2> QED
    BY <2>1, SliceOperands
<1>2. b \in Int /\ e \in Int /\ bm \in BOOLEAN /\ em \in BOOLEAN
  BY SliceConstants
<1>3. start = startForAxis(bm, b, d, size) /\ stop = stopForAxis(em, e, d, size)
  BY DEF SliceStart, SliceStop
<1>4. Selected(o, a) =
        LET place(i) == IF i < 0 THEN i + size ELSE i
            after(i) == bm \/ (IF d > 0 THEN i >= place(b) ELSE i <= place(b))
            before(i) == em \/ (IF d > 0 THEN i < place(e) ELSE i > place(e))
            all == {i \in 0 .. size - 1 : after(i)}
            one == CHOOSE i \in all : \A j \in all : (j - i) * d >= 0
        IN {i \in all : before(i) /\ (i - one) % w = 0}
  BY DEF Selected, SliceStride, Magnitude
<1> HIDE DEF size, d, start, stop, bm, em, b, e, w
<1>5. \A i \in 0 .. size - 1 :
        /\ (bm \/ (IF d > 0 THEN i >= FromEnd(b, size) ELSE i <= FromEnd(b, size))) <=> AtOrAfter(d, start, i)
        /\ (em \/ (IF d > 0 THEN i < FromEnd(e, size) ELSE i > FromEnd(e, size))) <=> Before(d, stop, i)
  <2>1. ASSUME NEW i \in 0 .. size - 1
        PROVE  /\ AtOrAfter(d, start, i) <=> bm \/ AtOrAfter(d, FromEnd(b, size), i)
               /\ Before(d, stop, i) <=> em \/ Before(d, FromEnd(e, size), i)
    <3>1. AtOrAfter(d, startForAxis(bm, b, d, size), i) <=> bm \/ AtOrAfter(d, FromEnd(b, size), i)
      BY <1>1, <1>2, ClampingKeepsPlaces
    <3>2. Before(d, stopForAxis(em, e, d, size), i) <=> em \/ Before(d, FromEnd(e, size), i)
      BY <1>1, <1>2, ClampingKeepsPlaces
    <3> QED
      BY <1>3, <3>1, <3>2
  <2> QED
    BY <2>1 DEF AtOrAfter, Before
<1>6. Selected(o, a) = {i \in from : Before(d, stop, i) /\ (i - first) % w = 0}
  <2> DEFINE all == {i \in 0 .. size - 1 : bm \/ (IF d > 0 THEN i >= FromEnd(b, size) ELSE i <= FromEnd(b, size))}
  <2>1. all = from
    BY <1>5
  <2>2. Selected(o, a) =
          {i \in all : /\ em \/ (IF d > 0 THEN i < FromEnd(e, size) ELSE i > FromEnd(e, size))
                       /\ (i - FirstOf(all, d)) % w = 0}
    BY <1>4 DEF FromEnd, FirstOf
  <2> HIDE DEF all
  <2>3. Selected(o, a) =
          {i \in from : /\ em \/ (IF d > 0 THEN i < FromEnd(e, size) ELSE i > FromEnd(e, size))
                        /\ (i - first) % w = 0}
    BY <2>1, <2>2
  <2>4. \A i \in from : i \in 0 .. size - 1
    OBVIOUS
  <2> HIDE DEF from, first
  <2> QED
    BY <1>5, <2>3, <2>4
<1>7. P = {i \in 0 .. size - 1 : AtOrAfter(d, start, i) /\ Before(d, stop, i) /\ (i - start) % w = 0}
  <2>1. PlacesFrom(size, d, start, stop) = P
    BY <1>1, PlacesAreProgression
  <2> HIDE DEF P
  <2> QED
    BY <2>1 DEF w, PlacesFrom
<1>8. Selected(o, a) = P
  <2>1. CASE start \in 0 .. size - 1
    <3>1. first = start
      <4>1. from = {i \in 0 .. size - 1 : AtOrAfter(d, start, i)}
        OBVIOUS
      <4> HIDE DEF from
      <4> QED
        BY <1>1, <2>1, <4>1, FirstPlace
    <3>2. \A i : i \in from <=> i \in 0 .. size - 1 /\ AtOrAfter(d, start, i)
      OBVIOUS
    <3> HIDE DEF from, first, P
    <3> QED
      BY <1>6, <1>7, <3>1, <3>2
  <2>2. CASE start \notin 0 .. size - 1
    <3>1. \A i \in 0 .. size - 1 : ~(AtOrAfter(d, start, i))
      BY <1>1, <2>2 DEF AtOrAfter
    <3> HIDE DEF first, P
    <3> QED
      BY <1>6, <1>7, <3>1
  <2> QED
    BY <2>1, <2>2
<1>9. Extent(start, stop, d) \in Nat
  BY <1>1, ExtentReaches
<1> QED
  BY <1>1, <1>8, <1>9 DEF SliceExtent, start, stop, d

-----------------------------------------------------------------------------
(* The walk takes the coordinates in the order of their flat indexes.       *)

LEMMA FlatOfFirst ==
  ASSUME NEW s \in Seq(Int)
  PROVE  FlatIndex(s, [a \in 1 .. Len(s) |-> 0]) = 0
<1> DEFINE c == [a \in 1 .. Len(s) |-> 0]
<1>1. c \in [1 .. Len(s) -> Int] /\ \A a \in 1 .. Len(s) : c[a] = 0
  OBVIOUS
<1> HIDE DEF c
<1>2. PICK f : Flat(s, c, f) /\ FlatIndex(s, c) = f[Len(s)]
  BY <1>1, FlatExists
<1> DEFINE n == Len(s)
           S == {k \in 0 .. n : f[k] = 0}
<1>3. n \in Nat /\ \A a \in 1 .. n : s[a] \in Int
  OBVIOUS
<1>4. 0 \in S
  BY <1>2, <1>3 DEF Flat
<1>5. ASSUME NEW k \in 1 .. n, k - 1 \in S
      PROVE  k \in S
  <2>1. f[k] = f[k - 1] * s[k] + c[k] /\ f[k - 1] = 0 /\ k \in 0 .. n
    BY <1>2, <1>3, <1>5 DEF Flat
  <2> QED
    BY <1>1, <1>3, <2>1
<1>6. \A k \in 0 .. n : k \in S
  <2>1. S \in SUBSET (0 .. n)
    OBVIOUS
  <2> HIDE DEF S
  <2> QED
    BY <1>3, <1>4, <1>5, <2>1, EveryPlace
<1>7. n \in 0 .. n
  BY <1>3
<1> QED
  BY <1>2, <1>6, <1>7 DEF c

LEMMA FlatOfNext ==
  ASSUME NEW s \in Seq(Int), NEW idx, Within(s, idx), HasNext(s, idx)
  PROVE  FlatIndex(s, NextIndex(s, idx)) = FlatIndex(s, idx) + 1
<1> DEFINE a == CarryAxis(s, idx)
           c == NextIndex(s, idx)
           n == Len(s)
<1>1. /\ a \in 1 .. n /\ \A y \in a + 1 .. n : idx[y] = s[y] - 1
      /\ c = [x \in 1 .. n |-> CASE x < a -> idx[x] [] x = a -> idx[x] + 1 [] OTHER -> 0]
      /\ Within(s, c)
  BY NextIsWithin
<1>2. /\ n \in Nat /\ a \in Nat /\ a <= n
      /\ \A x \in 1 .. n : s[x] \in Int /\ idx[x] \in Int
  BY <1>1 DEF Within
<1> HIDE DEF a, c
<1>3. PICK f : Flat(s, idx, f) /\ FlatIndex(s, idx) = f[n]
  BY FlatExists DEF Within
<1>4. PICK g : Flat(s, c, g) /\ FlatIndex(s, c) = g[n]
  BY <1>1, FlatExists DEF Within
<1> DEFINE S == {k \in 0 .. n : g[k] = IF k < a THEN f[k] ELSE f[k] + 1}
<1>5. 0 \in S
  BY <1>1, <1>2, <1>3, <1>4 DEF Flat
<1>6. ASSUME NEW k \in 1 .. n, k - 1 \in S
      PROVE  k \in S
  <2>1. /\ f[k] = f[k - 1] * s[k] + idx[k] /\ g[k] = g[k - 1] * s[k] + c[k]
        /\ f[k - 1] \in Int /\ k \in 0 .. n /\ k - 1 \in 0 .. n /\ k \in Int
    <3>1. k \in 0 .. n /\ k - 1 \in 0 .. n /\ k \in Int
      BY <1>2
    <3>2. f[k] = f[k - 1] * s[k] + idx[k] /\ f[k - 1] \in Int
      BY <1>3, <3>1 DEF Flat
    <3>3. g[k] = g[k - 1] * s[k] + c[k]
      BY <1>4 DEF Flat
    <3> QED
      BY <3>1, <3>2, <3>3
  <2>2. s[k] \in Int /\ idx[k] \in Int
    BY <1>2
  <2>3. CASE k < a
    <3>1. c[k] = idx[k] /\ g[k - 1] = f[k - 1]
      BY <1>1, <1>2, <1>6, <2>1, <2>3
    <3> QED
      BY <2>1, <2>3, <3>1
  <2>4. CASE k = a
    <3>1. c[k] = idx[k] + 1
      BY <1>1, <1>2, <2>1, <2>4
    <3>2. g[k - 1] = f[k - 1]
      BY <1>2, <1>6, <2>1, <2>4
    <3>3. g[k] = f[k] + 1
      BY <2>1, <2>2, <3>1, <3>2
    <3> QED
      BY <1>2, <2>1, <2>4, <3>3
  <2>5. CASE k > a
    <3>1. c[k] = 0 /\ idx[k] = s[k] - 1
      BY <1>1, <1>2, <2>1, <2>5
    <3>2. g[k - 1] = f[k - 1] + 1
      BY <1>2, <1>6, <2>1, <2>5
    <3> DEFINE x == f[k - 1]
               y == s[k]
    <3>3. x \in Int /\ y \in Int /\ g[k] = (x + 1) * y + 0 /\ f[k] = x * y + (y - 1)
      BY <2>1, <2>2, <3>1, <3>2
    <3> HIDE DEF x, y
    <3>4. (x + 1) * y = x * y + y /\ x * y \in Int
      BY <3>3
    <3>5. g[k] = f[k] + 1
      BY <3>3, <3>4
    <3> QED
      BY <1>2, <2>1, <2>5, <3>5
  <2> QED
    BY <1>2, <2>1, <2>3, <2>4, <2>5
<1>7. \A k \in 0 .. n : k \in S
  <2>1. S \in SUBSET (0 .. n)
    OBVIOUS
  <2> HIDE DEF S
  <2> QED
    BY <1>2, <1>5, <1>6, <2>1, EveryPlace
<1>8. n \in 0 .. n /\ ~(n < a)
  BY <1>2
<1> QED
  BY <1>3, <1>4, <1>7, <1>8 DEF c

LEMMA FlatOfLast ==
  ASSUME NEW s \in Seq(Int), NEW idx, Within(s, idx), ~HasNext(s, idx)
  PROVE  FlatIndex(s, idx) = product(s, 0, Len(s)) - 1
<1> DEFINE n == Len(s)
<1>1. n \in Nat /\ \A x \in 1 .. n : s[x] \in Nat /\ idx[x] \in 0 .. s[x] - 1
  <2>1. \A x \in 1 .. n : s[x] \in Int /\ idx[x] \in 0 .. s[x] - 1
    BY DEF Within
  <2> QED
    BY <2>1
<1>2. \A x \in 1 .. n : idx[x] = s[x] - 1
  <2>1. ASSUME NEW x \in 1 .. n
        PROVE  idx[x] = s[x] - 1
    <3>1. s[x] \in Nat /\ idx[x] \in 0 .. s[x] - 1
      BY <1>1
    <3>2. ~(idx[x] + 1 < s[x])
      BY DEF HasNext
    <3> QED
      BY <3>1, <3>2
  <2> QED
    BY <2>1
<1>3. PICK f : Flat(s, idx, f) /\ FlatIndex(s, idx) = f[n]
  BY FlatExists DEF Within
<1> DEFINE S == {k \in 0 .. n : f[k] = product(s, 0, k) - 1}
<1>4. 0 \in S
  <2>1. product(s, 0, 0) = 1
    BY <1>1, ProductSteps
  <2> QED
    BY <1>1, <1>3, <2>1 DEF Flat
<1>5. ASSUME NEW k \in 1 .. n, k - 1 \in S
      PROVE  k \in S
  <2> DEFINE A == product(s, 0, k - 1)
             y == s[k]
  <2>1. k - 1 \in 0 .. n /\ k \in 0 .. n /\ k > 0
    BY <1>1
  <2>2. product(s, 0, k) = A * y
    BY <2>1, ProductSteps
  <2>3. A \in Nat
    <3>1. \A x \in 1 .. Len(s) : s[x] >= 0
      BY <1>1
    <3> QED
      BY <2>1, <3>1, ProductNat
  <2>4. y \in Nat /\ idx[k] = y - 1
    BY <1>1, <1>2
  <2>5. f[k] = f[k - 1] * y + idx[k] /\ f[k - 1] = A - 1
    BY <1>3, <1>5 DEF Flat
  <2> HIDE DEF A, y
  <2>6. (A - 1) * y + (y - 1) = A * y - 1
    <3>1. (A - 1) * y = A * y - y /\ A * y \in Int
      BY <2>3, <2>4
    <3> QED
      BY <2>4, <3>1
  <2>7. f[k] = A * y - 1
    BY <2>4, <2>5, <2>6
  <2> QED
    BY <2>1, <2>2, <2>7
<1>6. \A k \in 0 .. n : k \in S
  <2>1. S \in SUBSET (0 .. n)
    OBVIOUS
  <2> HIDE DEF S
  <2> QED
    BY <1>1, <1>4, <1>5, <2>1, EveryPlace
<1>7. n \in 0 .. n
  BY <1>1
<1> QED
  BY <1>3, <1>6, <1>7

\* The walk does not end before the last element.
LEMMA WalkCounts ==
  ASSUME NEW s \in Seq(Int), \A a \in 1 .. Len(s) : s[a] > 0,
         NEW n \in Nat, n > 0, n = product(s, 0, Len(s))
  PROVE  \A i \in 0 .. n - 1 : /\ FlatIndex(s, Walk(s, n)[i]) = i
                               /\ i < n - 1 => HasNext(s, Walk(s, n)[i])
<1> DEFINE m == n - 1
           W == Walk(s, n)
           S == {i \in 0 .. m : FlatIndex(s, W[i]) = i}
<1>1. m \in Nat
  OBVIOUS
<1>2. \A i \in 0 .. m : Within(s, W[i])
  BY WalkIsWithin
<1>3. \A i \in 0 .. m : FlatIndex(s, W[i]) = i /\ i < m => HasNext(s, W[i])
  <2>1. ASSUME NEW i \in 0 .. m, FlatIndex(s, W[i]) = i, ~HasNext(s, W[i])
        PROVE  i = m
    <3>1. Within(s, W[i])
      BY <1>2
    <3> HIDE DEF W
    <3>2. FlatIndex(s, W[i]) = product(s, 0, Len(s)) - 1
      BY <2>1, <3>1, FlatOfLast
    <3> QED
      BY <2>1, <3>2
  <2> HIDE DEF W, m
  <2> QED
    BY <1>1, <2>1
<1>4. 0 \in S
  <2>1. W[0] = [a \in 1 .. Len(s) |-> 0]
    BY WalkSteps
  <2>2. FlatIndex(s, W[0]) = 0
    BY <2>1, FlatOfFirst
  <2> HIDE DEF W
  <2> QED
    BY <1>1, <2>2
<1>5. ASSUME NEW k \in 1 .. m, k - 1 \in S
      PROVE  k \in S
  <2>1. k - 1 \in 0 .. m /\ FlatIndex(s, W[k - 1]) = k - 1 /\ k - 1 < m /\ k \in 0 .. m /\ k \in Nat
    BY <1>1, <1>5
  <2>2. HasNext(s, W[k - 1]) /\ Within(s, W[k - 1])
    BY <1>2, <1>3, <2>1
  <2>3. W[k] = NextIndex(s, W[k - 1])
    BY <2>2, WalkSteps
  <2> HIDE DEF W
  <2>4. FlatIndex(s, W[k]) = (k - 1) + 1
    BY <2>1, <2>2, <2>3, FlatOfNext
  <2> QED
    BY <2>1, <2>4
<1>6. \A i \in 0 .. m : i \in S
  <2>1. S \in SUBSET (0 .. m)
    OBVIOUS
  <2> HIDE DEF S, m
  <2> QED
    BY <1>1, <1>4, <1>5, <2>1, EveryPlace
<1> QED
  BY <1>3, <1>6

\* The kernel of a slice succeeds exactly if the output has the slice's shape.
LEMMA SliceOutcome ==
  ASSUME NEW o \in OperatorsOf("STRIDED_SLICE"), Loaded(o)
  PROVE  LET fits == /\ rank(o.outs[1]) = rank(o.ins[1])
                     /\ \A a \in 1 .. rank(o.ins[1]) :
                          o.ins[4].const[a] # 0 /\ o.outs[1].shape[a] = Cardinality(Selected(o, a))
         IN /\ fits <=> stridedSlice(o).kind = "ok"
            /\ ~fits <=> stridedSlice(o).kind = "error"
<1> DEFINE nd  == rank(o.ins[1])
           r   == o.outs[1].shape
           n   == NumElements(o.outs[1])
           walk == Walk(r, n)
           nonzero == \A a \in 1 .. nd : SliceStride(o, a) # 0
           extents == \A a \in 1 .. nd : SliceExtent(o, a) = r[a]
           fits == /\ rank(o.outs[1]) = nd
                   /\ \A a \in 1 .. nd : o.ins[4].const[a] # 0 /\ r[a] = Cardinality(Selected(o, a))
<1>1. ASSUME ~SliceRanksDiffer(o), nonzero, NEW a \in 1 .. nd
      PROVE  Cardinality(Selected(o, a)) = SliceExtent(o, a)
  <2>1. /\ Selected(o, a) = Progression(SliceStart(o, a), SliceStride(o, a), SliceExtent(o, a))
        /\ SliceExtent(o, a) \in Nat /\ SliceStart(o, a) \in Int /\ SliceStride(o, a) \in Int
    BY <1>1, SelectedIsProgression
  <2> QED
    BY <1>1, <2>1, ProgressionCardinality
<1>2. fits <=> ~SliceRanksDiffer(o) /\ nonzero /\ extents
  <2>1. SliceRanksDiffer(o) <=> rank(o.outs[1]) # nd
    BY SliceConstants
  <2>2. nonzero <=> \A a \in 1 .. nd : o.ins[4].const[a] # 0
    BY DEF SliceStride
  <2>3. ASSUME ~SliceRanksDiffer(o), nonzero
        PROVE  extents <=> \A a \in 1 .. nd : r[a] = Cardinality(Selected(o, a))
    <3>1. \A a \in 1 .. nd : Cardinality(Selected(o, a)) = SliceExtent(o, a)
      BY <1>1, <2>3
    <3> QED
      BY <3>1
  <2> HIDE DEF nonzero, extents, r, nd
  <2> QED
    BY <2>1, <2>2, <2>3
<1>3. ASSUME ~SliceRanksDiffer(o), nonzero, extents
      PROVE  \A i \in 0 .. n - 2 : HasNext(r, walk[i])
  <2>1. /\ r \in Seq(Int) /\ n = product(r, 0, Len(r)) /\ n \in Nat
        /\ \A a \in 1 .. Len(r) : r[a] >= 0
    <3>1. /\ r \in Seq(Int) /\ Len(r) = Len(o.ins[1].shape) /\ n = product(r, 0, Len(r)) /\ n \in Nat
          /\ \A a \in 1 .. Len(o.ins[1].shape) : r[a] \in Nat
      BY <1>3, SliceOperands
    <3> HIDE DEF r, n
    <3> QED
      BY <3>1
  <2>2. ASSUME NEW i \in 0 .. n - 2
        PROVE  HasNext(r, walk[i])
    <3>1. n > 0 /\ i \in 0 .. n - 1 /\ i < n - 1
      BY <2>1
    <3>2. \A a \in 1 .. Len(r) : r[a] > 0
      BY <2>1, <3>1, ProductPositive
    <3> HIDE DEF r, n
    <3> QED
      BY <2>1, <3>1, <3>2, WalkCounts
  <2> QED
    BY <2>2
<1>4. stridedSlice(o).kind # "panic"
  BY StridedSliceInRange
<1>5. CASE ~SliceRanksDiffer(o) /\ nonzero /\ extents
  <2>1. stridedSlice(o).kind \in {"ok", "panic"}
    BY <1>3, <1>5 DEF stridedSlice, Wrote, Panic
  <2> QED
    BY <1>2, <1>4, <1>5, <2>1
<1>6. CASE ~(~SliceRanksDiffer(o) /\ nonzero /\ extents)
  <2>1. stridedSlice(o).kind = "error"
    BY <1>6 DEF stridedSlice, Error
  <2> QED
    BY <1>2, <1>6, <2>1
<1> QED
  BY <1>5, <1>6

\* A STRIDED_SLICE that Load accepts fails exactly when its output does not have
\* the shape of the slice, whatever the rank, the masks and the constants.
THEOREM SlicesFailOnlyOnShape == Spec => []SliceFailsOnlyOnShape
<1>1. OperatorsInv => SliceFailsOnlyOnShape
  <2> SUFFICES ASSUME OperatorsInv, op.code = "STRIDED_SLICE", stage \in {"done", "failed"}
               PROVE  stage = "done" <=>
                        /\ rank(op.outs[1]) = rank(op.ins[1])
                        /\ \A a \in 1 .. rank(op.ins[1]) :
                             op.ins[4].const[a] # 0 /\ op.outs[1].shape[a] = Cardinality(Selected(op, a))
    BY DEF SliceFailsOnlyOnShape
  <2>1. op \in Ops /\ Loaded(op)
    BY DEF OperatorsInv
  <2>2. op \in OperatorsOf("STRIDED_SLICE")
    BY <2>1, OpFacts
  <2>3. Prepare(op).kind = "ok" /\ \A p : Kernel(op, p) = stridedSlice(op)
    BY DEF Prepare, Ready, Kernel
  <2>4. stage = "done" => stridedSlice(op).kind = "ok"
    BY <2>3 DEF OperatorsInv
  <2>5. stage = "failed" => stridedSlice(op).kind = "error"
    BY <2>3 DEF OperatorsInv
  <2> QED
    BY <2>1, <2>2, <2>4, <2>5, SliceOutcome
<1> QED
  BY InitOperators, NextOperators, <1>1, PTL DEF Spec

-----------------------------------------------------------------------------
(* Flat indexes of few axes, and the coordinates that they stand for. *)

LEMMA LongestAxis ==
  ASSUME NEW s \in Seq(Int)
  PROVE  LET sizes == {s[a] : a \in 1 .. Len(s)} \cup {0}
         IN Max(sizes) \in Int /\ \A a \in 1 .. Len(s) : s[a] <= Max(sizes)
<1> DEFINE n == Len(s)
           upTo(k) == {s[a] : a \in 1 .. k} \cup {0}
           S == {k \in 0 .. n : \E m \in upTo(k) : \A x \in upTo(k) : m >= x}
<1>1. n \in Nat /\ \A a \in 1 .. n : s[a] \in Int
  OBVIOUS
<1>2. 0 \in S
  OBVIOUS
<1>3. ASSUME NEW k \in 1 .. n, k - 1 \in S
      PROVE  k \in S
  <2>1. PICK m \in upTo(k - 1) : \A x \in upTo(k - 1) : m >= x
    BY <1>3
  <2>2. upTo(k) = upTo(k - 1) \cup {s[k]}
    OBVIOUS
  <2>3. m \in Int /\ s[k] \in Int /\ k \in 0 .. n /\ \A x \in upTo(k - 1) : x \in Int
    BY <1>1, <2>1
  <2> HIDE DEF upTo
  <2>4. \E h \in upTo(k) : \A x \in upTo(k) : h >= x
    <3>1. CASE m >= s[k]
      BY <2>1, <2>2, <3>1
    <3>2. CASE s[k] >= m
      <4>1. \A x \in upTo(k) : s[k] >= x
        BY <2>1, <2>2, <2>3, <3>2
      <4> QED
        BY <2>2, <4>1
    <3> QED
      BY <2>3, <3>1, <3>2
  <2> QED
    BY <2>3, <2>4
<1>4. \A k \in 0 .. n : k \in S
  <2>1. S \in SUBSET (0 .. n)
    OBVIOUS
  <2> HIDE DEF S
  <2> QED
    BY <1>1, <1>2, <1>3, <2>1, EveryPlace
<1>5. \E m \in upTo(n) : \A x \in upTo(n) : m >= x
  <2>1. n \in 0 .. n
    BY <1>1
  <2>2. n \in S
    BY <1>4, <2>1
  <2> HIDE DEF n, upTo
  <2> QED
    BY <2>2
<1>6. Max(upTo(n)) \in upTo(n) /\ \A x \in upTo(n) : Max(upTo(n)) >= x
  <2> DEFINE T == upTo(n)
  <2> HIDE DEF T
  <2>1. \E m \in T : \A x \in T : m >= x
    BY <1>5 DEF T
  <2>2. Max(T) = CHOOSE m \in T : \A x \in T : m >= x
    BY DEF Max
  <2>3. Max(T) \in T /\ \A x \in T : Max(T) >= x
    BY <2>1, <2>2
  <2> QED
    BY <2>3 DEF T
<1>7. \A x \in upTo(n) : x \in Int
  BY <1>1
<1>8. \A a \in 1 .. n : s[a] \in upTo(n)
  OBVIOUS
<1> HIDE DEF upTo
<1>9. Max(upTo(n)) \in Int /\ \A a \in 1 .. n : s[a] <= Max(upTo(n))
  BY <1>1, <1>6, <1>7, <1>8
<1> QED
  BY <1>9 DEF upTo

LEMMA CoordinatesAreWithin ==
  ASSUME NEW s \in Seq(Int)
  PROVE  \A c : c \in Coordinates(s) <=> Within(s, c)
<1> DEFINE n == Len(s)
           longest == Max({s[a] : a \in 1 .. n} \cup {0})
<1>1. Coordinates(s) = {c \in [1 .. n -> 0 .. longest] : \A a \in 1 .. n : c[a] < s[a]}
  BY DEF Coordinates
<1>2. longest \in Int /\ \A a \in 1 .. n : s[a] <= longest
  BY LongestAxis
<1>3. \A a \in 1 .. n : s[a] \in Int
  OBVIOUS
<1> HIDE DEF longest
<1>4. ASSUME NEW c, Within(s, c)
      PROVE  c \in Coordinates(s)
  <2>1. c \in [1 .. n -> Int] /\ \A a \in 1 .. n : c[a] \in 0 .. s[a] - 1
    BY <1>4 DEF Within
  <2>2. \A a \in 1 .. n : c[a] \in 0 .. longest /\ c[a] < s[a]
    BY <1>2, <1>3, <2>1
  <2>3. c \in [1 .. n -> 0 .. longest]
    BY <2>1, <2>2
  <2> QED
    BY <1>1, <2>2, <2>3
<1>5. ASSUME NEW c \in Coordinates(s)
      PROVE  Within(s, c)
  <2>1. c \in [1 .. n -> 0 .. longest] /\ \A a \in 1 .. n : c[a] < s[a]
    BY <1>1
  <2>2. \A a \in 1 .. n : c[a] \in 0 .. longest
    BY <2>1
  <2>3. \A a \in 1 .. n : c[a] \in Int /\ c[a] \in 0 .. s[a] - 1
    BY <1>2, <1>3, <2>1, <2>2
  <2>4. c \in [1 .. n -> Int]
    BY <2>1, <2>3
  <2> QED
    BY <2>3, <2>4 DEF Within
<1> QED
  BY <1>4, <1>5

LEMMA FlatOfFour ==
  ASSUME NEW s \in Seq(Int), Len(s) = 4, NEW c \in [1 .. 4 -> Int]
  PROVE  FlatIndex(s, c) = ((c[1] * s[2] + c[2]) * s[3] + c[3]) * s[4] + c[4]
<1>1. PICK f : Flat(s, c, f) /\ FlatIndex(s, c) = f[Len(s)]
  BY FlatExists
<1>2. f[0] = 0 /\ \A a \in 1 .. 4 : f[a] = f[a - 1] * s[a] + c[a]
  BY <1>1 DEF Flat
<1>3. /\ f[1] = f[0] * s[1] + c[1] /\ f[2] = f[1] * s[2] + c[2]
      /\ f[3] = f[2] * s[3] + c[3] /\ f[4] = f[3] * s[4] + c[4]
  BY <1>2
<1>4. s[1] \in Int /\ c[1] \in Int
  OBVIOUS
<1>5. f[1] = c[1]
  BY <1>2, <1>3, <1>4
<1> QED
  BY <1>1, <1>3, <1>5

LEMMA FlatOfTwo ==
  ASSUME NEW s \in Seq(Int), Len(s) = 2, NEW c \in [1 .. 2 -> Int]
  PROVE  FlatIndex(s, c) = c[1] * s[2] + c[2]
<1>1. PICK f : Flat(s, c, f) /\ FlatIndex(s, c) = f[Len(s)]
  BY FlatExists
<1>2. f[0] = 0 /\ \A a \in 1 .. 2 : f[a] = f[a - 1] * s[a] + c[a]
  BY <1>1 DEF Flat
<1>3. f[1] = f[0] * s[1] + c[1] /\ f[2] = f[1] * s[2] + c[2]
  BY <1>2
<1>4. s[1] \in Int /\ c[1] \in Int
  OBVIOUS
<1>5. f[1] = c[1]
  BY <1>2, <1>3, <1>4
<1> QED
  BY <1>1, <1>3, <1>5

LEMMA RowMajorIsInjective ==
  ASSUME NEW B \in Nat, NEW a \in Int, NEW b \in 0 .. B - 1, NEW x \in Int, NEW y \in 0 .. B - 1,
         a * B + b = x * B + y
  PROVE  a = x /\ b = y
<1>1. ASSUME NEW i \in Int, NEW j \in Int, NEW k \in 0 .. B - 1, NEW l \in 0 .. B - 1, i * B + k = j * B + l
      PROVE  i >= j
  <2>1. CASE i < j
    <3>1. (i + 1) * B <= j * B
      BY <2>1, TimesMonotone
    <3>2. (i + 1) * B = i * B + B /\ i * B \in Int /\ j * B \in Int
      OBVIOUS
    <3> QED
      BY <1>1, <3>1, <3>2
  <2> QED
    BY <2>1
<1>2. a >= x /\ x >= a
  BY <1>1
<1>3. a = x
  BY <1>2
<1>4. a * B \in Int
  OBVIOUS
<1> QED
  BY <1>3, <1>4

\* Equal factors of what is divided and of the divisor.
LEMMA QuotientScaled ==
  ASSUME NEW c \in Int, NEW e \in Nat, e > 0, NEW g \in Nat, g > 0
  PROVE  (c * g) \div (g * e) = c \div e
<1> DEFINE q == c \div e
           r == c % e
           d == g * e
           n == c * g
<1>1. q \in Int /\ r \in 0 .. e - 1 /\ c = e * q + r
  BY Division
<1> HIDE DEF q, r
<1>2. d \in Nat /\ n \in Int
  OBVIOUS
<1>3. g * r \in 0 .. d - 1
  <2>1. r * g \in Nat /\ g * r = r * g
    BY <1>1
  <2>2. (r + 1) * g <= e * g /\ (r + 1) * g = r * g + g /\ e * g = g * e
    BY <1>1, TimesMonotone
  <2> QED
    BY <1>2, <2>1, <2>2
<1>4. n = q * d + g * r
  <2>1. c * g = (e * q + r) * g
    BY <1>1
  <2>2. (e * q + r) * g = q * (g * e) + g * r
    BY <1>1
  <2> QED
    BY <2>1, <2>2
<1> HIDE DEF d, n
<1> DEFINE z == g * r
<1> HIDE DEF z
<1>5. z \in 0 .. d - 1 /\ n = q * d + z
  BY <1>3, <1>4 DEF z
<1>6. d > 0
  BY <1>2, <1>5
<1>7. n \div d \in Int /\ n % d \in 0 .. d - 1 /\ n = d * (n \div d) + (n % d)
  BY <1>2, <1>6, Division
<1> DEFINE k == n \div d
           m == n % d
<1>8. k \in Int /\ m \in 0 .. d - 1 /\ k * d + m = q * d + z
  <2>1. k \in Int /\ m \in 0 .. d - 1 /\ n = d * k + m
    BY <1>7
  <2> HIDE DEF k, m
  <2> QED
    BY <1>2, <1>5, <2>1
<1> HIDE DEF k, m
<1>9. k = q
  BY <1>1, <1>2, <1>5, <1>8, RowMajorIsInjective
<1> QED
  BY <1>9 DEF k, q, n, d

LEMMA QuotientAndRest ==
  ASSUME NEW q \in Int, NEW d \in Nat, d > 0, NEW r \in 0 .. d - 1
  PROVE  (q * d + r) \div d = q /\ (q * d + r) % d = r
<1> DEFINE n == q * d + r
           k == n \div d
           m == n % d
<1>1. n \in Int
  OBVIOUS
<1>2. k \in Int /\ m \in 0 .. d - 1 /\ n = d * k + m
  <2> HIDE DEF n
  <2> QED
    BY <1>1, Division
<1> HIDE DEF k, m
<1>3. q * d + r = k * d + m
  BY <1>2
<1>4. q = k /\ r = m
  BY <1>2, <1>3, RowMajorIsInjective
<1> QED
  BY <1>4 DEF k, m, n

-----------------------------------------------------------------------------
(* What the loops of the convolutions multiply.                             *)

\* The geometry is that of the tensors' shapes.
Shapes(o, p) ==
  LET s == o.ins[1].shape
      f == o.ins[2].shape
      r == o.outs[1].shape
  IN /\ s \in Seq(Int) /\ Len(s) = 4 /\ f \in Seq(Int) /\ Len(f) = 4 /\ r \in Seq(Int) /\ Len(r) = 4
     /\ \A a \in 1 .. 4 : s[a] \in Nat /\ f[a] \in Nat /\ r[a] \in Nat
     /\ p.batches = s[1] /\ p.inDepth = s[4] /\ p.outDepth = r[4] /\ r[1] = s[1]
     /\ \A a \in Spatial :
          /\ p.in[a] = s[a + 1] /\ p.filter[a] = f[a + 1] /\ p.out[a] = r[a + 1]
          /\ p.dilation[a] = 1 /\ p.stride[a] \in Int /\ p.pad[a] \in Int

LEMMA ConvShapes ==
  ASSUME NEW c \in Convolutions, NEW o \in OperatorsOf(c), Loaded(o), NEW outDepth, GeometryOK(o, outDepth),
         NEW p, SameGeometry(p, convGeometry(o, outDepth))
  PROVE  Shapes(o, p)
<1> DEFINE s == o.ins[1].shape
           f == o.ins[2].shape
           r == o.outs[1].shape
<1>1. /\ \A a \in 1 .. 4 : s[a] \in Nat /\ f[a] \in Nat /\ r[a] \in Nat
      /\ \A a \in Spatial : o.opt.stride[a] \in Int /\ o.opt.stride[a] >= 1 /\ o.opt.dilation[a] = 1
  BY ConvOperands
<1>2. /\ s \in Seq(Int) /\ Len(s) = 4 /\ f \in Seq(Int) /\ Len(f) = 4 /\ r \in Seq(Int) /\ Len(r) = 4
  <2>1. /\ o.ins[1] \in TensorInfo /\ TensorOK(o.ins[1]) /\ rank(o.ins[1]) = 4
        /\ o.ins[2] \in TensorInfo /\ TensorOK(o.ins[2]) /\ rank(o.ins[2]) = 4
        /\ o.outs[1] \in TensorInfo /\ TensorOK(o.outs[1]) /\ rank(o.outs[1]) = 4
    BY ConvOperands
  <2> QED
    BY <2>1, TensorFacts
<1>3. r = <<s[1], OutSize(o, 1), OutSize(o, 2), outDepth>>
  BY DEF GeometryOK
<1>4. r[1] = s[1] /\ r[2] = OutSize(o, 1) /\ r[3] = OutSize(o, 2) /\ r[4] = outDepth
  BY <1>3
<1>5. p.batches = s[1] /\ p.inDepth = s[4] /\ p.outDepth = r[4]
  BY <1>4 DEF SameGeometry, convGeometry
<1>6. \A a \in Spatial :
        /\ p.in[a] = s[a + 1] /\ p.filter[a] = f[a + 1] /\ p.out[a] = OutSize(o, a)
        /\ p.stride[a] = o.opt.stride[a] /\ p.dilation[a] = o.opt.dilation[a]
        /\ p.pad[a] = computePadding(o.opt.stride[a], o.opt.dilation[a], s[a + 1], f[a + 1], OutSize(o, a))
  BY DEF SameGeometry, convGeometry
<1>7. \A a \in Spatial : OutSize(o, a) = r[a + 1]
  BY <1>4 DEF Spatial
<1> HIDE DEF s, f, r
<1>8. ASSUME NEW a \in Spatial
      PROVE  p.pad[a] \in Int
  <2>1. a + 1 \in 1 .. 4
    BY DEF Spatial
  <2> DEFINE total == (r[a + 1] - 1) * o.opt.stride[a] + effectiveFilter(f[a + 1], o.opt.dilation[a]) - s[a + 1]
  <2>2. total \in Int
    BY <1>1, <2>1 DEF effectiveFilter
  <2>3. p.pad[a] = IF total < 0 THEN 0 ELSE total \div 2
    BY <1>6, <1>7 DEF computePadding
  <2> HIDE DEF total
  <2> QED
    BY <2>2, <2>3
<1>9. \A a \in Spatial :
          /\ p.in[a] = s[a + 1] /\ p.filter[a] = f[a + 1] /\ p.out[a] = r[a + 1]
          /\ p.dilation[a] = 1 /\ p.stride[a] \in Int /\ p.pad[a] \in Int
  BY <1>1, <1>6, <1>7, <1>8
<1> QED
  BY <1>1, <1>2, <1>4, <1>5, <1>9 DEF Shapes, s, f, r

\* The coordinates in the input of a place in the filter and a channel.
TapAt(p, x, f, k) ==
  [i \in 1 .. 4 |-> CASE i = 1 -> x[1] [] i = 2 -> InputAt(p, x, 1, f[1])
                      [] i = 3 -> InputAt(p, x, 2, f[2]) [] OTHER -> k]

\* A place in the filter, as coordinates.
PlaceIn(f) == [i \in 1 .. 2 |-> f[i]]

\* Row or column y of the input is under place f of the filter.
Under(p, x, a, y, f) == y + p.pad[a] - x[a + 1] * p.stride[a] = f

\* The filter's area.
Area(s) == SubSeq(s, 2, 3)

LEMMA AreaSizes ==
  ASSUME NEW s \in Seq(Int), Len(s) = 4
  PROVE  Area(s) \in Seq(Int) /\ Len(Area(s)) = 2 /\ Area(s)[1] = s[2] /\ Area(s)[2] = s[3]
BY DEF Area

LEMMA WindowToTap ==
  ASSUME NEW o, NEW p, Shapes(o, p), NEW x \in ConvOutputs(p), NEW f \in FilterInside(p, x), NEW k \in 0 .. p.inDepth - 1
  PROVE  /\ Within(o.ins[1].shape, TapAt(p, x, f, k)) /\ Within(Area(o.ins[2].shape), PlaceIn(f))
         /\ FlatIndex(o.ins[1].shape, TapAt(p, x, f, k)) = PixelAt(p, x, f) + k
         /\ TapAt(p, x, f, k)[1] = x[1] /\ TapAt(p, x, f, k)[4] = k
         /\ \A a \in Spatial : Under(p, x, a, TapAt(p, x, f, k)[a + 1], PlaceIn(f)[a])
<1> DEFINE s == o.ins[1].shape
           g == o.ins[2].shape
           c == TapAt(p, x, f, k)
           y == InputAt(p, x, 1, f[1])
           z == InputAt(p, x, 2, f[2])
<1>1. /\ s \in Seq(Int) /\ Len(s) = 4 /\ g \in Seq(Int) /\ Len(g) = 4
      /\ \A a \in 1 .. 4 : s[a] \in Nat /\ g[a] \in Nat
      /\ p.batches = s[1] /\ p.inDepth = s[4] /\ p.in[1] = s[2] /\ p.in[2] = s[3]
      /\ p.filter[1] = g[2] /\ p.filter[2] = g[3]
  BY DEF Shapes, Spatial
<1>2. \A a \in Spatial : p.dilation[a] = 1 /\ p.stride[a] \in Int /\ p.pad[a] \in Int
  BY DEF Shapes
<1>3. /\ x[1] \in 0 .. p.batches - 1 /\ x[2] \in 0 .. p.out[1] - 1
      /\ x[3] \in 0 .. p.out[2] - 1 /\ x[4] \in 0 .. p.outDepth - 1
  BY DEF ConvOutputs
<1>4. /\ f[1] \in 0 .. p.filter[1] - 1 /\ f[2] \in 0 .. p.filter[2] - 1
      /\ y \in 0 .. p.in[1] - 1 /\ z \in 0 .. p.in[2] - 1
  BY DEF FilterInside, Spatial
<1>5. /\ y = x[2] * p.stride[1] - p.pad[1] + p.dilation[1] * f[1]
      /\ z = x[3] * p.stride[2] - p.pad[2] + p.dilation[2] * f[2]
  BY DEF InputAt
<1>6. c = [i \in 1 .. 4 |-> CASE i = 1 -> x[1] [] i = 2 -> y [] i = 3 -> z [] OTHER -> k]
  BY DEF TapAt
<1>7. PixelAt(p, x, f) = ((x[1] * p.in[1] + y) * p.in[2] + z) * p.inDepth
  BY DEF PixelAt
<1> HIDE DEF y, z, c, s, g
<1>8. c[1] = x[1] /\ c[2] = y /\ c[3] = z /\ c[4] = k
  BY <1>6
<1>9. \A a \in 1 .. 4 : c[a] \in 0 .. s[a] - 1
  <2>1. /\ c[1] \in 0 .. s[1] - 1 /\ c[2] \in 0 .. s[2] - 1
        /\ c[3] \in 0 .. s[3] - 1 /\ c[4] \in 0 .. s[4] - 1
    BY <1>1, <1>3, <1>4, <1>8
  <2>2. \A a \in 1 .. 4 : a = 1 \/ a = 2 \/ a = 3 \/ a = 4
    OBVIOUS
  <2> QED
    BY <2>1, <2>2
<1>10. c \in [1 .. 4 -> Int]
  BY <1>6, <1>9
<1>11. Within(s, c)
  BY <1>1, <1>9, <1>10 DEF Within
<1>12. FlatIndex(s, c) = PixelAt(p, x, f) + k
  <2>1. FlatIndex(s, c) = ((c[1] * s[2] + c[2]) * s[3] + c[3]) * s[4] + c[4]
    BY <1>1, <1>10, FlatOfFour
  <2> QED
    BY <1>1, <1>7, <1>8, <2>1
<1>13. Within(Area(g), PlaceIn(f))
  <2>1. Len(Area(g)) = 2 /\ Area(g)[1] = g[2] /\ Area(g)[2] = g[3]
    BY <1>1, AreaSizes
  <2>2. PlaceIn(f) = [i \in 1 .. 2 |-> f[i]] /\ f[1] \in Int /\ f[2] \in Int
    BY <1>4 DEF PlaceIn
  <2>3. \A i \in 1 .. 2 : PlaceIn(f)[i] \in 0 .. Area(g)[i] - 1
    <3>1. PlaceIn(f)[1] = f[1] /\ PlaceIn(f)[2] = f[2]
      BY <2>2
    <3>2. PlaceIn(f)[1] \in 0 .. Area(g)[1] - 1 /\ PlaceIn(f)[2] \in 0 .. Area(g)[2] - 1
      BY <1>1, <1>4, <2>1, <3>1
    <3>3. \A i \in 1 .. 2 : i = 1 \/ i = 2
      OBVIOUS
    <3> QED
      BY <3>2, <3>3
  <2>4. PlaceIn(f) \in [1 .. 2 -> Int]
    BY <2>2
  <2> QED
    BY <2>1, <2>3, <2>4 DEF Within
<1>14. ASSUME NEW a \in Spatial
       PROVE  Under(p, x, a, c[a + 1], PlaceIn(f)[a])
  <2>1. PlaceIn(f)[1] = f[1] /\ PlaceIn(f)[2] = f[2] /\ f[1] \in Int /\ f[2] \in Int
    BY <1>4 DEF PlaceIn
  <2>2. /\ p.stride[1] \in Int /\ p.pad[1] \in Int /\ p.dilation[1] = 1
        /\ p.stride[2] \in Int /\ p.pad[2] \in Int /\ p.dilation[2] = 1
    BY <1>2 DEF Spatial
  <2>3. y = x[2] * p.stride[1] - p.pad[1] + f[1] /\ x[2] * p.stride[1] \in Int
    BY <1>3, <1>5, <2>1, <2>2
  <2>4. z = x[3] * p.stride[2] - p.pad[2] + f[2] /\ x[3] * p.stride[2] \in Int
    BY <1>3, <1>5, <2>1, <2>2
  <2>5. CASE a = 1
    <3>1. c[a + 1] = y /\ x[a + 1] = x[2] /\ PlaceIn(f)[a] = f[1]
      BY <1>8, <2>1, <2>5
    <3>2. y + p.pad[1] - x[2] * p.stride[1] = f[1]
      BY <2>1, <2>2, <2>3
    <3> QED
      BY <2>5, <3>1, <3>2 DEF Under
  <2>6. CASE a = 2
    <3>1. c[a + 1] = z /\ x[a + 1] = x[3] /\ PlaceIn(f)[a] = f[2]
      BY <1>8, <2>1, <2>6
    <3>2. z + p.pad[2] - x[3] * p.stride[2] = f[2]
      BY <2>1, <2>2, <2>4
    <3> QED
      BY <2>6, <3>1, <3>2 DEF Under
  <2> QED
    BY <2>5, <2>6 DEF Spatial
<1> QED
  BY <1>8, <1>11, <1>12, <1>13, <1>14 DEF c, s, g

LEMMA TapToWindow ==
  ASSUME NEW o, NEW p, Shapes(o, p), NEW x \in ConvOutputs(p),
         NEW c, Within(o.ins[1].shape, c), NEW w, Within(Area(o.ins[2].shape), w),
         c[1] = x[1], \A a \in Spatial : Under(p, x, a, c[a + 1], w[a])
  PROVE  /\ <<w[1], w[2]>> \in FilterInside(p, x)
         /\ c[4] \in 0 .. p.inDepth - 1
         /\ FlatIndex(o.ins[1].shape, c) = PixelAt(p, x, <<w[1], w[2]>>) + c[4]
<1> DEFINE s == o.ins[1].shape
           g == o.ins[2].shape
           f == <<w[1], w[2]>>
<1>1. /\ s \in Seq(Int) /\ Len(s) = 4 /\ g \in Seq(Int) /\ Len(g) = 4
      /\ \A a \in 1 .. 4 : s[a] \in Nat /\ g[a] \in Nat
      /\ p.batches = s[1] /\ p.inDepth = s[4] /\ p.in[1] = s[2] /\ p.in[2] = s[3]
      /\ p.filter[1] = g[2] /\ p.filter[2] = g[3]
  BY DEF Shapes, Spatial
<1>2. /\ p.dilation[1] = 1 /\ p.stride[1] \in Int /\ p.pad[1] \in Int
      /\ p.dilation[2] = 1 /\ p.stride[2] \in Int /\ p.pad[2] \in Int
  BY DEF Shapes, Spatial
<1>3. x[2] \in Int /\ x[3] \in Int
  BY DEF ConvOutputs
<1>4. f[1] = w[1] /\ f[2] = w[2]
  OBVIOUS
<1> HIDE DEF s, g
<1>5. w[1] \in 0 .. p.filter[1] - 1 /\ w[2] \in 0 .. p.filter[2] - 1
  <2>1. Len(Area(g)) = 2 /\ Area(g)[1] = g[2] /\ Area(g)[2] = g[3]
    BY <1>1, AreaSizes
  <2>2. \A i \in 1 .. 2 : w[i] \in 0 .. Area(g)[i] - 1
    BY <2>1 DEF Within, g
  <2>3. w[1] \in 0 .. Area(g)[1] - 1 /\ w[2] \in 0 .. Area(g)[2] - 1
    BY <2>2
  <2> QED
    BY <1>1, <2>1, <2>3
<1>6. c \in [1 .. 4 -> Int] /\ \A a \in 1 .. 4 : c[a] \in 0 .. s[a] - 1
  BY <1>1 DEF Within, s
<1>7. c[2] \in 0 .. p.in[1] - 1 /\ c[3] \in 0 .. p.in[2] - 1 /\ c[4] \in 0 .. p.inDepth - 1
  BY <1>1, <1>6
<1>8. c[2] + p.pad[1] - x[2] * p.stride[1] = w[1] /\ c[3] + p.pad[2] - x[3] * p.stride[2] = w[2]
  BY DEF Under, Spatial
<1>9. InputAt(p, x, 1, f[1]) = c[2] /\ InputAt(p, x, 2, f[2]) = c[3]
  <2>1. x[2] * p.stride[1] \in Int /\ x[3] * p.stride[2] \in Int /\ w[1] \in Int /\ w[2] \in Int
        /\ c[2] \in Int /\ c[3] \in Int
    BY <1>2, <1>3, <1>5, <1>6
  <2>2. InputAt(p, x, 1, f[1]) = x[2] * p.stride[1] - p.pad[1] + 1 * w[1]
    BY <1>2, <1>4 DEF InputAt
  <2>3. InputAt(p, x, 2, f[2]) = x[3] * p.stride[2] - p.pad[2] + 1 * w[2]
    BY <1>2, <1>4 DEF InputAt
  <2> QED
    BY <1>2, <1>8, <2>1, <2>2, <2>3
<1>10. f \in FilterInside(p, x)
  <2>1. f \in (0 .. p.filter[1] - 1) \X (0 .. p.filter[2] - 1)
    BY <1>5
  <2> HIDE DEF f
  <2>2. \A a \in Spatial : InputAt(p, x, a, f[a]) \in 0 .. p.in[a] - 1
    BY <1>7, <1>9 DEF Spatial
  <2> QED
    BY <2>1, <2>2 DEF FilterInside
<1>11. FlatIndex(s, c) = PixelAt(p, x, f) + c[4]
  <2>1. FlatIndex(s, c) = ((c[1] * s[2] + c[2]) * s[3] + c[3]) * s[4] + c[4]
    BY <1>1, <1>6, FlatOfFour
  <2>2. PixelAt(p, x, f) = ((x[1] * p.in[1] + c[2]) * p.in[2] + c[3]) * p.inDepth
    BY <1>9 DEF PixelAt
  <2> QED
    BY <1>1, <2>1, <2>2
<1> QED
  BY <1>7, <1>10, <1>11 DEF s

LEMMA FourTuple ==
  ASSUME NEW c \in [1 .. 4 -> Int]
  PROVE  c = <<c[1], c[2], c[3], c[4]>>
<1> DEFINE t == <<c[1], c[2], c[3], c[4]>>
<1>1. t \in [1 .. 4 -> Int]
  OBVIOUS
<1>2. \A i \in 1 .. 4 : t[i] = c[i]
  <2>1. t[1] = c[1] /\ t[2] = c[2] /\ t[3] = c[3] /\ t[4] = c[4]
    OBVIOUS
  <2> HIDE DEF t
  <2>2. \A a \in 1 .. 4 : a = 1 \/ a = 2 \/ a = 3 \/ a = 4
    OBVIOUS
  <2> QED
    BY <2>1, <2>2
<1> HIDE DEF t
<1>3. c = t
  BY <1>1, <1>2
<1> QED
  BY <1>3 DEF t

\* The loops over the output go over its coordinates, and each writes at its place.
LEMMA ShapesOfOutput ==
  ASSUME NEW o, NEW p, Shapes(o, p)
  PROVE  /\ o.outs[1].shape \in Seq(Int) /\ Len(o.outs[1].shape) = 4
         /\ p.batches = o.outs[1].shape[1] /\ p.out[1] = o.outs[1].shape[2]
         /\ p.out[2] = o.outs[1].shape[3] /\ p.outDepth = o.outs[1].shape[4]
         /\ p.batches \in Nat /\ p.out[1] \in Nat /\ p.out[2] \in Nat /\ p.outDepth \in Nat
<1> DEFINE r == o.outs[1].shape
<1>1. /\ r \in Seq(Int) /\ Len(r) = 4 /\ r[1] = o.ins[1].shape[1]
      /\ \A a \in 1 .. 4 : r[a] \in Nat
      /\ p.batches = o.ins[1].shape[1] /\ p.outDepth = r[4]
      /\ \A a \in Spatial : p.out[a] = r[a + 1]
  BY DEF Shapes
<1> HIDE DEF r
<1>2. r[1] \in Nat /\ r[2] \in Nat /\ r[3] \in Nat /\ r[4] \in Nat
  BY <1>1
<1>3. p.out[1] = r[1 + 1] /\ p.out[2] = r[2 + 1]
  BY <1>1 DEF Spatial
<1>4. p.out[1] = r[2] /\ p.out[2] = r[3]
  BY <1>3
<1> QED
  BY <1>1, <1>2, <1>4 DEF r

LEMMA OutputPlaces ==
  ASSUME NEW o, NEW p, Shapes(o, p), NEW c, Within(o.outs[1].shape, c)
  PROVE  c \in ConvOutputs(p) /\ OutputAt(p, c) = FlatIndex(o.outs[1].shape, c) /\ c[4] \in Int
<1> DEFINE r == o.outs[1].shape
<1>1. /\ r \in Seq(Int) /\ Len(r) = 4
      /\ p.batches = r[1] /\ p.out[1] = r[2] /\ p.out[2] = r[3] /\ p.outDepth = r[4]
  BY ShapesOfOutput
<1> HIDE DEF r
<1>2. c \in [1 .. 4 -> Int] /\ \A a \in 1 .. 4 : c[a] \in 0 .. r[a] - 1
  BY <1>1 DEF Within, r
<1>3. c[1] \in 0 .. r[1] - 1 /\ c[2] \in 0 .. r[2] - 1 /\ c[3] \in 0 .. r[3] - 1 /\ c[4] \in 0 .. r[4] - 1
  BY <1>2
<1>4. c \in ConvOutputs(p)
  <2> DEFINE t == <<c[1], c[2], c[3], c[4]>>
  <2>1. t \in (0 .. r[1] - 1) \X (0 .. r[2] - 1) \X (0 .. r[3] - 1) \X (0 .. r[4] - 1)
    BY <1>3
  <2>2. c = t
    BY <1>2, FourTuple
  <2> HIDE DEF t
  <2> QED
    BY <1>1, <2>1, <2>2 DEF ConvOutputs
<1>5. FlatIndex(r, c) = ((c[1] * r[2] + c[2]) * r[3] + c[3]) * r[4] + c[4]
  BY <1>1, <1>2, FlatOfFour
<1> QED
  BY <1>1, <1>2, <1>4, <1>5 DEF OutputAt, r

LEMMA OutputAtIsInjective ==
  ASSUME NEW o, NEW p, Shapes(o, p), NEW x \in ConvOutputs(p), NEW y \in ConvOutputs(p), OutputAt(p, x) = OutputAt(p, y)
  PROVE  x = y
<1>1. /\ p.out[1] \in Nat /\ p.out[2] \in Nat /\ p.outDepth \in Nat
  BY ShapesOfOutput
<1>2. \A z \in ConvOutputs(p) :
        /\ z[1] \in 0 .. p.batches - 1 /\ z[2] \in 0 .. p.out[1] - 1
        /\ z[3] \in 0 .. p.out[2] - 1 /\ z[4] \in 0 .. p.outDepth - 1
        /\ z = <<z[1], z[2], z[3], z[4]>>
  BY DEF ConvOutputs
<1>3. \A z \in ConvOutputs(p) : z[1] \in Int /\ z[2] \in Int /\ z[3] \in Int /\ z[4] \in Int
  BY <1>2
<1> DEFINE A == p.out[1]
           B == p.out[2]
           C == p.outDepth
           rx == x[1] * A + x[2]
           ry == y[1] * A + y[2]
           px == rx * B + x[3]
           py == ry * B + y[3]
<1>4. rx \in Int /\ ry \in Int /\ px \in Int /\ py \in Int
  BY <1>1, <1>3
<1>5. px * C + x[4] = py * C + y[4]
  BY DEF OutputAt
<1> HIDE DEF rx, ry, px, py
<1>6. px = py /\ x[4] = y[4]
  BY <1>1, <1>2, <1>4, <1>5, RowMajorIsInjective
<1>7. rx * B + x[3] = ry * B + y[3]
  BY <1>6 DEF px, py
<1>8. rx = ry /\ x[3] = y[3]
  BY <1>1, <1>2, <1>4, <1>7, RowMajorIsInjective
<1>9. x[1] * A + x[2] = y[1] * A + y[2]
  BY <1>8 DEF rx, ry
<1>10. x[1] = y[1] /\ x[2] = y[2]
  BY <1>1, <1>2, <1>3, <1>9, RowMajorIsInjective
<1> QED
  BY <1>2, <1>6, <1>8, <1>10

LEMMA ShapesOfInput ==
  ASSUME NEW o, NEW p, Shapes(o, p)
  PROVE  /\ o.ins[1].shape \in Seq(Int) /\ Len(o.ins[1].shape) = 4
         /\ o.ins[2].shape \in Seq(Int) /\ Len(o.ins[2].shape) = 4
         /\ \A a \in 1 .. 4 : o.ins[1].shape[a] \in Nat /\ o.ins[2].shape[a] \in Nat
         /\ p.inDepth = o.ins[1].shape[4] /\ p.inDepth \in Nat
         /\ p.filter[1] = o.ins[2].shape[2] /\ p.filter[2] = o.ins[2].shape[3]
         /\ p.filter[1] \in Nat /\ p.filter[2] \in Nat
         /\ \A a \in Spatial : /\ p.in[a] \in Nat /\ p.stride[a] \in Int /\ p.pad[a] \in Int
                             /\ p.dilation[a] = 1
<1> DEFINE s == o.ins[1].shape
           g == o.ins[2].shape
<1>1. /\ s \in Seq(Int) /\ Len(s) = 4 /\ g \in Seq(Int) /\ Len(g) = 4
      /\ \A a \in 1 .. 4 : s[a] \in Nat /\ g[a] \in Nat
      /\ p.inDepth = s[4]
      /\ \A a \in Spatial : /\ p.in[a] = s[a + 1] /\ p.filter[a] = g[a + 1]
                          /\ p.stride[a] \in Int /\ p.pad[a] \in Int /\ p.dilation[a] = 1
  BY DEF Shapes
<1> HIDE DEF s, g
<1>2. p.filter[1] = g[1 + 1] /\ p.filter[2] = g[2 + 1]
  BY <1>1 DEF Spatial
<1>3. \A a \in Spatial : a + 1 \in 1 .. 4
  BY DEF Spatial
<1>4. \A a \in Spatial : p.in[a] \in Nat
  BY <1>1, <1>3
<1>5. g[2] \in Nat /\ g[3] \in Nat /\ s[4] \in Nat
  BY <1>1
<1>6. p.filter[1] = g[2] /\ p.filter[2] = g[3]
  BY <1>2
<1> QED
  BY <1>1, <1>4, <1>5, <1>6 DEF s, g

LEMMA WindowFacts ==
  ASSUME NEW o, NEW p, Shapes(o, p), NEW x \in ConvOutputs(p), NEW f \in FilterInside(p, x)
  PROVE  /\ x[4] \in 0 .. p.outDepth - 1 /\ x[4] \in Int
         /\ f[1] \in Int /\ f[2] \in Int /\ PixelAt(p, x, f) \in Int
         /\ PlaceIn(f)[1] = f[1] /\ PlaceIn(f)[2] = f[2]
<1>1. p.outDepth \in Nat
  BY ShapesOfOutput
<1>2. x[1] \in Int /\ x[2] \in Int /\ x[3] \in Int /\ x[4] \in Int /\ x[4] \in 0 .. p.outDepth - 1
  BY DEF ConvOutputs
<1>3. f[1] \in 0 .. p.filter[1] - 1 /\ f[2] \in 0 .. p.filter[2] - 1
  BY DEF FilterInside
<1>4. f[1] \in Int /\ f[2] \in Int
  BY <1>3, ShapesOfInput
<1>5. /\ p.stride[1] \in Int /\ p.pad[1] \in Int /\ p.dilation[1] = 1 /\ p.in[1] \in Int
      /\ p.stride[2] \in Int /\ p.pad[2] \in Int /\ p.dilation[2] = 1 /\ p.in[2] \in Int
      /\ p.inDepth \in Int
  BY ShapesOfInput DEF Spatial
<1>6. InputAt(p, x, 1, f[1]) = x[2] * p.stride[1] - p.pad[1] + p.dilation[1] * f[1]
  BY DEF InputAt
<1>7. InputAt(p, x, 2, f[2]) = x[3] * p.stride[2] - p.pad[2] + p.dilation[2] * f[2]
  BY DEF InputAt
<1>8. InputAt(p, x, 1, f[1]) \in Int /\ InputAt(p, x, 2, f[2]) \in Int
  BY <1>2, <1>4, <1>5, <1>6, <1>7
<1>9. PixelAt(p, x, f) \in Int
  BY <1>2, <1>5, <1>8 DEF PixelAt
<1> QED
  BY <1>2, <1>4, <1>9 DEF PlaceIn

LEMMA FlatOfTuple ==
  ASSUME NEW g \in Seq(Int), Len(g) = 4, NEW i \in Int, NEW j \in Int, NEW k \in Int, NEW l \in Int
  PROVE  FlatIndex(g, <<i, j, k, l>>) = ((i * g[2] + j) * g[3] + k) * g[4] + l
<1> DEFINE v == <<i, j, k, l>>
<1>1. v \in [1 .. 4 -> Int] /\ v[1] = i /\ v[2] = j /\ v[3] = k /\ v[4] = l
  OBVIOUS
<1> HIDE DEF v
<1>2. FlatIndex(g, v) = ((v[1] * g[2] + v[2]) * g[3] + v[3]) * g[4] + v[4]
  BY <1>1, FlatOfFour
<1> QED
  BY <1>1, <1>2 DEF v

\* A pair of coordinates that the products are made of.
Tap(p, s, g, x, c, w) ==
  /\ Within(s, c) /\ Within(Area(g), w) /\ c[1] = x[1]
  /\ \A a \in Spatial : Under(p, x, a, c[a + 1], w[a])

\* A product of CONV_2D, and one of DEPTHWISE_CONV_2D.
ConvTap(p, s, g, x, t) ==
  \E c, w : /\ Tap(p, s, g, x, c, w)
            /\ (c[4] * (s[4] \div g[4])) \div s[4] = (x[4] * (s[4] \div g[4])) \div p.outDepth
            /\ t = <<FlatIndex(s, c), FlatIndex(g, <<x[4], w[1], w[2], c[4] % g[4]>>)>>

DepthwiseTap(p, s, g, x, t) ==
  \E c, w : /\ Tap(p, s, g, x, c, w) /\ c[4] = x[4]
            /\ t = <<FlatIndex(s, c), FlatIndex(g, <<0, w[1], w[2], x[4]>>)>>

LEMMA ProductsByTaps ==
  ASSUME NEW p, Shapes(op, p), NEW x, NEW t
  PROVE  /\ op.code = "CONV_2D" =>
              (t \in Products(p, op.ins[1], op.ins[2], x) <=> ConvTap(p, op.ins[1].shape, op.ins[2].shape, x, t))
         /\ op.code # "CONV_2D" =>
              (t \in Products(p, op.ins[1], op.ins[2], x) <=> DepthwiseTap(p, op.ins[1].shape, op.ins[2].shape, x, t))
<1> DEFINE s == op.ins[1].shape
           g == op.ins[2].shape
           groups == s[4] \div g[4]
           channel(c) == IF op.code = "CONV_2D"
                         THEN (c[4] * groups) \div s[4] = (x[4] * groups) \div p.outDepth
                         ELSE c[4] = x[4]
           weight(c, w) == IF op.code = "CONV_2D" THEN <<x[4], w[1], w[2], c[4] % g[4]>>
                           ELSE <<0, w[1], w[2], x[4]>>
           under(c, w) == \A a \in Spatial : Under(p, x, a, c[a + 1], w[a])
           all == {cw \in Coordinates(s) \X Coordinates(Area(g)) :
                     cw[1][1] = x[1] /\ channel(cw[1]) /\ under(cw[1], cw[2])}
           products == Products(p, op.ins[1], op.ins[2], x)
           pair(c, w) == <<FlatIndex(s, c), FlatIndex(g, weight(c, w))>>
<1>1. products = {pair(cw[1], cw[2]) : cw \in all}
  BY DEF Products, Under, Area
<1>2. \A c : c \in Coordinates(s) <=> Within(s, c)
  BY ShapesOfInput, CoordinatesAreWithin
<1>3. \A w : w \in Coordinates(Area(g)) <=> Within(Area(g), w)
  BY ShapesOfInput, AreaSizes, CoordinatesAreWithin
<1> HIDE DEF s, g, groups, channel, weight, under, pair, products
<1>4. \A c, w : <<c, w>> \in all <=>
        c \in Coordinates(s) /\ w \in Coordinates(Area(g)) /\ c[1] = x[1] /\ channel(c) /\ under(c, w)
  OBVIOUS
<1>5. \A cw \in all : cw = <<cw[1], cw[2]>>
  OBVIOUS
<1> HIDE DEF all
<1>6. \A c, w : <<c, w>> \in all <=> Tap(p, s, g, x, c, w) /\ channel(c)
  BY <1>2, <1>3, <1>4 DEF Tap, under
<1>7. t \in products <=> \E c, w : <<c, w>> \in all /\ t = pair(c, w)
  <2>1. ASSUME t \in products
        PROVE  \E c, w : <<c, w>> \in all /\ t = pair(c, w)
    <3>1. PICK cw \in all : t = pair(cw[1], cw[2])
      BY <1>1, <2>1
    <3> QED
      BY <1>5, <3>1
  <2>2. ASSUME NEW c, NEW w, <<c, w>> \in all, t = pair(c, w)
        PROVE  t \in products
    <3> DEFINE cw == <<c, w>>
    <3>1. cw[1] = c /\ cw[2] = w /\ cw \in all
      BY <2>2
    <3> HIDE DEF cw
    <3> QED
      BY <1>1, <2>2, <3>1
  <2> QED
    BY <2>1, <2>2
<1>8. t \in products <=> \E c, w : Tap(p, s, g, x, c, w) /\ channel(c) /\ t = pair(c, w)
  BY <1>6, <1>7
<1>9. CASE op.code = "CONV_2D"
  <2>1. \A c, w : channel(c) /\ t = pair(c, w) <=>
          /\ (c[4] * groups) \div s[4] = (x[4] * groups) \div p.outDepth
          /\ t = <<FlatIndex(s, c), FlatIndex(g, <<x[4], w[1], w[2], c[4] % g[4]>>)>>
    BY <1>9 DEF channel, pair, weight
  <2>2. t \in products <=>
          \E c, w : /\ Tap(p, s, g, x, c, w)
                    /\ (c[4] * groups) \div s[4] = (x[4] * groups) \div p.outDepth
                    /\ t = <<FlatIndex(s, c), FlatIndex(g, <<x[4], w[1], w[2], c[4] % g[4]>>)>>
    BY <1>8, <2>1
  <2> QED
    BY <1>9, <2>2 DEF products, s, g, groups, ConvTap
<1>10. CASE op.code # "CONV_2D"
  <2>1. \A c, w : channel(c) /\ t = pair(c, w) <=>
          c[4] = x[4] /\ t = <<FlatIndex(s, c), FlatIndex(g, <<0, w[1], w[2], x[4]>>)>>
    BY <1>10 DEF channel, pair, weight
  <2>2. t \in products <=>
          \E c, w : /\ Tap(p, s, g, x, c, w) /\ c[4] = x[4]
                    /\ t = <<FlatIndex(s, c), FlatIndex(g, <<0, w[1], w[2], x[4]>>)>>
    BY <1>8, <2>1
  <2> QED
    BY <1>10, <2>2 DEF products, s, g, groups, DepthwiseTap
<1> QED
  BY <1>9, <1>10

\* The products of an output of CONV_2D, by coordinates.
LEMMA ConvTaps ==
  ASSUME op.code = "CONV_2D", NEW p, Shapes(op, p),
         p.filterInDepth = op.ins[2].shape[4], p.filterInDepth > 0,
         p.filtersPerGroup \in Nat, p.filtersPerGroup > 0, NEW groups \in Nat, groups > 0,
         p.outDepth = groups * p.filtersPerGroup, p.inDepth = groups * p.filterInDepth,
         NEW x \in ConvOutputs(p)
  PROVE  UNION {ConvProducts(p, x, f) : f \in FilterInside(p, x)} = Products(p, op.ins[1], op.ins[2], x)
<1> DEFINE s == op.ins[1].shape
           g == op.ins[2].shape
           e == p.filterInDepth
           h == x[4] \div p.filtersPerGroup
           base(f) == ((x[4] * p.filter[1] + f[1]) * p.filter[2] + f[2]) * e
           products == Products(p, op.ins[1], op.ins[2], x)
           inner(f) == PixelAt(p, x, f) + h * e
<1>1. /\ s \in Seq(Int) /\ Len(s) = 4 /\ g \in Seq(Int) /\ Len(g) = 4
      /\ p.inDepth = s[4] /\ p.filter[1] = g[2] /\ p.filter[2] = g[3]
      /\ p.filter[1] \in Nat /\ p.filter[2] \in Nat /\ s[4] \in Nat
  BY ShapesOfInput
<1>2. e = g[4] /\ e \in Nat /\ e > 0
  BY ShapesOfInput
<1>3. p.outDepth \in Nat /\ x[4] \in 0 .. p.outDepth - 1 /\ x[4] \in Int
  BY ShapesOfOutput DEF ConvOutputs
<1>4. h \in 0 .. groups - 1
  BY <1>3, QuotientBelow
<1>5. s[4] \div g[4] = groups
  <2>1. groups \in Int
    OBVIOUS
  <2>2. (groups * e) \div e = groups
    BY <1>2, <2>1, QuotientExact
  <2> QED
    BY <1>1, <1>2, <2>2
<1>6. (x[4] * groups) \div p.outDepth = h
  BY <1>3, QuotientScaled
<1>7. ASSUME NEW k \in Int
      PROVE  (k * groups) \div s[4] = k \div e
  <2>1. s[4] = groups * e
    BY <1>1
  <2> HIDE DEF e
  <2> QED
    BY <1>2, <2>1, QuotientScaled
<1>8. ASSUME NEW t
      PROVE  t \in products <=>
               \E c, w : /\ Tap(p, s, g, x, c, w)
                         /\ (c[4] * groups) \div s[4] = h
                         /\ t = <<FlatIndex(s, c), FlatIndex(g, <<x[4], w[1], w[2], c[4] % e>>)>>
  <2>1. t \in products <=> ConvTap(p, s, g, x, t)
    BY ProductsByTaps
  <2> HIDE DEF products, s, g, h, e
  <2> QED
    BY <1>2, <1>5, <1>6, <2>1 DEF ConvTap
<1>9. \A f : ConvProducts(p, x, f) = {<<inner(f) + n, base(f) + n>> : n \in 0 .. e - 1}
  BY DEF ConvProducts
<1>10. ASSUME NEW f \in FilterInside(p, x), NEW m \in Int
       PROVE  FlatIndex(g, <<x[4], f[1], f[2], m>>) = base(f) + m
  <2>1. f[1] \in Int /\ f[2] \in Int
    BY WindowFacts
  <2> HIDE DEF g
  <2>2. FlatIndex(g, <<x[4], f[1], f[2], m>>) = ((x[4] * g[2] + f[1]) * g[3] + f[2]) * g[4] + m
    <3> DEFINE i == x[4]
               j == f[1]
               k == f[2]
    <3>1. g \in Seq(Int) /\ Len(g) = 4 /\ i \in Int /\ j \in Int /\ k \in Int
      BY <1>1, <1>3, <2>1
    <3> HIDE DEF i, j, k
    <3>2. FlatIndex(g, <<i, j, k, m>>) = ((i * g[2] + j) * g[3] + k) * g[4] + m
      BY <3>1, FlatOfTuple
    <3> QED
      BY <3>2 DEF i, j, k
  <2> QED
    BY <1>1, <1>2, <2>2
<1> HIDE DEF products, base, inner, s, g, e, h
<1>11. ASSUME NEW f \in FilterInside(p, x), NEW n \in 0 .. e - 1
       PROVE  <<inner(f) + n, base(f) + n>> \in products
  <2> DEFINE k == h * e + n
             c == TapAt(p, x, f, k)
             w == PlaceIn(f)
  <2>1. k \in 0 .. p.inDepth - 1 /\ k \in Int /\ h * e \in Int
    BY <1>2, <1>4, RowMajor DEF e
  <2>2. k \div e = h /\ k % e = n
    <3>1. h \in Int
      BY <1>4
    <3> QED
      BY <1>2, <3>1, QuotientAndRest, Zenon
  <2> HIDE DEF k
  <2>3. /\ Within(s, c) /\ Within(Area(g), w)
        /\ FlatIndex(s, c) = PixelAt(p, x, f) + k /\ c[1] = x[1] /\ c[4] = k
        /\ \A a \in Spatial : Under(p, x, a, c[a + 1], w[a])
    BY <2>1, WindowToTap DEF s, g
  <2>4. w[1] = f[1] /\ w[2] = f[2] /\ PixelAt(p, x, f) \in Int
    BY WindowFacts
  <2> HIDE DEF c, w
  <2>5. Tap(p, s, g, x, c, w)
    BY <2>3 DEF Tap
  <2>6. (c[4] * groups) \div s[4] = h /\ c[4] % e = n
    BY <1>7, <2>1, <2>2, <2>3
  <2>7. FlatIndex(g, <<x[4], w[1], w[2], c[4] % e>>) = base(f) + n
    BY <1>10, <2>4, <2>6
  <2>8. FlatIndex(s, c) = inner(f) + n
    <3>1. n \in Int /\ k = h * e + n
      BY DEF k
    <3> QED
      BY <2>1, <2>3, <2>4, <3>1 DEF inner
  <2> QED
    BY <1>8, <2>5, <2>6, <2>7, <2>8
<1>12. ASSUME NEW t \in products
       PROVE  \E f \in FilterInside(p, x) : \E n \in 0 .. e - 1 : t = <<inner(f) + n, base(f) + n>>
  <2>1. PICK c, w : /\ Tap(p, s, g, x, c, w)
                    /\ (c[4] * groups) \div s[4] = h
                    /\ t = <<FlatIndex(s, c), FlatIndex(g, <<x[4], w[1], w[2], c[4] % e>>)>>
    BY <1>8
  <2> DEFINE f == <<w[1], w[2]>>
             k == c[4]
             n == k % e
  <2>2. /\ f \in FilterInside(p, x) /\ k \in 0 .. p.inDepth - 1
        /\ FlatIndex(s, c) = PixelAt(p, x, f) + k
    BY <2>1, TapToWindow DEF Tap, s, g
  <2>3. f[1] = w[1] /\ f[2] = w[2]
    OBVIOUS
  <2>4. t = <<FlatIndex(s, c), FlatIndex(g, <<x[4], f[1], f[2], n>>)>>
    BY <2>1
  <2>5. (k * groups) \div s[4] = h
    BY <2>1
  <2> HIDE DEF f, k
  <2>6. k \in Int
    BY <2>2, ShapesOfInput
  <2>7. k \div e = h
    BY <1>7, <2>5, <2>6
  <2>8. n \in 0 .. e - 1 /\ k = e * h + n
    BY <1>2, <2>6, <2>7, Division
  <2> HIDE DEF n
  <2>9. n \in Int /\ h \in Int /\ e \in Int
    BY <1>2, <1>4, <2>8
  <2>10. PixelAt(p, x, f) \in Int
    BY <2>2, WindowFacts
  <2>11. FlatIndex(s, c) = inner(f) + n
    <3>1. e * h = h * e /\ h * e \in Int
      BY <2>9
    <3> QED
      BY <2>2, <2>8, <2>9, <2>10, <3>1 DEF inner
  <2>12. FlatIndex(g, <<x[4], f[1], f[2], n>>) = base(f) + n
    BY <1>10, <2>2, <2>9
  <2>13. t = <<inner(f) + n, base(f) + n>>
    BY <2>4, <2>11, <2>12
  <2> QED
    BY <2>2, <2>8, <2>13
<1>13. \A t : t \in UNION {ConvProducts(p, x, f) : f \in FilterInside(p, x)} <=>
         \E f \in FilterInside(p, x) : \E n \in 0 .. e - 1 : t = <<inner(f) + n, base(f) + n>>
  BY <1>9
<1>14. \A t : t \in UNION {ConvProducts(p, x, f) : f \in FilterInside(p, x)} <=> t \in products
  BY <1>11, <1>12, <1>13
<1> QED
  BY <1>14 DEF products

\* The products of an output of DEPTHWISE_CONV_2D, by coordinates.
LEMMA DepthwiseTaps ==
  ASSUME op.code = "DEPTHWISE_CONV_2D", NEW p, Shapes(op, p), p.multiplier = 1,
         p.outDepth = op.ins[2].shape[4], p.outDepth = p.inDepth, NEW x \in ConvOutputs(p)
  PROVE  {DepthwiseProduct(p, x, f) : f \in FilterInside(p, x)} = Products(p, op.ins[1], op.ins[2], x)
<1> DEFINE s == op.ins[1].shape
           g == op.ins[2].shape
           products == Products(p, op.ins[1], op.ins[2], x)
           pair(f) == <<PixelAt(p, x, f) + x[4], (f[1] * p.filter[2] + f[2]) * p.outDepth + x[4]>>
<1>1. /\ g \in Seq(Int) /\ Len(g) = 4 /\ p.filter[1] = g[2] /\ p.filter[2] = g[3]
      /\ p.filter[1] \in Nat /\ p.filter[2] \in Nat
  BY ShapesOfInput
<1>2. p.outDepth \in Nat /\ x[4] \in 0 .. p.outDepth - 1 /\ x[4] \in Int
  BY ShapesOfOutput DEF ConvOutputs
<1>3. x[4] \div 1 = x[4]
  BY <1>2
<1>4. \A f : DepthwiseProduct(p, x, f) = pair(f)
  BY <1>3 DEF DepthwiseProduct
<1>5. ASSUME NEW t
      PROVE  t \in products <=> DepthwiseTap(p, s, g, x, t)
  BY ProductsByTaps
<1>6. ASSUME NEW f \in FilterInside(p, x)
      PROVE  FlatIndex(g, <<0, f[1], f[2], x[4]>>) = (f[1] * p.filter[2] + f[2]) * p.outDepth + x[4]
  <2>1. f[1] \in Int /\ f[2] \in Int /\ 0 \in Int
    BY WindowFacts
  <2>2. p.outDepth = g[4]
    OBVIOUS
  <2> HIDE DEF g
  <2>3. FlatIndex(g, <<0, f[1], f[2], x[4]>>) = ((0 * g[2] + f[1]) * g[3] + f[2]) * g[4] + x[4]
    BY <1>1, <1>2, <2>1, FlatOfTuple
  <2>4. 0 * g[2] + f[1] = f[1]
    BY <1>1, <2>1
  <2> QED
    BY <1>1, <2>2, <2>3, <2>4
<1> HIDE DEF products, s, g
<1>7. ASSUME NEW f \in FilterInside(p, x)
      PROVE  pair(f) \in products
  <2> DEFINE c == TapAt(p, x, f, x[4])
             w == PlaceIn(f)
  <2>1. /\ Within(s, c) /\ Within(Area(g), w)
        /\ FlatIndex(s, c) = PixelAt(p, x, f) + x[4] /\ c[1] = x[1] /\ c[4] = x[4]
        /\ \A a \in Spatial : Under(p, x, a, c[a + 1], w[a])
    <3>1. x[4] \in 0 .. p.inDepth - 1
      BY <1>2
    <3> QED
      BY <3>1, WindowToTap DEF s, g
  <2>2. w[1] = f[1] /\ w[2] = f[2]
    BY WindowFacts
  <2> HIDE DEF c, w
  <2>3. Tap(p, s, g, x, c, w)
    BY <2>1 DEF Tap
  <2>4. pair(f) = <<FlatIndex(s, c), FlatIndex(g, <<0, w[1], w[2], x[4]>>)>>
    BY <1>6, <2>1, <2>2
  <2> HIDE DEF pair
  <2>5. DepthwiseTap(p, s, g, x, pair(f))
    BY <2>1, <2>3, <2>4 DEF DepthwiseTap
  <2> QED
    BY <1>5, <2>5
<1>8. ASSUME NEW t \in products
      PROVE  \E f \in FilterInside(p, x) : t = pair(f)
  <2>1. PICK c, w : /\ Tap(p, s, g, x, c, w) /\ c[4] = x[4]
                    /\ t = <<FlatIndex(s, c), FlatIndex(g, <<0, w[1], w[2], x[4]>>)>>
    BY <1>5 DEF DepthwiseTap
  <2> DEFINE f == <<w[1], w[2]>>
  <2>2. f \in FilterInside(p, x) /\ FlatIndex(s, c) = PixelAt(p, x, f) + c[4]
    BY <2>1, TapToWindow DEF Tap, s, g
  <2>3. f[1] = w[1] /\ f[2] = w[2]
    OBVIOUS
  <2>4. t = <<FlatIndex(s, c), FlatIndex(g, <<0, f[1], f[2], x[4]>>)>>
    BY <2>1
  <2> HIDE DEF f
  <2>5. t = pair(f)
    BY <1>6, <2>1, <2>2, <2>4
  <2> QED
    BY <2>2, <2>5
<1> HIDE DEF pair
<1>9. \A t : t \in {DepthwiseProduct(p, x, f) : f \in FilterInside(p, x)} <=> t \in products
  BY <1>4, <1>7, <1>8
<1> QED
  BY <1>9 DEF products

-----------------------------------------------------------------------------
(* What the kernels write, and with which scales.                           *)

\* What is written at its place is nothing else.
OnlyThere(writes, w) == w \in writes /\ \A v \in writes : v.at = w.at => v.value = w.value

LEMMA WrittenAt ==
  ASSUME NEW writes, NEW in, NEW filter, NEW bias, NEW out, NumElements(out) \in Nat,
         Written(writes, in, filter, bias, out).kind = "ok",
         NEW w, OnlyThere(writes, w)
  PROVE  Written(writes, in, filter, bias, out).outs[1][w.at + 1] = {w.value}
<1> DEFINE N == NumElements(out)
           elements == [n \in 1 .. N |-> {x.value : x \in {v \in writes : v.at = n - 1}}]
           r == Written(writes, in, filter, bias, out)
           inside == \A v \in writes :
                       /\ v.at \in 0 .. N - 1
                       /\ v.value.bias \in 0 .. NumElements(bias) - 1
                       /\ \A t \in v.value.taps : t[1] \in 0 .. NumElements(in) - 1 /\ t[2] \in 0 .. NumElements(filter) - 1
<1>1. r = IF inside THEN Wrote(<<elements>>) ELSE Panic
  BY DEF Written
<1> HIDE DEF elements, inside, r
<1>2. inside /\ r = Wrote(<<elements>>)
  <2>1. r.kind = "ok"
    BY DEF r
  <2> QED
    BY <1>1, <2>1 DEF Panic
<1>3. r.outs[1] = elements
  BY <1>2 DEF Wrote
<1>4. w.at \in 0 .. N - 1
  BY <1>2 DEF inside, OnlyThere
<1> HIDE DEF N
<1>5. w.at + 1 \in 1 .. N /\ (w.at + 1) - 1 = w.at
  BY <1>4 DEF N
<1>6. elements[w.at + 1] = {x.value : x \in {v \in writes : v.at = w.at}}
  BY <1>5 DEF elements
<1>7. {x.value : x \in {v \in writes : v.at = w.at}} = {w.value}
  BY DEF OnlyThere
<1> QED
  BY <1>3, <1>6, <1>7 DEF r

\* The writes of a convolution's loops, of the values T, and what they leave.
LoopWrites(p, T) == {Write(OutputAt(p, x), T[x]) : x \in ConvOutputs(p)}

Looped(o, p, T) == Written(LoopWrites(p, T), o.ins[1], o.ins[2], o.ins[3], o.outs[1])

\* The output's element at a flat index.
Element(r, at) == r.outs[1][at + 1]

LEMMA ConvWritten ==
  ASSUME NEW o, NEW p, Shapes(o, p), NumElements(o.outs[1]) \in Nat, NEW T,
         Looped(o, p, T).kind = "ok", NEW c, Within(o.outs[1].shape, c)
  PROVE  Element(Looped(o, p, T), FlatIndex(o.outs[1].shape, c)) = {T[c]}
<1> DEFINE w == Write(OutputAt(p, c), T[c])
<1>1. c \in ConvOutputs(p) /\ OutputAt(p, c) = FlatIndex(o.outs[1].shape, c)
  BY OutputPlaces
<1>2. w \in LoopWrites(p, T) /\ w.at = OutputAt(p, c) /\ w.value = T[c]
  BY <1>1 DEF Write, LoopWrites
<1> HIDE DEF w
<1>3. ASSUME NEW v \in LoopWrites(p, T), v.at = w.at
      PROVE  v.value = w.value
  <2>1. PICK x \in ConvOutputs(p) : v = Write(OutputAt(p, x), T[x])
    BY DEF LoopWrites
  <2>2. v.at = OutputAt(p, x) /\ v.value = T[x]
    BY <2>1 DEF Write
  <2>3. x = c
    BY <1>1, <1>2, <1>3, <2>2, OutputAtIsInjective
  <2> QED
    BY <1>2, <2>2, <2>3
<1>4. OnlyThere(LoopWrites(p, T), w)
  BY <1>2, <1>3 DEF OnlyThere
<1>5. Element(Looped(o, p, T), w.at) = {w.value}
  BY <1>4, WrittenAt DEF Element, Looped
<1> QED
  BY <1>1, <1>2, <1>5

LEMMA FinishedScales ==
  ASSUME NEW o, NEW p, finishConvParams(o, p).kind = "ok"
  PROVE  finishConvParams(o, p).params =
           [p EXCEPT !.scales = perChannelMultipliers(o.ins[1], o.ins[2], o.outs[1], p.outDepth)]
<1> DEFINE r == finishConvParams(o, p)
           check == checkBias(o.ins[3], o.ins[1], o.ins[2], o.outs[1], p.outDepth)
           scaled == [p EXCEPT !.scales = perChannelMultipliers(o.ins[1], o.ins[2], o.outs[1], p.outDepth)]
<1>1. r = IF o.ins[2].quant.zeroPoints[1] # 0 THEN Error
          ELSE IF check.kind # "ok" THEN check
          ELSE Ready(scaled)
  BY DEF finishConvParams
<1>2. r.kind = "ok"
  OBVIOUS
<1> HIDE DEF r, check, scaled
<1>3. r = Ready(scaled)
  BY <1>1, <1>2 DEF Error
<1>4. r.params = scaled
  BY <1>3 DEF Ready
<1> QED
  BY <1>4 DEF r, scaled

\* The requantization of each channel.
ScaledBy(o, p) == p.scales = perChannelMultipliers(o.ins[1], o.ins[2], o.outs[1], p.outDepth)

LEMMA ConvScales ==
  ASSUME NEW o, prepareConv(o).kind = "ok"
  PROVE  /\ ScaledBy(o, prepareConv(o).params)
         /\ prepareConv(o).params.filterInDepth = o.ins[2].shape[4]
<1> DEFINE n == o.ins[2].shape[1]
           d == o.ins[1].shape[4]
           e == o.ins[2].shape[4]
           k == n \div (d \div e)
           p == [convGeometry(o, n) EXCEPT !.filterInDepth = e, !.filtersPerGroup = k]
           sc == perChannelMultipliers(o.ins[1], o.ins[2], o.outs[1], n)
           r == finishConvParams(o, p)
<1>1. prepareConv(o) =
        IF ~GeometryOK(o, n) \/ e = 0 \/ d % e # 0 THEN Error
        ELSE IF d \div e = 0 THEN Panic
        ELSE IF n % (d \div e) # 0 \/ ~FilterScalesOK(o.ins[2], 0, n) THEN Error
        ELSE r
  BY DEF prepareConv
<1>2. p.outDepth = n /\ [p EXCEPT !.scales = sc].scales = sc /\ [p EXCEPT !.scales = sc].filterInDepth = e
      /\ [p EXCEPT !.scales = sc].outDepth = n
  BY DEF convGeometry
<1> HIDE DEF r, p, e, d, n, k
<1>3. prepareConv(o) = r
  BY <1>1 DEF Error, Panic
<1>4. r.params = [p EXCEPT !.scales = sc]
  BY <1>2, <1>3, FinishedScales DEF r
<1> QED
  BY <1>2, <1>3, <1>4 DEF ScaledBy, n, e

LEMMA DepthwiseScales ==
  ASSUME NEW o, prepareDepthwiseConv(o).kind = "ok"
  PROVE  /\ ScaledBy(o, prepareDepthwiseConv(o).params)
         /\ prepareDepthwiseConv(o).params.multiplier = o.opt.multiplier
         /\ prepareDepthwiseConv(o).params.outDepth = o.ins[2].shape[4]
<1> DEFINE n == o.ins[2].shape[4]
           m == o.opt.multiplier
           p == [convGeometry(o, n) EXCEPT !.multiplier = m]
           sc == perChannelMultipliers(o.ins[1], o.ins[2], o.outs[1], n)
           r == finishConvParams(o, p)
<1>1. prepareDepthwiseConv(o) =
        IF GeometryOK(o, n) /\ m >= 1 /\ n = o.ins[1].shape[4] * m /\ FilterScalesOK(o.ins[2], 3, n)
        THEN r ELSE Error
  BY DEF prepareDepthwiseConv
<1>2. p.outDepth = n /\ [p EXCEPT !.scales = sc].scales = sc /\ [p EXCEPT !.scales = sc].multiplier = m
      /\ [p EXCEPT !.scales = sc].outDepth = n
  BY DEF convGeometry
<1> HIDE DEF r, p, m, n
<1>3. prepareDepthwiseConv(o) = r
  BY <1>1 DEF Error
<1>4. r.params = [p EXCEPT !.scales = sc]
  BY <1>2, <1>3, FinishedScales DEF r
<1> QED
  BY <1>2, <1>3, <1>4 DEF ScaledBy, n, m

LEMMA ScaleOfChannel ==
  ASSUME NEW o, NEW p, ScaledBy(o, p), NEW k \in 0 .. p.outDepth - 1
  PROVE  p.scales[k] = ScalesOf(o, k)
BY DEF ScaledBy, perChannelMultipliers, ScalesOf

-----------------------------------------------------------------------------
(* The meaning of each kernel's output. *)

\* Of a convolution: at every coordinate of the output, one value.
ConvMeans(p, r) ==
  \A c : Within(op.outs[1].shape, c) =>
    Element(r, FlatIndex(op.outs[1].shape, c)) =
      {Value(Products(p, op.ins[1], op.ins[2], c), c[4], ScalesOf(op, c[4]))}

LEMMA ConvMultiplies ==
  ASSUME op \in OperatorsOf("CONV_2D"), Loaded(op), prepareConv(op).kind = "ok",
         NEW p, p = prepareConv(op).params, conv2D(op, p).kind = "ok"
  PROVE  ConvMeans(p, conv2D(op, p))
<1> DEFINE taps(x) == UNION {ConvProducts(p, x, f) : f \in FilterInside(p, x)}
           T == [x \in ConvOutputs(p) |-> Value(taps(x), x[4], p.scales[x[4]])]
<1>1. op.code = "CONV_2D" /\ "CONV_2D" \in Convolutions
  BY DEF OperatorsOf, Convolutions
<1>2. PICK outDepth : GeometryOK(op, outDepth) /\ SameGeometry(p, convGeometry(op, outDepth)) /\ Grouped(op, p)
  BY ConvPrepared
<1>3. Shapes(op, p)
  BY <1>1, <1>2, ConvShapes
<1>4. ScaledBy(op, p) /\ p.filterInDepth = op.ins[2].shape[4]
  BY ConvScales
<1>5. NumElements(op.outs[1]) \in Nat
  BY <1>1, ConvOperands, TensorFacts
<1>6. conv2D(op, p) = Looped(op, p, T)
  <2>1. LoopWrites(p, T) = {Write(OutputAt(p, x), Value(taps(x), x[4], p.scales[x[4]])) : x \in ConvOutputs(p)}
    BY DEF LoopWrites
  <2> QED
    BY <2>1 DEF conv2D, Looped
<1> HIDE DEF T
<1>7. ASSUME NEW c, Within(op.outs[1].shape, c)
      PROVE  T[c] = Value(Products(p, op.ins[1], op.ins[2], c), c[4], ScalesOf(op, c[4]))
  <2>1. c \in ConvOutputs(p)
    BY <1>3, <1>7, OutputPlaces
  <2>2. T[c] = Value(taps(c), c[4], p.scales[c[4]])
    BY <2>1 DEF T
  <2>3. c[4] \in 0 .. p.outDepth - 1 /\ p.outDepth \in Nat
    BY <1>3, <2>1, ShapesOfOutput DEF ConvOutputs
  <2>4. p.scales[c[4]] = ScalesOf(op, c[4])
    BY <1>4, <2>3, ScaleOfChannel
  <2>5. /\ p.filterInDepth \in Nat /\ p.filterInDepth > 0
        /\ p.filtersPerGroup \in Nat /\ p.filtersPerGroup > 0
    BY <1>2 DEF Grouped
  <2>6. PICK groups \in Nat : p.outDepth = groups * p.filtersPerGroup /\ p.inDepth = groups * p.filterInDepth
    BY <1>2 DEF Grouped
  <2>7. groups > 0
    BY <2>3, <2>5, <2>6
  <2>8. taps(c) = Products(p, op.ins[1], op.ins[2], c)
    BY <1>1, <1>3, <1>4, <2>1, <2>5, <2>6, <2>7, ConvTaps
  <2> QED
    BY <2>2, <2>4, <2>8
<1>8. ASSUME NEW c, Within(op.outs[1].shape, c)
      PROVE  Element(conv2D(op, p), FlatIndex(op.outs[1].shape, c)) = {T[c]}
  <2>1. Looped(op, p, T).kind = "ok"
    BY <1>6
  <2>2. Element(Looped(op, p, T), FlatIndex(op.outs[1].shape, c)) = {T[c]}
    BY <1>3, <1>5, <1>8, <2>1, ConvWritten
  <2> QED
    BY <1>6, <2>2
<1> QED
  BY <1>7, <1>8 DEF ConvMeans

LEMMA DepthwiseMultiplies ==
  ASSUME op \in OperatorsOf("DEPTHWISE_CONV_2D"), Loaded(op), prepareDepthwiseConv(op).kind = "ok",
         NEW p, p = prepareDepthwiseConv(op).params, depthwiseConv2D(op, p).kind = "ok"
  PROVE  ConvMeans(p, depthwiseConv2D(op, p))
<1> DEFINE taps(x) == {DepthwiseProduct(p, x, f) : f \in FilterInside(p, x)}
           T == [x \in ConvOutputs(p) |-> Value(taps(x), x[4], p.scales[x[4]])]
<1>1. op.code = "DEPTHWISE_CONV_2D" /\ "DEPTHWISE_CONV_2D" \in Convolutions
  BY DEF OperatorsOf, Convolutions
<1>2. PICK outDepth : GeometryOK(op, outDepth) /\ SameGeometry(p, convGeometry(op, outDepth)) /\ Spreads(op, p)
  BY DepthwisePrepared
<1>3. Shapes(op, p)
  BY <1>1, <1>2, ConvShapes
<1>4. ScaledBy(op, p) /\ p.multiplier = op.opt.multiplier /\ p.outDepth = op.ins[2].shape[4]
  BY DepthwiseScales
<1>5. NumElements(op.outs[1]) \in Nat /\ op.opt.multiplier = 1
  <2>1. op.outs[1] \in TensorInfo /\ TensorOK(op.outs[1]) /\ ConvRule(op)
    BY <1>1, ConvOperands
  <2> QED
    BY <1>1, <2>1, TensorFacts DEF ConvRule
<1>6. depthwiseConv2D(op, p) = Looped(op, p, T)
  <2>1. LoopWrites(p, T) = {Write(OutputAt(p, x), Value(taps(x), x[4], p.scales[x[4]])) : x \in ConvOutputs(p)}
    BY DEF LoopWrites
  <2> QED
    BY <2>1 DEF depthwiseConv2D, Looped
<1> HIDE DEF T
<1>7. ASSUME NEW c, Within(op.outs[1].shape, c)
      PROVE  T[c] = Value(Products(p, op.ins[1], op.ins[2], c), c[4], ScalesOf(op, c[4]))
  <2>1. c \in ConvOutputs(p)
    BY <1>3, <1>7, OutputPlaces
  <2>2. T[c] = Value(taps(c), c[4], p.scales[c[4]])
    BY <2>1 DEF T
  <2>3. c[4] \in 0 .. p.outDepth - 1
    BY <2>1 DEF ConvOutputs
  <2>4. p.scales[c[4]] = ScalesOf(op, c[4])
    BY <1>4, <2>3, ScaleOfChannel
  <2>5. p.outDepth = p.inDepth
    <3>1. p.inDepth \in Nat /\ p.outDepth = p.inDepth * p.multiplier
      BY <1>2, <1>3, ShapesOfInput DEF Spreads
    <3> QED
      BY <1>4, <1>5, <3>1
  <2>6. taps(c) = Products(p, op.ins[1], op.ins[2], c)
    BY <1>1, <1>3, <1>4, <1>5, <2>1, <2>5, DepthwiseTaps
  <2> QED
    BY <2>2, <2>4, <2>6
<1>8. ASSUME NEW c, Within(op.outs[1].shape, c)
      PROVE  Element(depthwiseConv2D(op, p), FlatIndex(op.outs[1].shape, c)) = {T[c]}
  <2>1. Looped(op, p, T).kind = "ok"
    BY <1>6
  <2>2. Element(Looped(op, p, T), FlatIndex(op.outs[1].shape, c)) = {T[c]}
    BY <1>3, <1>5, <1>8, <2>1, ConvWritten
  <2> QED
    BY <1>6, <2>2
<1> QED
  BY <1>7, <1>8 DEF ConvMeans

LEMMA FullyConnectedParams ==
  ASSUME NEW o \in OperatorsOf("FULLY_CONNECTED"), Loaded(o), prepareFullyConnected(o).kind = "ok",
         NEW p, p = prepareFullyConnected(o).params
  PROVE  /\ p.batches \in Int /\ p.outputDepth \in Nat /\ p.accumDepth \in Nat
         /\ o.ins[2].shape \in Seq(Int) /\ Len(o.ins[2].shape) = 2 /\ p.accumDepth = o.ins[2].shape[2]
         /\ NumElements(o.outs[1]) \in Nat
         /\ \A k : p.scales = ScalesOf(o, k)
<1> DEFINE in == o.ins[1]
           filter == o.ins[2]
           out == o.outs[1]
           nd == rank(out)
           D == out.shape[nd]
           A == filter.shape[rank(filter)]
           B == NumElements(out) \div D
           check == checkBias(o.ins[3], in, filter, out, D)
           sc == <<in.quant.scales[1], filter.quant.scales[1], out.quant.scales[1]>>
           q == [batches |-> B, outputDepth |-> D, accumDepth |-> A, scales |-> sc]
<1>1. FullyConnectedRule(o)
  BY DEF OperatorsOf, Loaded, validateOperator
<1>2. Len(o.ins) = 3 /\ Len(o.outs) = 1 /\ rank(filter) = 2 /\ ~PerChannel(filter)
  BY <1>1 DEF FullyConnectedRule, MacTensorsOK
<1>3. filter \in TensorInfo /\ TensorOK(filter) /\ out \in TensorInfo /\ TensorOK(out)
  BY <1>2, Operands
<1>4. /\ filter.shape \in Seq(Int) /\ Len(filter.shape) = 2 /\ A = filter.shape[2] /\ A \in Nat
  <2>1. /\ filter.shape \in Seq(Int) /\ rank(filter) = Len(filter.shape)
        /\ \A a \in 1 .. rank(filter) : filter.shape[a] \in Nat
    BY <1>3, TensorFacts
  <2>2. A = filter.shape[2]
    BY <1>2
  <2> HIDE DEF filter, A
  <2>3. \A a \in 1 .. 2 : filter.shape[a] \in Nat
    BY <1>2, <2>1
  <2>4. filter.shape[2] \in Nat
    BY <2>3
  <2> QED
    BY <1>2, <2>1, <2>2, <2>4
<1>5. nd \in Nat /\ NumElements(out) \in Nat /\ \A a \in 1 .. nd : out.shape[a] \in Nat
  BY <1>3, TensorFacts
<1>6. prepareFullyConnected(o) =
         IF \/ rank(filter) < 2 \/ nd < 1 \/ PerChannel(filter)
            \/ D = 0 \/ D > filter.shape[rank(filter) - 1]
            \/ NumElements(in) # B * A
         THEN Error
         ELSE IF check.kind # "ok" THEN check ELSE Ready(q)
  BY DEF prepareFullyConnected
<1>7. q.batches = B /\ q.outputDepth = D /\ q.accumDepth = A /\ q.scales = sc
  OBVIOUS
<1> HIDE DEF q, check, sc, B, D, A
<1>8. prepareFullyConnected(o) = Ready(q) /\ ~(nd < 1) /\ D # 0
  BY <1>6 DEF Error
<1>9. p = q
  BY <1>8 DEF Ready
<1>10. D \in Nat /\ D > 0
  <2>1. nd \in 1 .. nd
    BY <1>5, <1>8
  <2>2. D \in Nat
    BY <1>5, <2>1 DEF D
  <2> QED
    BY <1>8, <2>2
<1>11. B \in Int
  <2> DEFINE n == NumElements(out)
  <2>1. n \in Int
    BY <1>5
  <2> HIDE DEF n
  <2>2. n \div D \in Int
    BY <1>10, <2>1, Division
  <2> QED
    BY <2>2 DEF n, B
<1>12. \A k : sc = ScalesOf(o, k)
  BY <1>2 DEF sc, ScalesOf, filterScale
<1> QED
  BY <1>4, <1>5, <1>7, <1>9, <1>10, <1>11, <1>12

\* Of a FULLY_CONNECTED: at every row and column of the output, one value.
FullyConnectedMeans(p, r) ==
  \A b \in 0 .. p.batches - 1, c \in 0 .. p.outputDepth - 1 :
    Element(r, FlatIndex(<<p.batches, p.outputDepth>>, <<b, c>>)) =
      {Value({<<FlatIndex(<<p.batches, p.accumDepth>>, <<b, d>>), FlatIndex(op.ins[2].shape, <<c, d>>)>> :
                d \in 0 .. p.accumDepth - 1}, c, ScalesOf(op, c))}

LEMMA FlatOfPair ==
  ASSUME NEW s \in Seq(Int), Len(s) = 2, NEW i \in Int, NEW j \in Int
  PROVE  FlatIndex(s, <<i, j>>) = i * s[2] + j
<1> DEFINE v == <<i, j>>
<1>1. v \in [1 .. 2 -> Int] /\ v[1] = i /\ v[2] = j
  OBVIOUS
<1> HIDE DEF v
<1>2. FlatIndex(s, v) = v[1] * s[2] + v[2]
  BY <1>1, FlatOfTwo
<1> QED
  BY <1>1, <1>2 DEF v

LEMMA FlatOfRows ==
  ASSUME NEW m \in Int, NEW n \in Int, NEW i \in Int, NEW j \in Int
  PROVE  FlatIndex(<<m, n>>, <<i, j>>) = i * n + j
<1> DEFINE s == <<m, n>>
<1>1. s \in Seq(Int) /\ Len(s) = 2 /\ s[2] = n
  OBVIOUS
<1> HIDE DEF s
<1>2. FlatIndex(s, <<i, j>>) = i * s[2] + j
  BY <1>1, FlatOfPair
<1> QED
  BY <1>1, <1>2 DEF s

LEMMA FullyConnectedMultiplies ==
  ASSUME op \in OperatorsOf("FULLY_CONNECTED"), Loaded(op), prepareFullyConnected(op).kind = "ok",
         NEW p, p = prepareFullyConnected(op).params, fullyConnected(op, p).kind = "ok"
  PROVE  FullyConnectedMeans(p, fullyConnected(op, p))
<1> DEFINE A == p.accumDepth
           B == p.batches
           D == p.outputDepth
           g == op.ins[2].shape
           taps(x) == {<<x[1] * A + d, x[2] * A + d>> : d \in 0 .. A - 1}
           places == (0 .. B - 1) \X (0 .. D - 1)
           writes == {Write(x[2] + D * x[1], Value(taps(x), x[2], p.scales)) : x \in places}
           r == Written(writes, op.ins[1], op.ins[2], op.ins[3], op.outs[1])
<1>1. /\ B \in Int /\ D \in Nat /\ A \in Nat /\ g \in Seq(Int) /\ Len(g) = 2 /\ A = g[2]
      /\ NumElements(op.outs[1]) \in Nat /\ \A k : p.scales = ScalesOf(op, k)
  BY FullyConnectedParams
<1>2. fullyConnected(op, p) = r
  BY DEF fullyConnected
<1>3. r.kind = "ok"
  BY <1>2
<1> HIDE DEF A, B, D, g
<1>4. ASSUME NEW b \in 0 .. B - 1, NEW c \in 0 .. D - 1
      PROVE  Element(r, FlatIndex(<<B, D>>, <<b, c>>)) =
               {Value({<<FlatIndex(<<B, A>>, <<b, d>>), FlatIndex(g, <<c, d>>)>> : d \in 0 .. A - 1}, c, ScalesOf(op, c))}
  <2> DEFINE y == <<b, c>>
             w == Write(c + D * b, Value(taps(y), c, p.scales))
  <2>1. b \in Int /\ c \in Int
    BY <1>1
  <2>2. y \in places /\ y[1] = b /\ y[2] = c
    OBVIOUS
  <2> HIDE DEF y, places, taps
  <2>3. w \in writes
    BY <2>2
  <2>4. w.at = c + D * b /\ w.value = Value(taps(y), c, p.scales)
    BY DEF Write
  <2> HIDE DEF w
  <2>5. ASSUME NEW v \in writes, v.at = w.at
        PROVE  v.value = w.value
    <3>1. PICK x \in places : v = Write(x[2] + D * x[1], Value(taps(x), x[2], p.scales))
      OBVIOUS
    <3>2. v.at = x[2] + D * x[1] /\ v.value = Value(taps(x), x[2], p.scales)
      BY <3>1 DEF Write
    <3>3. x[1] \in 0 .. B - 1 /\ x[2] \in 0 .. D - 1 /\ x[1] \in Int /\ x[2] \in Int /\ x = <<x[1], x[2]>>
      BY <1>1 DEF places
    <3>4. x[1] * D + x[2] = b * D + c
      BY <1>1, <2>1, <2>4, <2>5, <3>2, <3>3
    <3>5. x[1] = b /\ x[2] = c
      BY <1>1, <2>1, <3>3, <3>4, RowMajorIsInjective
    <3>6. x = y
      BY <3>3, <3>5 DEF y
    <3> QED
      BY <2>4, <3>2, <3>5, <3>6
  <2> HIDE DEF writes
  <2>6. OnlyThere(writes, w)
    BY <2>3, <2>5 DEF OnlyThere
  <2>7. Element(r, w.at) = {w.value}
    BY <1>1, <1>3, <2>6, WrittenAt DEF Element
  <2> HIDE DEF r
  <2>8. FlatIndex(<<B, D>>, <<b, c>>) = w.at
    <3>1. FlatIndex(<<B, D>>, <<b, c>>) = b * D + c
      BY <1>1, <2>1, FlatOfRows
    <3> QED
      BY <1>1, <2>1, <2>4, <3>1
  <2>9. ASSUME NEW d \in 0 .. A - 1
        PROVE  FlatIndex(<<B, A>>, <<b, d>>) = b * A + d /\ FlatIndex(g, <<c, d>>) = c * A + d
    <3>1. d \in Int /\ A \in Int
      BY <1>1
    <3>2. FlatIndex(<<B, A>>, <<b, d>>) = b * A + d
      BY <1>1, <2>1, <3>1, FlatOfRows
    <3>3. FlatIndex(g, <<c, d>>) = c * g[2] + d
      BY <1>1, <2>1, <3>1, FlatOfPair
    <3> QED
      BY <1>1, <3>2, <3>3
  <2>10. taps(y) = {<<FlatIndex(<<B, A>>, <<b, d>>), FlatIndex(g, <<c, d>>)>> : d \in 0 .. A - 1}
    BY <2>2, <2>9 DEF taps
  <2>11. p.scales = ScalesOf(op, c)
    BY <1>1
  <2> QED
    BY <2>4, <2>7, <2>8, <2>10, <2>11
<1> HIDE DEF r
<1> QED
  BY <1>2, <1>4 DEF FullyConnectedMeans, A, B, D, g

\* Every output of a CONV_2D, a DEPTHWISE_CONV_2D and a FULLY_CONNECTED that Load
\* accepts is what the operation means, for every size, stride, padding, grouping
\* and list of scales.
THEOREM KernelsMultiplyWhatIsMeant == Spec => []MultipliesWhatIsMeant
<1>1. OperatorsInv => MultipliesWhatIsMeant
  <2> SUFFICES ASSUME OperatorsInv, stage = "done"
               PROVE  MultipliesWhatIsMeant
    BY DEF MultipliesWhatIsMeant
  <2>1. /\ op \in Ops /\ Loaded(op) /\ Prepare(op).kind = "ok" /\ params = Prepare(op).params
        /\ Kernel(op, params).kind = "ok" /\ outs = Kernel(op, params).outs
    BY DEF OperatorsInv
  <2>2. op \in OperatorsOf(op.code)
    BY <2>1, OpFacts
  <2>3. ASSUME op.code \in Convolutions, NEW o \in Coordinates(op.outs[1].shape)
        PROVE  outs[1][FlatIndex(op.outs[1].shape, o) + 1] =
                 {Value(Products(params, op.ins[1], op.ins[2], o), o[4], ScalesOf(op, o[4]))}
    <3>1. ConvMeans(params, Kernel(op, params))
      <4>1. CASE op.code = "CONV_2D"
        <5>1. Prepare(op) = prepareConv(op) /\ Kernel(op, params) = conv2D(op, params)
          BY <4>1 DEF Prepare, Kernel
        <5> QED
          BY <2>1, <2>2, <4>1, <5>1, ConvMultiplies
      <4>2. CASE op.code = "DEPTHWISE_CONV_2D"
        <5>1. Prepare(op) = prepareDepthwiseConv(op) /\ Kernel(op, params) = depthwiseConv2D(op, params)
          BY <4>2 DEF Prepare, Kernel
        <5> QED
          BY <2>1, <2>2, <4>2, <5>1, DepthwiseMultiplies
      <4> QED
        BY <2>3, <4>1, <4>2 DEF Convolutions
    <3>2. op.outs[1].shape \in Seq(Int)
      BY <2>1, <2>2, <2>3, ConvOperands, TensorFacts
    <3>3. Within(op.outs[1].shape, o)
      BY <2>3, <3>2, CoordinatesAreWithin
    <3> QED
      BY <2>1, <3>1, <3>3 DEF ConvMeans, Element
  <2>4. ASSUME op.code = "FULLY_CONNECTED"
        PROVE  FullyConnectedMeans(params, Kernel(op, params))
    <3>1. Prepare(op) = prepareFullyConnected(op) /\ Kernel(op, params) = fullyConnected(op, params)
      BY <2>4 DEF Prepare, Kernel
    <3> QED
      BY <2>1, <2>2, <2>4, <3>1, FullyConnectedMultiplies
  <2>5. ASSUME op.code = "FULLY_CONNECTED", NEW b \in 0 .. params.batches - 1, NEW c \in 0 .. params.outputDepth - 1
        PROVE  outs[1][FlatIndex(<<params.batches, params.outputDepth>>, <<b, c>>) + 1] =
                 {Value({<<FlatIndex(<<params.batches, params.accumDepth>>, <<b, d>>), FlatIndex(op.ins[2].shape, <<c, d>>)>> :
                           d \in 0 .. params.accumDepth - 1}, c, ScalesOf(op, c))}
    BY <2>1, <2>4, <2>5 DEF FullyConnectedMeans, Element
  <2> DEFINE rows == [b |-> params.batches, d |-> params.accumDepth]
             means(B, A) == \A b \in 0 .. B - 1, c \in 0 .. params.outputDepth - 1 :
                              outs[1][FlatIndex(<<B, params.outputDepth>>, <<b, c>>) + 1] =
                                {Value({<<FlatIndex(<<B, A>>, <<b, d>>), FlatIndex(op.ins[2].shape, <<c, d>>)>> :
                                          d \in 0 .. A - 1}, c, ScalesOf(op, c))}
  <2>6. rows.b = params.batches /\ rows.d = params.accumDepth
    OBVIOUS
  <2>7. op.code = "FULLY_CONNECTED" => means(rows.b, rows.d)
    <3>1. op.code = "FULLY_CONNECTED" => means(params.batches, params.accumDepth)
      BY <2>5
    <3> HIDE DEF means, rows
    <3> QED
      BY <2>6, <3>1
  <2>8. op.code \in {"CONV_2D", "DEPTHWISE_CONV_2D"} =>
          \A o \in Coordinates(op.outs[1].shape) :
            outs[1][FlatIndex(op.outs[1].shape, o) + 1] =
              {Value(Products(params, op.ins[1], op.ins[2], o), o[4], ScalesOf(op, o[4]))}
    BY <2>3 DEF Convolutions
  <2> QED
    BY <2>7, <2>8 DEF MultipliesWhatIsMeant
<1> QED
  BY InitOperators, NextOperators, <1>1, PTL DEF Spec


-----------------------------------------------------------------------------
(* Sums of sizes. *)

\* The equations of SumOfFirst.
LEMMA SumSteps ==
  ASSUME NEW s \in Seq(Int)
  PROVE  /\ \A i \in 0 .. Len(s) : SumOfFirst(s, i) \in Int
         /\ SumOfFirst(s, 0) = 0
         /\ \A i \in 1 .. Len(s) : SumOfFirst(s, i) = SumOfFirst(s, i - 1) + s[i]
<1> DEFINE n == Len(s)
           Is(f) == f = [i \in 0 .. n |-> IF i = 0 THEN 0 ELSE f[i - 1] + s[i]]
           P == CHOOSE f : Is(f)
           g == [p \in (1 .. n) \X Int |-> p[2] + s[p[1]]]
<1>1. n \in Nat /\ \A i \in 1 .. n : s[i] \in Int
  OBVIOUS
<1>2. \E f \in [0 .. n -> Int] : Is(f)
  <2>1. g \in [(1 .. n) \X Int -> Int]
    BY <1>1
  <2>2. PICK f \in [0 .. n -> Int] : f[0] = 0 /\ \A i \in 1 .. n : f[i] = g[<<i, f[i - 1]>>]
    <3> DEFINE V == Int
               v == 0
    <3>1. n \in Nat /\ v \in V /\ g \in [(1 .. n) \X V -> V]
      BY <1>1, <2>1
    <3> HIDE DEF g, n, V, v
    <3>2. \E f \in [0 .. n -> V] : Folds(f, n, v, g)
      BY <3>1, FoldExists
    <3> QED
      BY <3>2 DEF V, v, Folds
  <2>3. ASSUME NEW i \in 1 .. n
        PROVE  f[i] = f[i - 1] + s[i]
    <3>1. i - 1 \in 0 .. n
      BY <1>1
    <3>2. <<i, f[i - 1]>> \in (1 .. n) \X Int
      BY <3>1
    <3> QED
      BY <2>2, <3>2
  <2>4. \A i \in 0 .. n : f[i] = IF i = 0 THEN 0 ELSE f[i - 1] + s[i]
    BY <1>1, <2>2, <2>3
  <2>5. Is(f)
    BY <2>4
  <2> HIDE DEF Is
  <2> QED
    BY <2>5
<1>3. Is(P)
  <2> HIDE DEF Is
  <2> QED
    BY <1>2
<1>4. \A k : SumOfFirst(s, k) = P[k]
  BY DEF SumOfFirst
<1> HIDE DEF P
<1>5. P[0] = 0 /\ \A i \in 1 .. n : P[i] = P[i - 1] + s[i]
  BY <1>1, <1>3
<1>6. \A i \in 0 .. n : P[i] \in Int
  <2> DEFINE S == {i \in 0 .. n : P[i] \in Int}
  <2>1. 0 \in S
    BY <1>1, <1>5
  <2>2. ASSUME NEW k \in 1 .. n, k - 1 \in S
        PROVE  k \in S
    <3>1. k \in 0 .. n /\ P[k - 1] \in Int
      BY <1>1, <2>2
    <3> QED
      BY <1>1, <1>5, <3>1
  <2>3. S \in SUBSET (0 .. n)
    OBVIOUS
  <2>4. \A k \in 0 .. n : k \in S
    <3> HIDE DEF S
    <3> QED
      BY <1>1, <2>1, <2>2, <2>3, EveryPlace
  <2> QED
    BY <2>4
<1> QED
  BY <1>4, <1>5, <1>6

\* The sums of sizes do not fall.
LEMMA SumsRise ==
  ASSUME NEW s \in Seq(Int), \A i \in 1 .. Len(s) : s[i] >= 0,
         NEW i \in 0 .. Len(s), NEW j \in i .. Len(s)
  PROVE  /\ SumOfFirst(s, i) \in Nat /\ SumOfFirst(s, j) \in Nat
         /\ SumOfFirst(s, i) <= SumOfFirst(s, j)
<1> DEFINE sum(k) == SumOfFirst(s, k)
           S == {k \in 0 .. Len(s) : \A x \in 0 .. k : 0 <= sum(x) /\ sum(x) <= sum(k)}
<1>1. /\ Len(s) \in Nat /\ sum(0) = 0 /\ \A k \in 0 .. Len(s) : sum(k) \in Int
      /\ \A k \in 1 .. Len(s) : s[k] \in Int /\ sum(k) = sum(k - 1) + s[k]
  BY SumSteps
<1> HIDE DEF sum
<1>2. 0 \in S
  BY <1>1
<1>3. ASSUME NEW k \in 1 .. Len(s), k - 1 \in S
      PROVE  k \in S
  <2>1. \A x \in 0 .. k - 1 : 0 <= sum(x) /\ sum(x) <= sum(k - 1)
    BY <1>3
  <2>0. k - 1 \in 0 .. k - 1 /\ k - 1 \in 0 .. Len(s) /\ k \in 0 .. Len(s)
    BY <1>1
  <2> DEFINE b == sum(k - 1)
             c == sum(k)
  <2>2. c = b + s[k] /\ b \in Int /\ c \in Int /\ 0 <= b /\ b <= c
    <3>1. c = b + s[k] /\ b \in Int /\ c \in Int /\ 0 <= b /\ s[k] \in Int /\ s[k] >= 0
      BY <1>1, <2>0, <2>1
    <3> HIDE DEF b, c
    <3> QED
      BY <3>1
  <2>3. ASSUME NEW x \in 0 .. k
        PROVE  0 <= sum(x) /\ sum(x) <= sum(k)
    <3>1. CASE x = k
      BY <2>2, <3>1
    <3>2. CASE x # k
      <4>1. x \in 0 .. k - 1 /\ x \in 0 .. Len(s)
        BY <1>1, <3>2
      <4>2. 0 <= sum(x) /\ sum(x) <= b /\ sum(x) \in Int
        BY <1>1, <2>1, <4>1
      <4> HIDE DEF b
      <4> QED
        BY <2>2, <4>2
    <3> QED
      BY <3>1, <3>2
  <2> QED
    BY <2>0, <2>3
<1>4. \A k \in 0 .. Len(s) : k \in S
  <2>1. S \in SUBSET (0 .. Len(s)) /\ Len(s) \in Nat
    BY <1>1
  <2> HIDE DEF S
  <2> QED
    BY <1>2, <1>3, <2>1, EveryPlace
<1>5. j \in S /\ i \in 0 .. j /\ j \in 0 .. Len(s)
  BY <1>1, <1>4
<1> QED
  BY <1>1, <1>5 DEF sum

\* Every place of the whole is in one piece.
LEMMA PlaceHasPiece ==
  ASSUME NEW s \in Seq(Int), \A i \in 1 .. Len(s) : s[i] >= 0, NEW x \in 0 .. SumOfFirst(s, Len(s)) - 1
  PROVE  \E j \in 1 .. Len(s) : SumOfFirst(s, j - 1) <= x /\ x < SumOfFirst(s, j)
<1> DEFINE sum(k) == SumOfFirst(s, k)
           S == {k \in 0 .. Len(s) : x < sum(k) => \E j \in 1 .. Len(s) : sum(j - 1) <= x /\ x < sum(j)}
<1>1. Len(s) \in Nat /\ sum(0) = 0 /\ \A k \in 0 .. Len(s) : sum(k) \in Int
  BY SumSteps
<1>0. x \in Nat /\ x < sum(Len(s))
  BY <1>1
<1> HIDE DEF sum
<1>2. 0 \in S
  BY <1>0, <1>1
<1>3. ASSUME NEW k \in 1 .. Len(s), k - 1 \in S
      PROVE  k \in S
  <2>1. k - 1 \in 0 .. Len(s) /\ k \in 0 .. Len(s)
    BY <1>1
  <2>2. CASE x < sum(k - 1)
    BY <1>3, <2>1, <2>2
  <2>3. CASE ~(x < sum(k - 1))
    <3>1. sum(k - 1) <= x
      BY <1>0, <1>1, <2>1, <2>3
    <3> QED
      BY <2>1, <3>1
  <2> QED
    BY <2>2, <2>3
<1>4. Len(s) \in S
  <2>1. S \in SUBSET (0 .. Len(s)) /\ Len(s) \in 0 .. Len(s)
    BY <1>1
  <2> HIDE DEF S
  <2> QED
    BY <1>1, <1>2, <1>3, <2>1, EveryPlace
<1> QED
  BY <1>0, <1>4 DEF sum

-----------------------------------------------------------------------------
(* Sequences one after the other. *)

\* off[n] elements are before the (n+1)-th sequence.
Offsets(seqs, off) ==
  /\ off \in [0 .. Len(seqs) -> Nat] /\ off[0] = 0
  /\ \A n \in 1 .. Len(seqs) : off[n] = off[n - 1] + Len(seqs[n])

Spot(off, n, i) == off[n - 1] + i

\* f has the first n sequences, one after the other.
Joins(f, seqs, n) == f[n] = f[n - 1] \o seqs[n]

\* The equations of FlattenSeq.
LEMMA FlattenSteps ==
  ASSUME NEW V, NEW seqs \in Seq(Seq(V)), Len(seqs) > 0
  PROVE  \E f \in [1 .. Len(seqs) -> Seq(V)] :
           /\ FlattenSeq(seqs) = f[Len(seqs)] /\ f[1] = seqs[1]
           /\ \A n \in 2 .. Len(seqs) : Joins(f, seqs, n)
<1> DEFINE m == Len(seqs)
           Is(f) == f = [i \in 1 .. m |-> IF i = 1 THEN seqs[i] ELSE f[i - 1] \o seqs[i]]
           P == CHOOSE f : Is(f)
           W == Seq(V)
           g == [p \in (1 .. m) \X W |-> p[2] \o seqs[p[1]]]
<1>1. m \in Nat /\ m > 0 /\ (\A i \in 1 .. m : seqs[i] \in W) /\ << >> \in W
  OBVIOUS
<1>2. \E f : Is(f)
  <2>1. g \in [(1 .. m) \X W -> W]
    <3>1. \A x \in W, y \in W : x \o y \in W
      OBVIOUS
    <3> HIDE DEF W
    <3> QED
      BY <1>1, <3>1
  <2>2. PICK h \in [0 .. m -> W] : h[0] = << >> /\ \A i \in 1 .. m : h[i] = g[<<i, h[i - 1]>>]
    <3> DEFINE v == << >>
    <3>1. m \in Nat /\ v \in W /\ g \in [(1 .. m) \X W -> W]
      BY <1>1, <2>1
    <3> HIDE DEF g, m, W, v
    <3>2. \E f \in [0 .. m -> W] : Folds(f, m, v, g)
      BY <3>1, FoldExists
    <3> QED
      BY <3>2 DEF v, Folds
  <2> DEFINE f == [i \in 1 .. m |-> h[i]]
  <2>3. ASSUME NEW i \in 1 .. m
        PROVE  Joins(h, seqs, i)
    <3>1. i - 1 \in 0 .. m
      BY <1>1
    <3> HIDE DEF W
    <3>2. <<i, h[i - 1]>> \in (1 .. m) \X W
      BY <2>2, <3>1
    <3> QED
      BY <2>2, <3>2 DEF Joins
  <2>4. ASSUME NEW i \in 1 .. m
        PROVE  f[i] = IF i = 1 THEN seqs[i] ELSE f[i - 1] \o seqs[i]
    <3>1. CASE i = 1
      <4>0. Joins(h, seqs, 1) /\ 1 - 1 = 0
        BY <2>3, <3>1
      <4>1. h[1] = << >> \o seqs[1]
        BY <2>2, <4>0 DEF Joins
      <4>2. seqs[1] \in Seq(V)
        BY <1>1
      <4>3. << >> \o seqs[1] = seqs[1]
        BY <4>2
      <4> QED
        BY <1>1, <3>1, <4>1, <4>3
    <3>2. CASE i # 1
      <4>1. i - 1 \in 1 .. m /\ f[i - 1] = h[i - 1]
        BY <1>1, <3>2
      <4>2. h[i] = h[i - 1] \o seqs[i]
        BY <2>3 DEF Joins
      <4> QED
        BY <3>2, <4>1, <4>2
    <3> QED
      BY <3>1, <3>2
  <2>5. Is(f)
    BY <2>4
  <2> HIDE DEF Is
  <2> QED
    BY <2>5
<1>3. Is(P)
  <2> HIDE DEF Is
  <2> QED
    BY <1>2
<1>4. FlattenSeq(seqs) = P[m]
  BY <1>1 DEF FlattenSeq
<1> HIDE DEF P
<1>5. P[1] = seqs[1] /\ \A n \in 2 .. m : Joins(P, seqs, n)
  <2>1. \A n \in 1 .. m : P[n] = IF n = 1 THEN seqs[n] ELSE P[n - 1] \o seqs[n]
    BY <1>3
  <2>2. 1 \in 1 .. m /\ \A n \in 2 .. m : n \in 1 .. m /\ n # 1
    BY <1>1
  <2> QED
    BY <2>1, <2>2 DEF Joins
<1>6. \A i \in 1 .. m : P[i] \in W
  <2> DEFINE S == {i \in 0 .. m : i > 0 => P[i] \in W}
  <2>1. 0 \in S
    BY <1>1
  <2>2. ASSUME NEW k \in 1 .. m, k - 1 \in S
        PROVE  k \in S
    <3>1. CASE k = 1
      BY <1>1, <1>5, <3>1
    <3>2. CASE k # 1
      <4>1. k \in 2 .. m /\ P[k - 1] \in W /\ seqs[k] \in W
        BY <1>1, <2>2, <3>2
      <4>2. P[k - 1] \o seqs[k] \in W
        BY <4>1
      <4>3. Joins(P, seqs, k) /\ k \in 0 .. m
        BY <1>1, <1>5, <4>1
      <4> HIDE DEF W
      <4> QED
        BY <4>2, <4>3 DEF Joins
    <3> QED
      BY <3>1, <3>2
  <2>3. S \in SUBSET (0 .. m)
    OBVIOUS
  <2>4. \A k \in 0 .. m : k \in S
    <3> HIDE DEF S
    <3> QED
      BY <1>1, <2>1, <2>2, <2>3, EveryPlace
  <2> QED
    BY <1>1, <2>4
<1>7. P \in [1 .. m -> W]
  BY <1>3, <1>6
<1> QED
  BY <1>4, <1>5, <1>7

\* Where each element of the sequences is.
LEMMA FlattenedAt ==
  ASSUME NEW V, NEW seqs \in Seq(Seq(V)), Len(seqs) > 0, NEW off, Offsets(seqs, off)
  PROVE  /\ FlattenSeq(seqs) \in Seq(V) /\ Len(FlattenSeq(seqs)) = off[Len(seqs)]
         /\ \A n \in 1 .. Len(seqs) : \A i \in 1 .. Len(seqs[n]) :
              /\ Spot(off, n, i) \in 1 .. off[Len(seqs)]
              /\ FlattenSeq(seqs)[Spot(off, n, i)] = seqs[n][i]
<1> DEFINE m == Len(seqs)
<1>1. m \in Nat /\ m > 0 /\ \A n \in 1 .. m : seqs[n] \in Seq(V) /\ Len(seqs[n]) \in Nat
  OBVIOUS
<1>2. PICK f \in [1 .. m -> Seq(V)] :
        /\ FlattenSeq(seqs) = f[m] /\ f[1] = seqs[1]
        /\ \A n \in 2 .. m : Joins(f, seqs, n)
  BY FlattenSteps
<1>3. /\ \A n \in 0 .. m : off[n] \in Nat
      /\ off[0] = 0
      /\ \A n \in 1 .. m : off[n] = off[n - 1] + Len(seqs[n])
  BY DEF Offsets
<1> DEFINE Placed(k) ==
             /\ Len(f[k]) = off[k]
             /\ \A n \in 1 .. k : \A i \in 1 .. Len(seqs[n]) :
                  Spot(off, n, i) \in 1 .. off[k] /\ f[k][Spot(off, n, i)] = seqs[n][i]
           S == {k \in 0 .. m : k > 0 => Placed(k)}
<1>4. 0 \in S
  BY <1>1
<1>5. ASSUME NEW k \in 1 .. m, k - 1 \in S
      PROVE  Placed(k)
  <2>1. CASE k = 1
    <3>1. off[0] = 0 /\ off[1] = off[1 - 1] + Len(seqs[1]) /\ 1 - 1 = 0 /\ Len(seqs[1]) \in Nat
      BY <1>1, <1>3, <2>1
    <3>2. off[1] = Len(seqs[1]) /\ f[1] = seqs[1]
      BY <1>2, <3>1
    <3>3. ASSUME NEW i \in 1 .. Len(seqs[1])
          PROVE  Spot(off, 1, i) = i
      BY <3>1 DEF Spot
    <3>4. \A n \in 1 .. 1 : n = 1
      OBVIOUS
    <3> QED
      BY <2>1, <3>2, <3>3, <3>4
  <2>2. CASE k # 1
    <3>0. k \in 2 .. m /\ k - 1 \in 1 .. m /\ k - 1 > 0
      BY <1>1, <2>2
    <3> DEFINE before == f[k - 1]
               mine == seqs[k]
               b == off[k - 1]
    <3>1. Placed(k - 1) /\ before \in Seq(V) /\ mine \in Seq(V) /\ f[k] = before \o mine
      <4>1. Joins(f, seqs, k) /\ f[k - 1] \in Seq(V) /\ seqs[k] \in Seq(V)
        BY <1>1, <1>2, <3>0
      <4>2. Placed(k - 1)
        <5> HIDE DEF Placed
        <5> QED
          BY <1>5, <3>0
      <4> HIDE DEF Placed
      <4> QED
        BY <4>1, <4>2 DEF Joins
    <3>2. Len(before) = b /\ b \in Nat /\ off[k] = b + Len(mine) /\ Len(mine) \in Nat
      BY <1>1, <1>3, <3>0, <3>1
    <3>3. ASSUME NEW n \in 1 .. k, NEW i \in 1 .. Len(seqs[n])
          PROVE  Spot(off, n, i) \in 1 .. off[k] /\ f[k][Spot(off, n, i)] = seqs[n][i]
      <4>1. CASE n = k
        <5>1. Spot(off, n, i) = b + i /\ i \in 1 .. Len(mine)
          BY <4>1 DEF Spot
        <5> HIDE DEF before, b, mine
        <5>2. b + i \in 1 .. b + Len(mine)
          BY <3>2, <5>1
        <5>3. (before \o mine)[b + i] = mine[i]
          <6> DEFINE y == b + i
          <6>1. y \in 1 .. Len(before) + Len(mine) /\ y > Len(before) /\ y - Len(before) = i
            BY <3>2, <5>1
          <6> HIDE DEF y
          <6>2. (before \o mine)[y] = mine[y - Len(before)]
            BY <3>1, <6>1
          <6> QED
            BY <6>1, <6>2 DEF y
        <5> QED
          BY <3>1, <3>2, <4>1, <5>1, <5>2, <5>3 DEF mine
      <4>2. CASE n # k
        <5>1. n \in 1 .. k - 1
          BY <1>1, <4>2
        <5> DEFINE x == Spot(off, n, i)
        <5>2. x \in 1 .. b /\ before[x] = seqs[n][i]
          BY <3>1, <5>1
        <5> HIDE DEF before, b, mine, x
        <5>3. x \in 1 .. b + Len(mine)
          BY <3>2, <5>2
        <5>4. (before \o mine)[x] = before[x]
          BY <3>1, <3>2, <5>2, <5>3
        <5> QED
          BY <3>1, <3>2, <5>2, <5>3, <5>4 DEF x
      <4> QED
        BY <4>1, <4>2
    <3>4. Len(f[k]) = off[k]
      <4> HIDE DEF before, mine, b
      <4>1. Len(before \o mine) = Len(before) + Len(mine)
        BY <3>1
      <4>2. f[k] = before \o mine /\ Len(before) = b /\ off[k] = b + Len(mine)
        BY <3>1, <3>2
      <4> QED
        BY <4>1, <4>2
    <3> QED
      BY <3>3, <3>4
  <2> QED
    BY <2>1, <2>2
<1>6. Placed(m)
  <2>1. S \in SUBSET (0 .. m) /\ m \in 0 .. m
    BY <1>1
  <2>2. ASSUME NEW k \in 1 .. m, k - 1 \in S
        PROVE  k \in S
    <3>1. Placed(k)
      BY <1>5, <2>2
    <3>2. k \in 0 .. m
      BY <1>1
    <3> HIDE DEF Placed
    <3> QED
      BY <3>1, <3>2
  <2> HIDE DEF S
  <2>3. m \in S
    BY <1>1, <1>4, <2>1, <2>2, EveryPlace
  <2> QED
    BY <1>1, <2>3 DEF S
<1>7. f[m] \in Seq(V)
  <2>1. m \in 1 .. m
    BY <1>1
  <2> HIDE DEF m
  <2> QED
    BY <1>2, <2>1
<1> QED
  BY <1>2, <1>6, <1>7

-----------------------------------------------------------------------------
(* A flat index around an axis: what is before the axis, the place on it,  *)
(* and what is after it.                                                   *)

\* f has the flat index of the axes after a, up to any of them.
Behind(s, c, a, f) ==
  /\ f \in [0 .. Len(s) -> Int]
  /\ \A k \in 0 .. Len(s) : k <= a => f[k] = 0
  /\ \A k \in 1 .. Len(s) : k > a => f[k] = f[k - 1] * s[k] + c[k]

LEMMA BehindExists ==
  ASSUME NEW s \in Seq(Int), NEW c \in [1 .. Len(s) -> Int], NEW a \in 1 .. Len(s)
  PROVE  \E f : Behind(s, c, a, f)
<1> DEFINE n == Len(s)
           g == [p \in (1 .. n) \X Int |-> IF p[1] <= a THEN 0 ELSE p[2] * s[p[1]] + c[p[1]]]
<1>1. n \in Nat /\ \A k \in 1 .. n : s[k] \in Int /\ c[k] \in Int
  OBVIOUS
<1>2. g \in [(1 .. n) \X Int -> Int]
  BY <1>1
<1>3. PICK f \in [0 .. n -> Int] : f[0] = 0 /\ \A k \in 1 .. n : f[k] = g[<<k, f[k - 1]>>]
  <2> DEFINE V == Int
             v == 0
  <2>1. n \in Nat /\ v \in V /\ g \in [(1 .. n) \X V -> V]
    BY <1>1, <1>2
  <2> HIDE DEF g, n, V, v
  <2>2. \E f \in [0 .. n -> V] : Folds(f, n, v, g)
    BY <2>1, FoldExists
  <2> QED
    BY <2>2 DEF V, v, Folds
<1>4. ASSUME NEW k \in 1 .. n
      PROVE  f[k] = IF k <= a THEN 0 ELSE f[k - 1] * s[k] + c[k]
  <2>1. k - 1 \in 0 .. n
    BY <1>1
  <2>2. <<k, f[k - 1]>> \in (1 .. n) \X Int
    BY <2>1
  <2> QED
    BY <1>3, <2>2
<1>5. \A k \in 0 .. n : k <= a => f[k] = 0
  <2>1. \A k \in 0 .. n : k = 0 \/ k \in 1 .. n
    BY <1>1
  <2> QED
    BY <1>3, <1>4, <2>1
<1>6. \A k \in 1 .. n : k > a => f[k] = f[k - 1] * s[k] + c[k]
  BY <1>4
<1> QED
  BY <1>5, <1>6 DEF Behind

\* Places in a block, from its start.
LEMMA FromItsStart ==
  ASSUME NEW h \in Int, NEW size \in Int, NEW W \in Int, NEW B \in Int, NEW x \in Int, NEW inner \in Int, NEW tail \in Int
  PROVE  /\ (h * size + x) * inner + tail = h * (size * inner) + (x * inner + tail)
         /\ (h * W + (x + B)) * inner + tail = (h * W + B) * inner + (x * inner + tail)
<1>1. (h * size + x) * inner = h * (size * inner) + x * inner
  OBVIOUS
<1> DEFINE w == h * W
<1>2. w \in Int /\ (w + (x + B)) * inner = (w + B) * inner + x * inner
  OBVIOUS
<1>3. x * inner \in Int /\ h * (size * inner) \in Int /\ (w + B) * inner \in Int
  OBVIOUS
<1> DEFINE p == x * inner
           q == h * (size * inner)
           u == (w + B) * inner
<1>4. (h * size + x) * inner + tail = (q + p) + tail /\ (w + (x + B)) * inner + tail = (u + p) + tail
  BY <1>1, <1>2
<1>5. p \in Int /\ q \in Int /\ u \in Int
  BY <1>3
<1> HIDE DEF p, q, u
<1>6. (q + p) + tail = q + (p + tail) /\ (u + p) + tail = u + (p + tail)
  BY <1>5
<1> QED
  BY <1>4, <1>6 DEF p, q, u

LEMMA FlatByBehind ==
  ASSUME NEW s \in Seq(Int), \A x \in 1 .. Len(s) : s[x] >= 0, NEW c, Within(s, c),
         NEW f, Flat(s, c, f), NEW a \in 1 .. Len(s), NEW e, Behind(s, c, a, e)
  PROVE  \A k \in a .. Len(s) : /\ f[k] = (f[a - 1] * s[a] + c[a]) * product(s, a, k) + e[k]
                                /\ e[k] \in 0 .. product(s, a, k) - 1
<1> DEFINE n == Len(s)
           R(k) == product(s, a, k)
           h == f[a - 1] * s[a] + c[a]
           Is(k) == f[k] = h * R(k) + e[k] /\ e[k] \in 0 .. R(k) - 1
           S == {k \in 0 .. n : k >= a => Is(k)}
<1>1. /\ n \in Nat /\ \A k \in 1 .. n : s[k] \in Nat /\ c[k] \in 0 .. s[k] - 1
      /\ a \in 1 .. n /\ a \in Nat /\ a - 1 \in 0 .. n
  BY DEF Within
<1>2. /\ \A k \in 0 .. n : f[k] \in Int /\ e[k] \in Int /\ R(k) \in Int
      /\ \A k \in 0 .. n : k <= a => e[k] = 0 /\ R(k) = 1
      /\ \A k \in 1 .. n : f[k] = f[k - 1] * s[k] + c[k]
      /\ \A k \in 1 .. n : k > a => e[k] = e[k - 1] * s[k] + c[k] /\ R(k) = R(k - 1) * s[k]
  BY <1>1, ProductSteps DEF Flat, Behind
<1>3. \A k \in 0 .. n : R(k) \in Nat
  BY <1>1, ProductNat
<1> HIDE DEF R
<1>4. h \in Int /\ f[a] = h
  BY <1>1, <1>2
<1> HIDE DEF h
<1>5. 0 \in S
  BY <1>1
<1>6. ASSUME NEW k \in 1 .. n, k - 1 \in S, k >= a
      PROVE  Is(k)
  <2>1. CASE k = a
    <3>1. e[a] = 0 /\ R(a) = 1
      BY <1>1, <1>2
    <3> QED
      BY <1>4, <2>1, <3>1
  <2>2. CASE k # a
    <3>1. k > a /\ k - 1 >= a /\ k - 1 \in 0 .. n
      BY <1>1, <1>6, <2>2
    <3> DEFINE r == R(k - 1)
               x == e[k - 1]
    <3>2. f[k - 1] = h * r + x /\ x \in 0 .. r - 1
      BY <1>6, <3>1
    <3>3. /\ f[k] = f[k - 1] * s[k] + c[k] /\ e[k] = x * s[k] + c[k] /\ R(k) = r * s[k]
          /\ x \in Int /\ r \in Nat /\ s[k] \in Nat /\ c[k] \in 0 .. s[k] - 1
      BY <1>1, <1>2, <1>3, <3>1
    <3> HIDE DEF r, x
    <3>4. x * s[k] + c[k] \in 0 .. r * s[k] - 1
      BY <3>2, <3>3, RowMajor
    <3>5. (h * r + x) * s[k] + c[k] = h * (r * s[k]) + (x * s[k] + c[k])
      <4> DEFINE size == s[k]
                 tail == c[k]
      <4>1. h \in Int /\ r \in Int /\ x \in Int /\ size \in Int /\ tail \in Int
        BY <1>4, <3>3
      <4> HIDE DEF h, size, tail
      <4>2. (h * r + x) * size + tail = h * (r * size) + (x * size + tail)
        BY <4>1, FromItsStart
      <4> QED
        BY <4>2 DEF size, tail
    <3> QED
      BY <3>2, <3>3, <3>4, <3>5
  <2> QED
    BY <2>1, <2>2
<1>7. \A k \in 0 .. n : k \in S
  <2>1. S \in SUBSET (0 .. n)
    OBVIOUS
  <2>2. ASSUME NEW k \in 1 .. n, k - 1 \in S
        PROVE  k \in S
    <3>1. k >= a => Is(k)
      BY <1>6, <2>2
    <3>2. k \in 0 .. n
      BY <1>1
    <3> HIDE DEF Is
    <3> QED
      BY <3>1, <3>2
  <2> HIDE DEF S
  <2> QED
    BY <1>1, <1>5, <2>1, <2>2, EveryPlace
<1>8. ASSUME NEW k \in a .. n
      PROVE  Is(k)
  <2>1. k \in S /\ k >= a
    BY <1>1, <1>7
  <2> HIDE DEF Is
  <2> QED
    BY <2>1
<1> QED
  BY <1>8 DEF R, h

\* Both flat indexes have the same around the axis.
SplitAt(s, t, a, c, d, head, tail) ==
  /\ head \in 0 .. product(s, 0, a - 1) - 1
  /\ tail \in 0 .. product(s, a, Len(s)) - 1
  /\ FlatIndex(s, c) = (head * s[a] + c[a]) * product(s, a, Len(s)) + tail
  /\ FlatIndex(t, d) = (head * t[a] + d[a]) * product(s, a, Len(s)) + tail

\* Coordinates that differ on one axis, of tensors whose sizes do.
LEMMA AroundAxis ==
  ASSUME NEW s \in Seq(Int), NEW t \in Seq(Int), Len(t) = Len(s), NEW a \in 1 .. Len(s),
         \A x \in 1 .. Len(s) : s[x] >= 0 /\ t[x] >= 0,
         NEW c, Within(s, c), NEW d, Within(t, d),
         \A x \in 1 .. Len(s) : x # a => t[x] = s[x] /\ d[x] = c[x]
  PROVE  \E head, tail : SplitAt(s, t, a, c, d, head, tail)
<1> DEFINE n == Len(s)
<1>1. n \in Nat /\ a \in Nat /\ a - 1 \in 0 .. n /\ n \in a .. n /\ n \in 0 .. n /\ a \in 1 .. n
  OBVIOUS
<1>2. c \in [1 .. Len(s) -> Int] /\ d \in [1 .. Len(t) -> Int]
  BY DEF Within
<1>3. PICK f : Flat(s, c, f) /\ FlatIndex(s, c) = f[n]
  BY <1>2, FlatExists
<1>4. PICK g : Flat(t, d, g) /\ FlatIndex(t, d) = g[n]
  BY <1>2, FlatExists
<1>5. PICK e : Behind(s, c, a, e)
  BY <1>2, BehindExists
<1>6. Behind(t, d, a, e)
  <2>1. \A k \in 1 .. n : k > a => k # a
    BY <1>1
  <2> QED
    BY <1>5, <2>1 DEF Behind
<1>7. product(t, a, n) = product(s, a, n)
  <2>1. \A i \in 1 .. n : i > a => s[i] = t[i]
    BY <1>1
  <2>2. n \in 0 .. Len(s) /\ n <= Len(t)
    BY <1>1
  <2> HIDE DEF n
  <2>3. product(s, a, n) = product(t, a, n)
    BY <1>1, <2>1, <2>2, ProductCongruence
  <2> QED
    BY <2>3
<1>8. f[n] = (f[a - 1] * s[a] + c[a]) * product(s, a, n) + e[n] /\ e[n] \in 0 .. product(s, a, n) - 1
  BY <1>1, <1>3, <1>5, FlatByBehind
<1>9. g[n] = (g[a - 1] * t[a] + d[a]) * product(t, a, n) + e[n]
  <2>1. \A x \in 1 .. Len(t) : t[x] >= 0
    OBVIOUS
  <2>2. a \in 1 .. Len(t) /\ n \in a .. Len(t)
    BY <1>1
  <2>3. \A k \in a .. Len(t) : g[k] = (g[a - 1] * t[a] + d[a]) * product(t, a, k) + e[k]
    <3>1. \A k \in a .. Len(t) : /\ g[k] = (g[a - 1] * t[a] + d[a]) * product(t, a, k) + e[k]
                                  /\ e[k] \in 0 .. product(t, a, k) - 1
      BY <1>4, <1>6, <2>1, <2>2, FlatByBehind, Zenon
    <3> QED
      BY <3>1
  <2> QED
    BY <2>2, <2>3
<1>10. f[a - 1] \in 0 .. product(s, 0, a - 1) - 1
  BY <1>1, <1>3, FlatInRange
<1>11. g[a - 1] = f[a - 1]
  <2> DEFINE S == {k \in 0 .. n : k < a => g[k] = f[k]}
  <2>1. f[0] = 0 /\ g[0] = 0 /\ \A k \in 1 .. n : f[k] = f[k - 1] * s[k] + c[k] /\ g[k] = g[k - 1] * t[k] + d[k]
    BY <1>3, <1>4 DEF Flat
  <2>2. 0 \in S
    BY <1>1, <2>1
  <2>3. ASSUME NEW k \in 1 .. n, k - 1 \in S
        PROVE  k \in S
    <3>1. k \in 0 .. n /\ (k < a => k - 1 < a /\ k # a)
      BY <1>1
    <3>2. k < a => g[k - 1] = f[k - 1]
      BY <2>3, <3>1
    <3> QED
      BY <2>1, <3>1, <3>2
  <2>4. S \in SUBSET (0 .. n) /\ a - 1 < a
    BY <1>1
  <2>5. \A k \in 0 .. n : k \in S
    <3> HIDE DEF S
    <3> QED
      BY <1>1, <2>2, <2>3, <2>4, EveryPlace
  <2> QED
    BY <1>1, <2>4, <2>5
<1>12. SplitAt(s, t, a, c, d, f[a - 1], e[n])
  BY <1>3, <1>4, <1>7, <1>8, <1>9, <1>10, <1>11 DEF SplitAt
<1> QED
  BY <1>12

-----------------------------------------------------------------------------
(* SPLIT_V moves what it means. *)

\* Output k, block by block.
SplitBlocks(o, a, k) ==
  LET s == o.ins[1].shape
      inner == product(s, a, Len(s))
      sizes == SizesAlong(o.outs, a)
  IN [j \in 1 .. product(s, 0, a - 1) |->
        Slice(Contents(o, 1), ((j - 1) * s[a] + SumOfFirst(sizes, k - 1)) * inner, sizes[k] * inner)]

\* An axis of an operator, as it is written and as an index.
LEMMA AxisResolved ==
  ASSUME NEW axis \in Int, NEW nd \in Nat, InRank(resolveAxis(axis, nd), nd)
  PROVE  /\ resolveAxis(axis, nd) \in 0 .. nd - 1 /\ nd > 0
         /\ 1 + ((axis + nd) % nd) = resolveAxis(axis, nd) + 1
<1> DEFINE r == resolveAxis(axis, nd)
<1>1. r \in 0 .. nd - 1 /\ nd > 0
  BY DEF InRank
<1>2. axis < 0 => axis + nd = 0 * nd + r
  BY DEF resolveAxis
<1>3. ~(axis < 0) => axis + nd = 1 * nd + r
  BY DEF resolveAxis
<1> HIDE DEF r
<1>4. (0 * nd + r) % nd = r /\ (1 * nd + r) % nd = r
  BY <1>1, QuotientAndRest
<1>5. (axis + nd) % nd = r
  BY <1>2, <1>3, <1>4
<1> QED
  BY <1>1, <1>5 DEF r

LEMMA SplitFacts ==
  ASSUME NEW o \in OperatorsOf("SPLIT_V"), Loaded(o), splitV(o).kind = "ok"
  PROVE  LET s == o.ins[1].shape
             a == PieceAxis(o)
             sizes == SizesAlong(o.outs, a)
         IN /\ s \in Seq(Int) /\ a \in 1 .. Len(s) /\ \A x \in 1 .. Len(s) : s[x] >= 0
            /\ NumElements(o.ins[1]) = product(s, 0, Len(s))
            /\ sizes \in Seq(Int) /\ Len(sizes) = Len(o.outs) /\ \A k \in 1 .. Len(sizes) : sizes[k] >= 0
            /\ SumOfFirst(sizes, Len(sizes)) = s[a]
            /\ \A k \in 1 .. Len(sizes) : NumElements(o.outs[k]) = sizes[k] * product(s, a, Len(s)) * product(s, 0, a - 1)
            /\ splitV(o).outs = [k \in 1 .. Len(o.outs) |-> FlattenSeq(SplitBlocks(o, a, k))]
<1> DEFINE in == o.ins[1]
           nd == rank(in)
           axis  == resolveAxis(o.ins[3].const[1], nd)
           whole == in.shape[axis + 1]
           sizes == Resolved(o.ins[2].const, whole)
           outer == product(in.shape, 0, axis)
           inner == product(in.shape, axis + 1, nd)
           lengthOK(k) == NumElements(o.outs[k]) = sizes[k] * inner * outer
           bad == {k \in 1 .. Len(o.outs) :
                        \/ ~lengthOK(k)
                        \/ axis >= rank(o.outs[k])
                        \/ o.outs[k].shape[axis + 1] # sizes[k]}
           piece(j, k) == Slice(Contents(o, 1), (j * whole + SumOfFirst(sizes, k - 1)) * inner, sizes[k] * inner)
<1>1. /\ InRank(axis, nd) /\ Len(o.ins[2].const) = Len(o.outs) /\ SizesOK(o.ins[2].const, whole)
      /\ bad = {}
      /\ splitV(o).outs = [k \in 1 .. Len(o.outs) |-> FlattenSeq([j \in 1 .. outer |-> piece(j - 1, k)])]
  BY DEF splitV, Error, Panic, Wrote
<1>2. o.code = "SPLIT_V" /\ Len(o.outs) \in Nat
  BY Operands DEF OperatorsOf
<1>3. Len(o.ins) = 3 /\ NumElements(o.ins[3]) = 1 /\ IsConst(o.ins[3])
  BY <1>2 DEF Loaded, validateOperator, SplitVRule
<1>4. /\ o.ins[1] \in TensorInfo /\ TensorOK(o.ins[1])
      /\ o.ins[3] \in TensorInfo /\ TensorOK(o.ins[3])
  BY <1>3, Operands
<1>5. o.ins[3].const \in Seq(Int) /\ Len(o.ins[3].const) = 1
  BY <1>3, <1>4 DEF TensorInfo, TensorOK
<1>6. o.ins[3].const[1] \in Int
  BY <1>5
<1>7. /\ in.shape \in Seq(Int) /\ nd \in Nat /\ nd = Len(in.shape)
      /\ \A x \in 1 .. nd : in.shape[x] \in Nat
      /\ NumElements(in) = product(in.shape, 0, Len(in.shape))
  BY <1>4, TensorFacts
<1>8. axis \in 0 .. nd - 1 /\ PieceAxis(o) = axis + 1
  <2>1. axis \in 0 .. nd - 1 /\ 1 + ((o.ins[3].const[1] + nd) % nd) = axis + 1
    <3>1. nd \in Nat
      BY <1>7
    <3> HIDE DEF nd
    <3> QED
      BY <1>1, <1>6, <3>1, AxisResolved
  <2> QED
    BY <1>2, <2>1 DEF PieceAxis
<1> DEFINE a == axis + 1
           mine == SizesAlong(o.outs, a)
<1>9. a \in 1 .. nd /\ a - 1 = axis /\ a \in Nat
  BY <1>7, <1>8
<1> HIDE DEF axis, nd
<1>10. ASSUME NEW k \in 1 .. Len(o.outs)
       PROVE  /\ lengthOK(k) /\ mine[k] = sizes[k] /\ mine[k] \in Nat
  <2>1. lengthOK(k) /\ ~(axis >= rank(o.outs[k])) /\ o.outs[k].shape[axis + 1] = sizes[k]
    <3> HIDE DEF lengthOK, sizes
    <3> QED
      BY <1>1
  <2>2. /\ \A x \in 1 .. rank(o.outs[k]) : o.outs[k].shape[x] \in Nat
        /\ rank(o.outs[k]) \in Nat
    BY Operands, TensorFacts
  <2>3. a \in 1 .. rank(o.outs[k])
    BY <1>7, <1>8, <2>1, <2>2
  <2>4. mine[k] = o.outs[k].shape[a]
    BY DEF SizesAlong
  <2> QED
    BY <2>1, <2>2, <2>3, <2>4
<1>11. sizes = mine /\ mine \in Seq(Int) /\ Len(mine) = Len(o.outs)
  <2>1. sizes = [k \in 1 .. Len(o.outs) |-> sizes[k]]
    BY <1>1 DEF Resolved
  <2>2. mine = [k \in 1 .. Len(o.outs) |-> mine[k]]
    BY DEF SizesAlong
  <2>0. \A k \in 1 .. Len(o.outs) : mine[k] = sizes[k]
    BY <1>10
  <2> HIDE DEF sizes, mine
  <2>3. sizes = mine
    BY <2>0, <2>1, <2>2
  <2>4. mine \in [1 .. Len(o.outs) -> Int]
    <3>1. \A k \in 1 .. Len(o.outs) : mine[k] \in Int
      BY <1>10
    <3> QED
      BY <2>2, <3>1, Zenon
  <2> QED
    BY <1>2, <2>3, <2>4
<1>12. SumOfFirst(mine, Len(mine)) = whole
  <2>1. SumOfFirst(sizes, Len(o.ins[2].const)) = whole
    <3> HIDE DEF whole
    <3> QED
      BY <1>1 DEF SizesOK
  <2> HIDE DEF sizes, mine, whole
  <2> QED
    BY <1>1, <1>11, <2>1
<1>13. ASSUME NEW k \in 1 .. Len(o.outs)
       PROVE  [j \in 1 .. outer |-> piece(j - 1, k)] = SplitBlocks(o, a, k)
  <2>1. inner = product(in.shape, a, Len(in.shape)) /\ outer = product(in.shape, 0, a - 1) /\ whole = in.shape[a]
    BY <1>7, <1>9
  <2> HIDE DEF sizes, mine, whole, inner, outer
  <2>2. SplitBlocks(o, a, k) =
          [j \in 1 .. outer |-> Slice(Contents(o, 1), ((j - 1) * whole + SumOfFirst(mine, k - 1)) * inner, mine[k] * inner)]
    BY <2>1 DEF SplitBlocks, mine
  <2> QED
    BY <1>11, <2>2
<1>14. splitV(o).outs = [k \in 1 .. Len(o.outs) |-> FlattenSeq(SplitBlocks(o, a, k))]
  <2> HIDE DEF outer, piece
  <2> QED
    BY <1>1, <1>13
<1>15. \A k \in 1 .. Len(mine) : mine[k] >= 0 /\ NumElements(o.outs[k]) = mine[k] * product(in.shape, a, Len(in.shape)) * product(in.shape, 0, a - 1)
  <2> HIDE DEF mine, sizes
  <2> QED
    BY <1>7, <1>9, <1>10, <1>11
<1> QED
  <2> HIDE DEF sizes
  <2> QED
    BY <1>7, <1>8, <1>9, <1>11, <1>12, <1>14, <1>15

LEMMA SliceAt ==
  ASSUME NEW V, NEW src \in Seq(V), NEW from \in Nat, NEW n \in Nat, from + n <= Len(src)
  PROVE  /\ Slice(src, from, n) \in Seq(V) /\ Len(Slice(src, from, n)) = n
         /\ \A i \in 1 .. n : Slice(src, from, n)[i] = src[from + i]
<1>1. Slice(src, from, n) = [i \in 1 .. n |-> src[from + i]]
  <2>1. from + n - (from + 1) + 1 = n /\ \A i \in 1 .. n : from + 1 + i - 1 = from + i
    OBVIOUS
  <2> QED
    BY <2>1 DEF Slice
<1>2. \A i \in 1 .. n : src[from + i] \in V
  <2>1. ASSUME NEW i \in 1 .. n
        PROVE  src[from + i] \in V
    <3> DEFINE x == from + i
    <3>1. x \in 1 .. Len(src)
      OBVIOUS
    <3> HIDE DEF x
    <3>2. src[x] \in V
      BY <3>1
    <3> QED
      BY <3>2 DEF x
  <2> QED
    BY <2>1
<1> QED
  BY <1>1, <1>2

LEMMA ContentsAt ==
  ASSUME NEW o, NEW k \in Nat, NumElements(o.ins[k]) \in Nat
  PROVE  /\ Contents(o, k) \in Seq(Nat \X Int) /\ Len(Contents(o, k)) = NumElements(o.ins[k])
         /\ \A x \in 1 .. NumElements(o.ins[k]) : Contents(o, k)[x] = <<k, x - 1>>
BY DEF Contents

\* A block of a piece is inside the whole.
LEMMA BlockInside ==
  ASSUME NEW outer \in Nat, NEW W \in Nat, NEW inner \in Nat, NEW h \in 0 .. outer - 1,
         NEW B \in Nat, NEW size \in Nat, B + size <= W
  PROVE  (h * W + B) * inner \in Nat /\ size * inner \in Nat /\ (h * W + B) * inner + size * inner <= W * inner * outer
<1>1. (h + 1) * W <= outer * W
  BY TimesMonotone
<1> DEFINE x == h * W + B
           y == outer * W
<1>2. h * W \in Nat /\ x \in Nat /\ y \in Nat /\ x + size <= y
  <2>1. (h + 1) * W = h * W + W /\ h * W \in Nat /\ outer * W \in Nat
    OBVIOUS
  <2> QED
    BY <1>1, <2>1
<1>3. y * inner = W * inner * outer
  OBVIOUS
<1> HIDE DEF x, y
<1>4. (x + size) * inner <= y * inner
  BY <1>2, TimesMonotone
<1>5. (x + size) * inner = x * inner + size * inner /\ x * inner \in Nat /\ size * inner \in Nat
  BY <1>2
<1> QED
  BY <1>3, <1>4, <1>5 DEF x

\* Output k has at every place the element of the input that is meant.
MovesTo(o, k, out) ==
  /\ Len(out) = NumElements(o.outs[k])
  /\ \A c \in Coordinates(Extents(o, k)) :
       LET from == Source(o, k, c)
       IN out[FlatIndex(Extents(o, k), c) + 1] = <<from[1], FlatIndex(o.ins[from[1]].shape, from[2])>>

LEMMA SplitVMoves ==
  ASSUME NEW o \in OperatorsOf("SPLIT_V"), Loaded(o), splitV(o).kind = "ok", NEW k \in 1 .. Len(o.outs)
  PROVE  MovesTo(o, k, splitV(o).outs[k])
<1> DEFINE s == o.ins[1].shape
           a == PieceAxis(o)
           sizes == SizesAlong(o.outs, a)
           n == Len(s)
           W == s[a]
           inner == product(s, a, n)
           outer == product(s, 0, a - 1)
           size == sizes[k]
           B == SumOfFirst(sizes, k - 1)
           L == size * inner
           seqs == SplitBlocks(o, a, k)
           V == Nat \X Int
           off == [j \in 0 .. outer |-> j * L]
           out == FlattenSeq(seqs)
<1>1. /\ s \in Seq(Int) /\ a \in 1 .. n /\ \A x \in 1 .. n : s[x] >= 0
      /\ NumElements(o.ins[1]) = product(s, 0, n)
      /\ sizes \in Seq(Int) /\ Len(sizes) = Len(o.outs) /\ \A x \in 1 .. Len(sizes) : sizes[x] >= 0
      /\ SumOfFirst(sizes, Len(sizes)) = W
      /\ NumElements(o.outs[k]) = L * outer
      /\ splitV(o).outs[k] = out
  BY SplitFacts
<1> HIDE DEF a, sizes
<1>2. o.code = "SPLIT_V"
  BY DEF OperatorsOf
<1>3. inner \in Nat /\ outer \in Nat /\ product(s, 0, n) = W * inner * outer
  <2>0. n \in Nat /\ a \in 1 .. n
    BY <1>1
  <2>1. a - 1 \in 0 .. n /\ n \in 0 .. n /\ n \in a - 1 .. n /\ 0 <= a - 1 /\ a \in Nat /\ 0 \in Nat
    <3> HIDE DEF n
    <3> QED
      BY <2>0
  <2>2. inner \in Nat
    BY <1>1, <2>1, ProductNat
  <2>3. outer \in Nat
    BY <1>1, <2>1, ProductNat
  <2>4. product(s, 0, n) = outer * product(s, a - 1, n)
    BY <1>1, <2>1, ProductSplit
  <2>5. product(s, a - 1, n) = W * inner
    BY <1>1, ProductHead
  <2>6. W \in Int
    BY <1>1
  <2> HIDE DEF W, inner, outer
  <2> QED
    BY <2>2, <2>3, <2>4, <2>5, <2>6
<1>4. W \in Nat /\ size \in Nat /\ B \in Nat /\ B + size <= W
  <2> DEFINE m == Len(sizes)
  <2>1. m \in Nat /\ k \in 1 .. m /\ k - 1 \in 0 .. m /\ k \in k - 1 .. m /\ m \in k .. m /\ k \in 0 .. m
    BY <1>1
  <2>2. B \in Nat /\ SumOfFirst(sizes, k) = B + size
    <3>1. B \in Nat
      BY <1>1, <2>1, SumsRise
    <3>2. SumOfFirst(sizes, k) = B + size
      BY <1>1, <2>1, SumSteps
    <3> QED
      BY <3>1, <3>2
  <2>3. SumOfFirst(sizes, k) <= SumOfFirst(sizes, m)
    BY <1>1, <2>1, SumsRise
  <2>4. W \in Nat
    <3>1. s \in Seq(Int) /\ a \in 1 .. Len(s) /\ s[a] >= 0
      BY <1>1
    <3> QED
      BY <3>1
  <2>5. size \in Nat
    <3>1. sizes \in Seq(Int) /\ k \in 1 .. Len(sizes) /\ sizes[k] >= 0
      BY <1>1, <2>1
    <3> QED
      BY <3>1
  <2>6. SumOfFirst(sizes, m) = W
    BY <1>1
  <2> HIDE DEF W, size, B
  <2> QED
    BY <2>2, <2>3, <2>4, <2>5, <2>6
<1>5. seqs = [j \in 1 .. outer |-> Slice(Contents(o, 1), ((j - 1) * W + B) * inner, L)]
  BY DEF SplitBlocks, sizes
<1> HIDE DEF seqs, W, inner, outer, B, size
<1>6. /\ Contents(o, 1) \in Seq(V) /\ Len(Contents(o, 1)) = W * inner * outer
      /\ \A x \in 1 .. W * inner * outer : Contents(o, 1)[x] = <<1, x - 1>>
  <2>1. W * inner \in Nat
    BY <1>3, <1>4
  <2>2. W * inner * outer \in Nat
    BY <1>3, <2>1
  <2>3. NumElements(o.ins[1]) = W * inner * outer
    BY <1>1, <1>3, Zenon
  <2> QED
    BY <2>2, <2>3, ContentsAt
<1> HIDE DEF V
<1> DEFINE block(h) == seqs[h + 1]
           place(h, i) == (h * W + B) * inner + i
<1>7. ASSUME NEW h \in 0 .. outer - 1
      PROVE  /\ block(h) \in Seq(V) /\ Len(block(h)) = L
             /\ \A i \in 1 .. L : /\ block(h)[i] = Contents(o, 1)[place(h, i)]
                                  /\ place(h, i) \in 1 .. W * inner * outer
             /\ (h * W + B) * inner \in Nat
  <2> DEFINE from == (h * W + B) * inner
  <2>1. from \in Nat /\ L \in Nat /\ from + L <= W * inner * outer
    BY <1>3, <1>4, BlockInside
  <2>2. h + 1 \in 1 .. outer /\ (h + 1) - 1 = h
    BY <1>3
  <2>3. seqs[h + 1] = Slice(Contents(o, 1), from, L)
    BY <1>5, <2>2
  <2> HIDE DEF from, L
  <2>4. /\ Slice(Contents(o, 1), from, L) \in Seq(V) /\ Len(Slice(Contents(o, 1), from, L)) = L
        /\ \A i \in 1 .. L : Slice(Contents(o, 1), from, L)[i] = Contents(o, 1)[from + i]
    BY <1>6, <2>1, SliceAt
  <2> DEFINE total == W * inner * outer
  <2>5. total \in Nat
    BY <1>3, <1>4
  <2>6. \A i \in 1 .. L : from + i \in 1 .. total
    <3> HIDE DEF total
    <3> QED
      BY <2>1, <2>5 DEF total
  <2> QED
    BY <2>1, <2>3, <2>4, <2>6 DEF from
<1>8. L \in Nat
  BY <1>3, <1>4
<1> HIDE DEF L
<1>9. Len(seqs) = outer /\ seqs \in Seq(Seq(V)) /\ \A j \in 1 .. outer : seqs[j] \in Seq(V) /\ Len(seqs[j]) = L
  <2>1. ASSUME NEW j \in 1 .. outer
        PROVE  seqs[j] \in Seq(V) /\ Len(seqs[j]) = L
    <3>1. j - 1 \in 0 .. outer - 1 /\ (j - 1) + 1 = j
      BY <1>3
    <3>2. block(j - 1) \in Seq(V) /\ Len(block(j - 1)) = L
      <4> HIDE DEF block
      <4> QED
        BY <1>7, <3>1
    <3> QED
      BY <3>1, <3>2
  <2>2. DOMAIN seqs = 1 .. outer /\ seqs = [j \in 1 .. outer |-> seqs[j]]
    BY <1>5
  <2>3. seqs \in [1 .. outer -> Seq(V)]
    BY <2>1, <2>2
  <2> QED
    BY <1>3, <2>1, <2>3
<1>10. Offsets(seqs, off)
  <2>1. \A j \in 0 .. outer : off[j] = j * L /\ j * L \in Nat
    BY <1>3, <1>8
  <2>2. \A j \in 1 .. outer : j - 1 \in 0 .. outer /\ j \in 0 .. outer /\ (j - 1) * L + L = j * L
    BY <1>3, <1>8
  <2>3. 0 * L = 0 /\ 0 \in 0 .. outer
    BY <1>3, <1>8
  <2> QED
    BY <1>9, <2>1, <2>2, <2>3 DEF Offsets
<1>11. Len(out) = NumElements(o.outs[k])
  <2>1. CASE outer = 0
    <3>1. out = seqs /\ L * 0 = 0
      BY <1>8, <1>9, <2>1 DEF FlattenSeq
    <3> HIDE DEF out
    <3> QED
      BY <1>1, <1>9, <2>1, <3>1 DEF L
  <2>2. CASE outer # 0
    <3>1. Len(seqs) > 0
      BY <1>3, <1>9, <2>2
    <3>2. Len(out) = off[Len(seqs)]
      <4> HIDE DEF off
      <4> QED
        BY <1>9, <1>10, <3>1, FlattenedAt
    <3>3. off[Len(seqs)] = outer * L /\ outer * L = L * outer
      BY <1>3, <1>8, <1>9
    <3> QED
      BY <1>1, <3>2, <3>3 DEF L
  <2> QED
    BY <2>1, <2>2
<1> DEFINE t == Extents(o, k)
<1>12. t \in Seq(Int) /\ Len(t) = n /\ t[a] = size /\ \A x \in 1 .. n : x # a => t[x] = s[x]
  <2>1. size = o.outs[k].shape[a]
    BY DEF size, sizes, SizesAlong
  <2>2. t = [s EXCEPT ![a] = size]
    BY <1>2, <2>1 DEF Extents, a
  <2> HIDE DEF t
  <2> QED
    BY <1>1, <1>4, <2>2
<1>13. ASSUME NEW c \in Coordinates(t)
       PROVE  LET from == Source(o, k, c)
              IN out[FlatIndex(t, c) + 1] = <<from[1], FlatIndex(o.ins[from[1]].shape, from[2])>>
  <2> DEFINE d == [c EXCEPT ![a] = @ + 1 * B]
  <2>1. Source(o, k, c) = <<1, d>>
    <3>1. B = PieceStart(o.outs, PieceAxis(o), k)
      BY DEF B, PieceStart, sizes, a
    <3> QED
      BY <1>2, <3>1 DEF Source, a
  <2>2. Within(t, c)
    BY <1>12, CoordinatesAreWithin
  <2> HIDE DEF t
  <2>3. c \in [1 .. n -> Int] /\ c[a] \in 0 .. size - 1 /\ \A x \in 1 .. n : c[x] \in 0 .. t[x] - 1
    BY <1>1, <1>12, <2>2 DEF Within
  <2>4. d \in [1 .. n -> Int] /\ d[a] = c[a] + B /\ \A x \in 1 .. n : x # a => d[x] = c[x]
    BY <1>1, <1>4, <2>3
  <2> HIDE DEF d
  <2>5. Within(s, d)
    <3>1. ASSUME NEW x \in 1 .. n
          PROVE  d[x] \in 0 .. s[x] - 1
      <4>1. CASE x = a
        <5>1. d[x] = c[a] + B /\ c[a] \in 0 .. size - 1 /\ s[x] = W
          BY <2>3, <2>4, <4>1 DEF W
        <5> QED
          BY <1>4, <5>1
      <4>2. CASE x # a
        BY <1>12, <2>3, <2>4, <4>2
      <4> QED
        BY <4>1, <4>2
    <3> QED
      BY <2>4, <3>1 DEF Within
  <2>6. PICK head, tail : SplitAt(s, t, a, d, c, head, tail)
    <3>1. \A x \in 1 .. Len(s) : s[x] >= 0 /\ t[x] >= 0
      <4>1. size >= 0
        BY <1>4
      <4> QED
        BY <1>1, <1>12, <4>1
    <3>2. \A x \in 1 .. Len(s) : x # a => t[x] = s[x] /\ c[x] = d[x]
      BY <1>12, <2>4
    <3> QED
      BY <1>1, <1>12, <2>2, <2>5, <3>1, <3>2, AroundAxis
  <2>7. /\ head \in 0 .. outer - 1 /\ tail \in 0 .. inner - 1
        /\ FlatIndex(s, d) = (head * W + (c[a] + B)) * inner + tail
        /\ FlatIndex(t, c) = (head * size + c[a]) * inner + tail
    BY <1>12, <2>4, <2>6 DEF SplitAt, outer, inner, W
  <2> DEFINE r == c[a] * inner + tail
             i == r + 1
             j == head + 1
  <2>8. r \in 0 .. L - 1
    BY <1>3, <1>4, <2>3, <2>7, RowMajor DEF L
  <2>9. i \in 1 .. L /\ r \in Int /\ i = r + 1
    BY <1>8, <2>8
  <2>10. FlatIndex(t, c) = head * L + r /\ FlatIndex(s, d) = (head * W + B) * inner + r
    <3>1. /\ head \in Int /\ size \in Int /\ W \in Int /\ B \in Int /\ c[a] \in Int /\ inner \in Int
          /\ tail \in Int
      BY <1>3, <1>4, <2>3, <2>7
    <3>2. /\ (head * size + c[a]) * inner + tail = head * (size * inner) + (c[a] * inner + tail)
          /\ (head * W + (c[a] + B)) * inner + tail = (head * W + B) * inner + (c[a] * inner + tail)
      BY <3>1, FromItsStart
    <3> QED
      BY <2>7, <3>2 DEF L
  <2>11. /\ j \in 1 .. outer /\ Len(seqs[j]) = L /\ head * L \in Int /\ (head * W + B) * inner \in Int
         /\ seqs[j][i] = Contents(o, 1)[place(head, i)]
         /\ place(head, i) \in 1 .. W * inner * outer
    <3>1. j \in 1 .. outer /\ head * L \in Int
      BY <1>3, <1>8, <2>7
    <3>2. block(head) = seqs[j]
      OBVIOUS
    <3>3. /\ Len(block(head)) = L /\ (head * W + B) * inner \in Nat
          /\ block(head)[i] = Contents(o, 1)[place(head, i)]
          /\ place(head, i) \in 1 .. W * inner * outer
      <4> HIDE DEF i, block, place
      <4> QED
        BY <1>7, <2>7, <2>9
    <3> HIDE DEF block, i, j, place
    <3> QED
      BY <3>1, <3>2, <3>3
  <2> HIDE DEF r
  <2>12. Spot(off, j, i) = FlatIndex(t, c) + 1
    <3>1. j - 1 = head /\ head \in 0 .. outer /\ off[head] = head * L
      BY <1>3, <2>7
    <3> HIDE DEF off
    <3> QED
      BY <2>9, <2>10, <2>11, <3>1 DEF Spot
  <2>13. out[Spot(off, j, i)] = seqs[j][i]
    <3>1. Len(seqs) > 0 /\ j \in 1 .. Len(seqs) /\ i \in 1 .. Len(seqs[j])
      BY <1>3, <1>9, <2>9, <2>11
    <3> HIDE DEF off, i, j
    <3>2. \A x \in 1 .. Len(seqs) : \A y \in 1 .. Len(seqs[x]) : FlattenSeq(seqs)[Spot(off, x, y)] = seqs[x][y]
      BY <1>9, <1>10, <3>1, FlattenedAt
    <3> QED
      BY <3>1, <3>2
  <2>14. seqs[j][i] = <<1, FlatIndex(s, d)>>
    <3> DEFINE x == place(head, i)
    <3>1. x \in 1 .. W * inner * outer /\ seqs[j][i] = Contents(o, 1)[x]
      BY <2>11
    <3>2. x - 1 = FlatIndex(s, d)
      BY <2>9, <2>10, <2>11
    <3> HIDE DEF x, i, j
    <3>3. Contents(o, 1)[x] = <<1, x - 1>>
      BY <1>6, <3>1
    <3> QED
      BY <3>1, <3>2, <3>3
  <2> QED
    BY <2>1, <2>12, <2>13, <2>14
<1> QED
  BY <1>1, <1>11, <1>13 DEF MovesTo

-----------------------------------------------------------------------------
(* CONCATENATION moves what it means. *)

\* Input k's part of the output for index h of the axes before.
ConcatenationBlock(o, a, h, k) ==
  LET s == o.outs[1].shape
      length == SizesAlong(o.ins, a)[k] * product(s, a, Len(s))
  IN Slice(Contents(o, k), h * length, length)

ConcatenationBlocks(o, a) ==
  LET m == Len(o.ins)
  IN [n \in 1 .. product(o.outs[1].shape, 0, a - 1) * m |->
        ConcatenationBlock(o, a, (n - 1) \div m, 1 + ((n - 1) % m))]

LEMMA ConcatenationFacts ==
  ASSUME NEW o \in OperatorsOf("CONCATENATION"), Loaded(o), concatenation(o).kind = "ok"
  PROVE  LET s == o.outs[1].shape
             a == PieceAxis(o)
             sizes == SizesAlong(o.ins, a)
         IN /\ Len(o.outs) = 1 /\ Len(o.ins) \in Nat /\ Len(o.ins) > 0
            /\ s \in Seq(Int) /\ a \in 1 .. Len(s) /\ \A x \in 1 .. Len(s) : s[x] >= 0
            /\ NumElements(o.outs[1]) = product(s, 0, Len(s))
            /\ sizes \in Seq(Int) /\ Len(sizes) = Len(o.ins) /\ \A k \in 1 .. Len(sizes) : sizes[k] >= 0
            /\ SumOfFirst(sizes, Len(sizes)) = s[a]
            /\ \A k \in 1 .. Len(sizes) :
                 /\ o.ins[k].shape \in Seq(Int) /\ Len(o.ins[k].shape) = Len(s)
                 /\ o.ins[k].shape[a] = sizes[k]
                 /\ \A x \in 1 .. Len(s) : x # a => o.ins[k].shape[x] = s[x]
                 /\ NumElements(o.ins[k]) = sizes[k] * product(s, a, Len(s)) * product(s, 0, a - 1)
            /\ concatenation(o).outs = <<SubSeq(FlattenSeq(ConcatenationBlocks(o, a)), 1, NumElements(o.outs[1]))>>
<1> DEFINE out   == o.outs[1]
           nd    == rank(out)
           axis  == resolveAxis(o.opt.axis, nd)
           outer == product(out.shape, 0, axis)
           block(k) == product(o.ins[k].shape, axis, nd)
           m     == Len(o.ins)
           turns == Nest(outer, m)
           copied == FlattenSeq([n \in 1 .. Len(turns) |->
                        Slice(Contents(o, turns[n][2]), turns[n][1] * block(turns[n][2]), block(turns[n][2]))])
<1>1. o.code = "CONCATENATION" /\ o.opt.axis \in Int
  BY DEF OperatorsOf, OptionsOf
<1>2. ConcatenationRule(o)
  BY <1>1 DEF Loaded, validateOperator
<1>3. /\ m >= 1 /\ Len(o.outs) = 1 /\ InRank(axis, nd)
      /\ \A k \in 1 .. m :
           /\ rank(o.ins[k]) = nd
           /\ \A x \in 1 .. nd : x # axis + 1 => o.ins[k].shape[x] = out.shape[x]
      /\ SumOfFirst(SizesAlong(o.ins, axis + 1), m) = out.shape[axis + 1]
  BY <1>2 DEF ConcatenationRule
<1>4. concatenation(o).outs = <<SubSeq(copied, 1, NumElements(out))>>
  BY DEF concatenation, Error, Panic, Wrote
<1>5. out \in TensorInfo /\ TensorOK(out) /\ m \in Nat
  BY <1>3, Operands
<1>6. /\ out.shape \in Seq(Int) /\ nd \in Nat /\ nd = Len(out.shape)
      /\ \A x \in 1 .. nd : out.shape[x] \in Nat
      /\ NumElements(out) = product(out.shape, 0, Len(out.shape))
  BY <1>5, TensorFacts
<1> DEFINE a == axis + 1
           s == out.shape
           inner == product(s, a, Len(s))
           sizes == SizesAlong(o.ins, a)
<1>7. axis \in 0 .. nd - 1 /\ PieceAxis(o) = a
  <2>1. axis \in 0 .. nd - 1 /\ 1 + ((o.opt.axis + nd) % nd) = a
    <3>1. nd \in Nat
      BY <1>6
    <3> HIDE DEF nd
    <3> QED
      BY <1>1, <1>3, <3>1, AxisResolved
  <2>2. rank(o.ins[1]) = nd
    BY <1>3, <1>5
  <2> HIDE DEF nd
  <2> QED
    BY <1>1, <2>1, <2>2 DEF PieceAxis
<1>8. a \in 1 .. nd /\ a - 1 = axis /\ a \in Nat
  <2>1. nd \in Nat /\ axis \in 0 .. nd - 1
    BY <1>6, <1>7
  <2> HIDE DEF nd, axis
  <2> QED
    BY <2>1
<1>9. inner \in Nat /\ outer \in Nat
  <2>1. \A x \in 1 .. Len(s) : s[x] >= 0
    BY <1>6
  <2>2. axis \in 0 .. Len(s) /\ Len(s) \in 0 .. Len(s) /\ 0 \in Nat
    BY <1>6, <1>7
  <2> HIDE DEF axis, nd, s
  <2>3. inner \in Nat
    BY <1>6, <1>8, <2>1, <2>2, ProductNat DEF s
  <2>4. product(s, 0, axis) \in Nat
    BY <1>6, <1>8, <2>1, <2>2, ProductNat DEF s
  <2> QED
    BY <2>3, <2>4 DEF s
<1> HIDE DEF axis, nd
<1>10. ASSUME NEW k \in 1 .. m
       PROVE  LET t == o.ins[k].shape IN
              /\ t \in Seq(Int) /\ Len(t) = Len(s)
              /\ t[a] = sizes[k] /\ sizes[k] \in Nat
              /\ \A x \in 1 .. Len(s) : x # a => t[x] = s[x]
              /\ block(k) = sizes[k] * inner
              /\ NumElements(o.ins[k]) = sizes[k] * inner * outer
  <2> DEFINE t == o.ins[k].shape
             n == Len(s)
  <2>1. /\ rank(o.ins[k]) = nd /\ t \in Seq(Int) /\ Len(t) = rank(o.ins[k])
        /\ \A x \in 1 .. rank(o.ins[k]) : t[x] \in Nat
        /\ NumElements(o.ins[k]) = product(t, 0, Len(t))
    BY <1>3, Operands, TensorFacts
  <2>2. sizes[k] = t[a]
    BY DEF SizesAlong
  <2>3. Len(t) = n /\ n \in Nat /\ nd = n /\ a \in 1 .. n /\ t[a] \in Nat
    BY <1>6, <1>8, <2>1
  <2>4. \A x \in 1 .. n : x # a => t[x] = s[x]
    BY <1>3, <2>3
  <2> HIDE DEF s, t, a, n
  <2>5. product(t, a - 1, n) = t[a] * product(t, a, n)
    BY <2>1, <2>3, ProductHead
  <2>6. product(t, a, n) = product(s, a, n)
    <3>1. /\ \A x \in 1 .. n : x > a => t[x] = s[x]
          /\ n \in 0 .. Len(t) /\ n <= Len(s) /\ a \in Nat
      BY <2>3, <2>4 DEF n
    <3> QED
      BY <1>6, <2>1, <3>1, ProductCongruence DEF s
  <2>7. product(t, 0, a - 1) = product(s, 0, a - 1)
    <3>1. /\ \A x \in 1 .. a - 1 : t[x] = s[x]
          /\ a - 1 \in 0 .. Len(t) /\ a - 1 <= Len(s) /\ 0 \in Nat
      BY <2>3, <2>4 DEF n
    <3> QED
      BY <1>6, <2>1, <3>1, ProductCongruence DEF s
  <2>8. product(t, 0, n) = product(t, 0, a - 1) * product(t, a - 1, n)
    <3>1. a - 1 \in 0 .. Len(t) /\ n \in a - 1 .. Len(t) /\ 0 <= a - 1 /\ 0 \in Nat
      BY <2>3
    <3> QED
      BY <2>1, <3>1, ProductSplit
  <2>9. block(k) = sizes[k] * inner
    BY <1>8, <2>2, <2>3, <2>5, <2>6 DEF t, n
  <2>10. NumElements(o.ins[k]) = outer * (sizes[k] * inner)
    BY <1>8, <2>1, <2>2, <2>3, <2>5, <2>6, <2>7, <2>8 DEF s, n
  <2>11. outer * (sizes[k] * inner) = sizes[k] * inner * outer
    <3> HIDE DEF outer, inner, sizes
    <3> QED
      BY <1>9, <2>2, <2>3
  <2> QED
    BY <2>1, <2>2, <2>3, <2>4, <2>9, <2>10, <2>11 DEF t, n
<1>11. sizes \in Seq(Int) /\ Len(sizes) = m /\ \A k \in 1 .. Len(sizes) : sizes[k] >= 0
  <2>1. sizes = [k \in 1 .. m |-> sizes[k]]
    BY DEF SizesAlong
  <2> HIDE DEF sizes, m
  <2>2. \A k \in 1 .. m : sizes[k] \in Nat
    BY <1>10
  <2>3. sizes \in [1 .. m -> Int]
    BY <2>1, <2>2
  <2> QED
    BY <1>5, <2>2, <2>3
<1>12. copied = FlattenSeq(ConcatenationBlocks(o, a))
  <2>1. outer * m \in Nat /\ outer = product(out.shape, 0, a - 1)
    BY <1>5, <1>8, <1>9
  <2>2. ASSUME NEW n \in 1 .. outer * m
        PROVE  /\ turns[n] = <<(n - 1) \div m, 1 + ((n - 1) % m)>>
               /\ 1 + ((n - 1) % m) \in 1 .. m
    <3>1. (n - 1) % m \in 0 .. m - 1
      BY <1>3, <1>5, <2>1, Division
    <3>2. 1 + ((n - 1) % m) \in 1 .. m
      <4> DEFINE x == (n - 1) % m
      <4> HIDE DEF x, m
      <4> QED
        BY <1>5, <3>1 DEF x
    <3>3. turns[n] = <<(n - 1) \div m, 1 + ((n - 1) % m)>>
      BY DEF Nest
    <3> QED
      BY <3>2, <3>3
  <2>3. Len(turns) = outer * m
    BY <2>1 DEF Nest
  <2> DEFINE piece(n) == Slice(Contents(o, turns[n][2]), turns[n][1] * block(turns[n][2]), block(turns[n][2]))
  <2>4. ASSUME NEW n \in 1 .. outer * m
        PROVE  piece(n) = ConcatenationBlock(o, a, (n - 1) \div m, 1 + ((n - 1) % m))
    <3> DEFINE h == (n - 1) \div m
               k == 1 + ((n - 1) % m)
    <3>1. turns[n][1] = h /\ turns[n][2] = k /\ k \in 1 .. m
      <4>1. turns[n] = <<h, k>> /\ k \in 1 .. m
        <5> HIDE DEF turns, m
        <5> QED
          BY <2>2
      <4> HIDE DEF turns, h, k, m
      <4> QED
        BY <4>1
    <3> HIDE DEF h, k, turns, block, inner, sizes, m
    <3>2. block(k) = sizes[k] * inner
      BY <1>10, <3>1
    <3>3. piece(n) = ConcatenationBlock(o, a, h, k)
      BY <3>1, <3>2 DEF ConcatenationBlock, inner, sizes
    <3> QED
      BY <3>3 DEF h, k
  <2> HIDE DEF piece, turns, outer
  <2>5. [n \in 1 .. Len(turns) |-> piece(n)] = ConcatenationBlocks(o, a)
    BY <2>1, <2>3, <2>4 DEF ConcatenationBlocks
  <2> QED
    BY <2>5 DEF piece
<1> HIDE DEF copied
<1>13. \A x \in 1 .. Len(s) : s[x] >= 0
  BY <1>6
<1>14. SumOfFirst(sizes, Len(sizes)) = s[a]
  BY <1>3, <1>11
<1>15. concatenation(o).outs = <<SubSeq(FlattenSeq(ConcatenationBlocks(o, a)), 1, NumElements(out))>>
  BY <1>4, <1>12
<1>16. outer = product(s, 0, a - 1) /\ a \in 1 .. Len(s)
  BY <1>6, <1>8
<1> HIDE DEF a, outer, sizes
<1> QED
  BY <1>3, <1>5, <1>6, <1>7, <1>10, <1>11, <1>13, <1>14, <1>15, <1>16 DEF sizes

\* How much of the output is written before the n-th block of the m inputs.
WrittenBefore(sizes, W, inner, m, n) == ((n \div m) * W + SumOfFirst(sizes, n % m)) * inner

\* m sizes that make up W.
MakeUp(sizes, m, W) ==
  /\ sizes \in Seq(Int) /\ Len(sizes) = m /\ \A k \in 1 .. m : sizes[k] >= 0
  /\ SumOfFirst(sizes, m) = W

\* The block of input r + 1 for index h of the axes before, counted from 0.
Turn(h, m, r) == h * m + r

\* In every turn of the loops, the next block is where the last one ended.
LEMMA BlocksFollow ==
  ASSUME NEW sizes, NEW m \in Nat, m > 0, NEW W, MakeUp(sizes, m, W),
         NEW inner \in Nat, NEW h \in Nat, NEW r \in 0 .. m - 1
  PROVE  LET before(n) == WrittenBefore(sizes, W, inner, m, n)
         IN /\ before(Turn(h, m, r)) = (h * W + SumOfFirst(sizes, r)) * inner
            /\ before(Turn(h, m, r)) \in Nat
            /\ before(Turn(h, m, r) + 1) = before(Turn(h, m, r)) + sizes[r + 1] * inner
<1> DEFINE n == h * m + r
           before(x) == WrittenBefore(sizes, W, inner, m, x)
           sum(k) == SumOfFirst(sizes, k)
           k == r + 1
<1>1. n \div m = h /\ n % m = r
  BY QuotientAndRest
<1>2. before(n) = (h * W + sum(r)) * inner
  BY <1>1 DEF WrittenBefore
<1>3. /\ r \in 0 .. m /\ k \in 1 .. m /\ k - 1 = r /\ m \in 0 .. m /\ m \in r .. m
      /\ r \in Nat /\ 0 \in 0 .. m
  OBVIOUS
<1>4. sum(r) \in Nat /\ W \in Nat
  BY <1>3, SumsRise DEF MakeUp
<1>5. sum(k) = sum(r) + sizes[k] /\ sum(0) = 0 /\ sizes[k] \in Int /\ sum(m) = W
  <2>1. sum(k) = sum(k - 1) + sizes[k] /\ sum(0) = 0
    BY <1>3, SumSteps DEF MakeUp
  <2>2. sum(m) = W /\ sizes[k] \in Int
    BY <1>3 DEF MakeUp
  <2> HIDE DEF sum, k
  <2> QED
    BY <1>3, <2>1, <2>2
<1> HIDE DEF sum
<1>6. before(n) \in Nat
  <2> DEFINE w == h * W + sum(r)
  <2>1. w \in Nat
    BY <1>4
  <2> HIDE DEF before, w
  <2>2. w * inner \in Nat
    BY <2>1
  <2> QED
    BY <1>2, <2>2 DEF w
<1>7. before(n + 1) = before(n) + sizes[k] * inner
  <2>0. (h * W + sum(k)) * inner = (h * W + sum(r)) * inner + sizes[k] * inner
    <3> DEFINE w == h * W
    <3>1. w \in Int /\ sum(r) \in Int /\ sizes[k] \in Int
      BY <1>4, <1>5
    <3> HIDE DEF w, k
    <3>2. (w + (sum(r) + sizes[k])) * inner = (w + sum(r)) * inner + sizes[k] * inner
      BY <3>1
    <3> QED
      BY <1>5, <3>2 DEF w
  <2>1. CASE k < m
    <3>1. n + 1 = h * m + k /\ k \in 0 .. m - 1
      BY <1>3, <2>1
    <3> HIDE DEF k, n
    <3>2. (h * m + k) \div m = h /\ (h * m + k) % m = k
      BY <3>1, QuotientAndRest
    <3>3. before(n + 1) = (h * W + sum(k)) * inner
      BY <3>1, <3>2 DEF WrittenBefore, sum
    <3> HIDE DEF before
    <3> QED
      BY <1>2, <2>0, <3>3
  <2>2. CASE ~(k < m)
    <3>1. k = m /\ n + 1 = (h + 1) * m + 0
      <4>1. k = m
        BY <1>3, <2>2
      <4>2. (h + 1) * m = h * m + m
        OBVIOUS
      <4>3. n + 1 = h * m + k
        OBVIOUS
      <4> QED
        BY <4>1, <4>2, <4>3
    <3> HIDE DEF k, n
    <3>2. ((h + 1) * m + 0) \div m = h + 1 /\ ((h + 1) * m + 0) % m = 0
      <4>1. h + 1 \in Int /\ 0 \in 0 .. m - 1
        OBVIOUS
      <4> QED
        BY <4>1, QuotientAndRest
    <3>3. before(n + 1) = ((h + 1) * W + sum(0)) * inner
      BY <3>1, <3>2 DEF WrittenBefore, sum
    <3>4. (h + 1) * W + sum(0) = h * W + sum(k)
      <4>1. sum(k) = W
        BY <1>5, <3>1
      <4> QED
        BY <1>4, <1>5, <4>1
    <3> HIDE DEF before
    <3> QED
      BY <1>2, <2>0, <3>3, <3>4
  <2> QED
    BY <2>1, <2>2
<1> QED
  BY <1>2, <1>6, <1>7 DEF sum, Turn

LEMMA ConcatenationMoves ==
  ASSUME NEW o \in OperatorsOf("CONCATENATION"), Loaded(o), concatenation(o).kind = "ok"
  PROVE  MovesTo(o, 1, concatenation(o).outs[1])
<1> DEFINE s == o.outs[1].shape
           a == PieceAxis(o)
           sizes == SizesAlong(o.ins, a)
           n == Len(s)
           m == Len(o.ins)
           W == s[a]
           inner == product(s, a, n)
           outer == product(s, 0, a - 1)
           sum(k) == SumOfFirst(sizes, k)
           length(k) == sizes[k] * inner
           seqs == ConcatenationBlocks(o, a)
           V == Nat \X Int
           before(x) == WrittenBefore(sizes, W, inner, m, x)
           off == [x \in 0 .. outer * m |-> before(x)]
           whole == FlattenSeq(seqs)
           total == W * inner * outer
           out == SubSeq(whole, 1, NumElements(o.outs[1]))
<1>0. /\ m \in Nat /\ m > 0
      /\ s \in Seq(Int) /\ a \in 1 .. n /\ \A x \in 1 .. n : s[x] >= 0
      /\ NumElements(o.outs[1]) = product(s, 0, n)
      /\ sizes \in Seq(Int) /\ Len(sizes) = m /\ \A x \in 1 .. Len(sizes) : sizes[x] >= 0
      /\ sum(Len(sizes)) = W
      /\ \A k \in 1 .. Len(sizes) :
           /\ o.ins[k].shape \in Seq(Int) /\ Len(o.ins[k].shape) = n
           /\ o.ins[k].shape[a] = sizes[k]
           /\ \A x \in 1 .. n : x # a => o.ins[k].shape[x] = s[x]
           /\ NumElements(o.ins[k]) = sizes[k] * inner * outer
      /\ concatenation(o).outs = <<out>>
  BY ConcatenationFacts
<1>1. /\ m \in Nat /\ m > 0
      /\ s \in Seq(Int) /\ a \in 1 .. n /\ \A x \in 1 .. n : s[x] >= 0
      /\ NumElements(o.outs[1]) = product(s, 0, n)
      /\ sizes \in Seq(Int) /\ Len(sizes) = m /\ \A x \in 1 .. m : sizes[x] >= 0
      /\ sum(m) = W
      /\ \A k \in 1 .. m :
           /\ o.ins[k].shape \in Seq(Int) /\ Len(o.ins[k].shape) = n
           /\ o.ins[k].shape[a] = sizes[k]
           /\ \A x \in 1 .. n : x # a => o.ins[k].shape[x] = s[x]
           /\ NumElements(o.ins[k]) = sizes[k] * inner * outer
      /\ concatenation(o).outs[1] = out
  <2> HIDE DEF sizes, a, m, n, inner, outer, sum, out, W
  <2> QED
    BY <1>0
<1> HIDE DEF a, sizes
<1>2. o.code = "CONCATENATION"
  BY DEF OperatorsOf
<1>3. inner \in Nat /\ outer \in Nat /\ product(s, 0, n) = total /\ W \in Nat /\ total \in Nat
  <2>0. n \in Nat /\ a \in 1 .. n
    BY <1>1
  <2>1. a - 1 \in 0 .. n /\ n \in 0 .. n /\ n \in a - 1 .. n /\ 0 <= a - 1 /\ a \in Nat /\ 0 \in Nat
    <3> HIDE DEF n
    <3> QED
      BY <2>0
  <2>2. inner \in Nat
    BY <1>1, <2>1, ProductNat
  <2>3. outer \in Nat
    BY <1>1, <2>1, ProductNat
  <2>4. product(s, 0, n) = outer * product(s, a - 1, n)
    BY <1>1, <2>1, ProductSplit
  <2>5. product(s, a - 1, n) = W * inner
    BY <1>1, ProductHead
  <2>6. W \in Nat
    BY <1>1
  <2> HIDE DEF W, inner, outer
  <2> QED
    BY <2>2, <2>3, <2>4, <2>5, <2>6
<1>4. \A k \in 1 .. m : sizes[k] \in Nat
  BY <1>1
<1>5. MakeUp(sizes, m, W)
  BY <1>1 DEF MakeUp
<1> HIDE DEF W, inner, outer, total, m, n
<1>6. \A k \in 1 .. m : length(k) \in Nat
  <2>1. ASSUME NEW k \in 1 .. m
        PROVE  length(k) \in Nat
    <3>1. sizes[k] \in Nat
      BY <1>4
    <3> QED
      BY <1>3, <3>1
  <2> HIDE DEF length
  <2> QED
    BY <2>1
<1> HIDE DEF V
<1>7. ASSUME NEW h \in 0 .. outer - 1, NEW k \in 1 .. m
      PROVE  LET b == ConcatenationBlock(o, a, h, k) IN
             /\ b \in Seq(V) /\ Len(b) = length(k)
             /\ \A i \in 1 .. length(k) : b[i] = <<k, h * length(k) + i - 1>>
  <2> DEFINE x == length(k)
             src == Contents(o, k)
  <2>1. x \in Nat /\ NumElements(o.ins[k]) = x * outer /\ x * outer \in Nat
    <3>1. NumElements(o.ins[k]) = x * outer /\ x \in Nat
      BY <1>1, <1>6
    <3> HIDE DEF x
    <3> QED
      BY <1>3, <3>1
  <2>2. /\ src \in Seq(V) /\ Len(src) = x * outer
        /\ \A y \in 1 .. x * outer : src[y] = <<k, y - 1>>
    <3>1. NumElements(o.ins[k]) \in Nat /\ k \in Nat
      BY <2>1
    <3> HIDE DEF x
    <3>2. /\ Contents(o, k) \in Seq(Nat \X Int) /\ Len(Contents(o, k)) = NumElements(o.ins[k])
          /\ \A y \in 1 .. NumElements(o.ins[k]) : Contents(o, k)[y] = <<k, y - 1>>
      BY <3>1, ContentsAt
    <3> QED
      BY <2>1, <3>2 DEF V
  <2>3. ConcatenationBlock(o, a, h, k) = Slice(src, h * x, x)
    BY DEF ConcatenationBlock, inner, sizes, n
  <2> HIDE DEF x, src
  <2>4. h * x \in Nat /\ h * x + x <= x * outer
    <3>1. (h + 1) * x <= outer * x
      BY <1>3, <2>1, TimesMonotone
    <3> QED
      BY <1>3, <2>1, <3>1
  <2>5. /\ Slice(src, h * x, x) \in Seq(V) /\ Len(Slice(src, h * x, x)) = x
        /\ \A i \in 1 .. x : Slice(src, h * x, x)[i] = src[h * x + i]
    <3> DEFINE from == h * x
    <3> HIDE DEF from
    <3>1. from \in Nat /\ from + x <= Len(src)
      BY <2>2, <2>4 DEF from
    <3>2. /\ Slice(src, from, x) \in Seq(V) /\ Len(Slice(src, from, x)) = x
          /\ \A i \in 1 .. x : Slice(src, from, x)[i] = src[from + i]
      BY <2>1, <2>2, <3>1, SliceAt
    <3> QED
      BY <3>2 DEF from
  <2>6. ASSUME NEW i \in 1 .. x
        PROVE  src[h * x + i] = <<k, h * x + i - 1>>
    <3> DEFINE y == h * x + i
               t == x * outer
    <3>1. y \in 1 .. t
      <4> DEFINE from == h * x
      <4>1. from \in Nat /\ from + x <= t /\ t \in Nat
        BY <2>1, <2>4
      <4> HIDE DEF from, t
      <4> QED
        BY <2>1, <4>1 DEF from
    <3> HIDE DEF y
    <3>2. src[y] = <<k, y - 1>>
      BY <2>2, <3>1
    <3>3. y - 1 = h * x + i - 1
      <4> DEFINE from == h * x
      <4>1. from \in Int
        BY <2>4
      <4> HIDE DEF from
      <4> QED
        BY <4>1 DEF y, from
    <3> QED
      BY <3>2, <3>3 DEF y
  <2>7. \A i \in 1 .. x : Slice(src, h * x, x)[i] = <<k, h * x + i - 1>>
    BY <2>5, <2>6
  <2> QED
    BY <2>3, <2>5, <2>7 DEF x
<1> HIDE DEF length
<1> DEFINE row(x) == (x - 1) \div m
           col(x) == 1 + ((x - 1) % m)
<1>8. outer * m \in Nat
  BY <1>1, <1>3
<1>9. ASSUME NEW x \in 1 .. outer * m
      PROVE  row(x) \in 0 .. outer - 1 /\ col(x) \in 1 .. m /\ x - 1 = row(x) * m + (col(x) - 1)
  <2>1. x - 1 \in 0 .. outer * m - 1
    BY <1>8
  <2>2. row(x) \in 0 .. outer - 1
    BY <1>1, <1>3, <2>1, QuotientBelow
  <2>3. (x - 1) % m \in 0 .. m - 1 /\ x - 1 = m * ((x - 1) \div m) + ((x - 1) % m)
    BY <1>1, <2>1, Division
  <2> DEFINE q == (x - 1) \div m
             r == (x - 1) % m
  <2>4. q \in Int /\ r \in 0 .. m - 1 /\ x - 1 = m * q + r
    BY <2>2, <2>3
  <2> HIDE DEF q, r
  <2>5. 1 + r \in 1 .. m /\ (1 + r) - 1 = r /\ x - 1 = q * m + r
    BY <1>1, <2>4
  <2> QED
    BY <2>2, <2>5 DEF q, r
<1>10. seqs = [x \in 1 .. outer * m |-> ConcatenationBlock(o, a, row(x), col(x))]
  BY DEF ConcatenationBlocks, outer, m
<1> HIDE DEF seqs, row, col
<1>11. ASSUME NEW x \in 1 .. outer * m
       PROVE  seqs[x] = ConcatenationBlock(o, a, row(x), col(x)) /\ seqs[x] \in Seq(V) /\ Len(seqs[x]) = length(col(x))
  <2>1. seqs[x] = ConcatenationBlock(o, a, row(x), col(x))
    BY <1>10
  <2> QED
    BY <1>7, <1>9, <2>1
<1>12. Len(seqs) = outer * m /\ seqs \in Seq(Seq(V))
  <2>1. seqs = [x \in 1 .. outer * m |-> seqs[x]]
    BY <1>10
  <2>2. seqs \in [1 .. outer * m -> Seq(V)]
    BY <1>11, <2>1
  <2> DEFINE N == outer * m
  <2> HIDE DEF N
  <2>3. N \in Nat /\ seqs \in [1 .. N -> Seq(V)]
    BY <1>8, <2>2 DEF N
  <2>4. Len(seqs) = N /\ seqs \in Seq(Seq(V))
    BY <2>3
  <2> QED
    BY <2>4 DEF N
<1>13. ASSUME NEW h \in Nat, NEW k \in 1 .. m
       PROVE  /\ before(h * m + (k - 1)) = (h * W + sum(k - 1)) * inner
              /\ before(h * m + (k - 1)) \in Nat
              /\ before(h * m + (k - 1) + 1) = before(h * m + (k - 1)) + length(k)
  <2> DEFINE r == k - 1
  <2>1. r \in 0 .. m - 1 /\ r + 1 = k
    BY <1>1
  <2> HIDE DEF r, before, sum
  <2>2. /\ before(h * m + r) = (h * W + sum(r)) * inner
        /\ before(h * m + r) \in Nat
        /\ before(h * m + r + 1) = before(h * m + r) + sizes[r + 1] * inner
    <3>1. m \in Nat /\ m > 0 /\ inner \in Nat /\ MakeUp(sizes, m, W)
      BY <1>1, <1>3, <1>5
    <3>2. /\ WrittenBefore(sizes, W, inner, m, Turn(h, m, r)) = (h * W + SumOfFirst(sizes, r)) * inner
          /\ WrittenBefore(sizes, W, inner, m, Turn(h, m, r)) \in Nat
          /\ WrittenBefore(sizes, W, inner, m, Turn(h, m, r) + 1)
               = WrittenBefore(sizes, W, inner, m, Turn(h, m, r)) + sizes[r + 1] * inner
      BY <2>1, <3>1, BlocksFollow
    <3> QED
      BY <3>2 DEF before, sum, Turn
  <2> QED
    BY <2>1, <2>2 DEF r, length
<1>14. ASSUME NEW h \in Nat
       PROVE  before(h * m) = h * W * inner /\ before(h * m) \in Nat
  <2>1. /\ before(h * m + (1 - 1)) = (h * W + sum(1 - 1)) * inner
        /\ before(h * m + (1 - 1)) \in Nat /\ 1 \in 1 .. m
    <3>1. 1 \in 1 .. m
      BY <1>1
    <3> HIDE DEF before, sum
    <3> QED
      BY <1>13, <3>1
  <2>2. h * m + (1 - 1) = h * m /\ h * W + sum(1 - 1) = h * W
    <3>1. sum(1 - 1) = 0
      BY <1>1, SumSteps
    <3> HIDE DEF sum
    <3> QED
      BY <1>1, <1>3, <3>1
  <2> HIDE DEF before, sum
  <2> QED
    BY <2>1, <2>2
<1>15. Offsets(seqs, off)
  <2>0. \A x \in 0 .. outer * m : off[x] = before(x)
    OBVIOUS
  <2>1. ASSUME NEW x \in 1 .. outer * m
        PROVE  before(x - 1) \in Nat /\ before(x) = before(x - 1) + Len(seqs[x])
    <3> DEFINE h == row(x)
               k == col(x)
    <3>1. h \in Nat /\ k \in 1 .. m /\ x - 1 = h * m + (k - 1) /\ Len(seqs[x]) = length(k)
      BY <1>3, <1>9, <1>11
    <3>2. x = h * m + (k - 1) + 1
      <4> HIDE DEF h, k
      <4> QED
        BY <1>1, <3>1
    <3> HIDE DEF h, k, before, sum
    <3> QED
      BY <1>13, <3>1, <3>2
  <2>2. before(0) = 0
    <3>1. 0 * m = 0 /\ 0 * W * inner = 0 /\ 0 \in Nat
      BY <1>1, <1>3
    <3> HIDE DEF before
    <3> QED
      BY <1>14, <3>1
  <2>3. before(outer * m) \in Nat
    <3> HIDE DEF before
    <3> QED
      BY <1>3, <1>14
  <2> HIDE DEF before
  <2>4. ASSUME NEW x \in 0 .. outer * m
        PROVE  before(x) \in Nat
    <3>1. CASE x = outer * m
      BY <2>3, <3>1
    <3>2. CASE x # outer * m
      <4> DEFINE y == x + 1
      <4>1. y \in 1 .. outer * m /\ y - 1 = x
        BY <1>8, <3>2
      <4> HIDE DEF y
      <4> QED
        BY <2>1, <4>1
    <3> QED
      BY <3>1, <3>2
  <2>5. \A x \in 1 .. outer * m : x \in 0 .. outer * m /\ x - 1 \in 0 .. outer * m
    BY <1>8
  <2>6. 0 \in 0 .. outer * m
    BY <1>8
  <2>7. off \in [0 .. outer * m -> Nat]
    BY <2>4
  <2> HIDE DEF off
  <2>8. \A x \in 1 .. outer * m : off[x] = off[x - 1] + Len(seqs[x])
    BY <2>0, <2>1, <2>5
  <2> QED
    BY <1>12, <2>0, <2>2, <2>6, <2>7, <2>8 DEF Offsets
<1>16. whole \in Seq(V) /\ Len(whole) = total
  <2>1. outer * W * inner = total
    BY <1>3 DEF total
  <2>2. CASE outer * m = 0
    <3>1. outer = 0
      BY <1>1, <1>3, <2>2
    <3>2. whole = seqs /\ seqs = << >>
      BY <1>12, <2>2 DEF FlattenSeq
    <3>3. total = 0
      BY <1>3, <3>1 DEF total
    <3> HIDE DEF whole
    <3> QED
      BY <3>2, <3>3
  <2>3. CASE outer * m # 0
    <3>1. Len(seqs) > 0
      BY <1>8, <1>12, <2>3
    <3>2. whole \in Seq(V) /\ Len(whole) = off[Len(seqs)]
      <4> HIDE DEF off
      <4> QED
        BY <1>12, <1>15, <3>1, FlattenedAt
    <3>3. off[outer * m] = before(outer * m)
      BY <1>8
    <3>4. before(outer * m) = outer * W * inner
      <4> HIDE DEF before
      <4> QED
        BY <1>3, <1>14
    <3> HIDE DEF off, before, whole
    <3> QED
      BY <1>12, <2>1, <3>2, <3>3, <3>4
  <2> QED
    BY <2>2, <2>3
<1>17. Len(out) = NumElements(o.outs[1]) /\ \A x \in 1 .. total : out[x] = whole[x]
  <2>1. NumElements(o.outs[1]) = total
    BY <1>1, <1>3
  <2> HIDE DEF whole
  <2>2. Len(SubSeq(whole, 1, total)) = total /\ \A x \in 1 .. total : SubSeq(whole, 1, total)[x] = whole[x]
    BY <1>3, <1>16
  <2> QED
    BY <2>1, <2>2
<1>18. Extents(o, 1) = s
  BY <1>2 DEF Extents
<1> HIDE DEF out
<1>19. ASSUME NEW c \in Coordinates(s)
       PROVE  LET from == Source(o, 1, c)
              IN out[FlatIndex(s, c) + 1] = <<from[1], FlatIndex(o.ins[from[1]].shape, from[2])>>
  <2> DEFINE In(i) == PieceStart(o.ins, PieceAxis(o), i) <= c[PieceAxis(o)] /\ c[PieceAxis(o)] < PieceStart(o.ins, PieceAxis(o), i + 1)
             j == CHOOSE i \in 1 .. Len(o.ins) : In(i)
             t == o.ins[j].shape
             B == sum(j - 1)
             d == [c EXCEPT ![a] = @ + (-1) * B]
  <2>1. Within(s, c)
    BY <1>1, CoordinatesAreWithin
  <2>2. c \in [1 .. n -> Int] /\ c[a] \in 0 .. W - 1 /\ \A x \in 1 .. n : c[x] \in 0 .. s[x] - 1
    BY <1>1, <2>1 DEF Within, n, W
  <2>3. \A i \in 1 .. m : In(i) <=> sum(i - 1) <= c[a] /\ c[a] < sum(i)
    <3>1. \A i \in 1 .. m : (i + 1) - 1 = i
      OBVIOUS
    <3> QED
      BY <3>1 DEF PieceStart, sizes, a
  <2>4. j \in 1 .. m /\ B <= c[a] /\ c[a] < sum(j)
    <3>1. PICK i \in 1 .. m : sum(i - 1) <= c[a] /\ c[a] < sum(i)
      <4>1. c[a] \in 0 .. sum(m) - 1 /\ Len(sizes) = m
        BY <1>1, <2>2
      <4> QED
        BY <1>1, <4>1, PlaceHasPiece
    <3>2. \E x \in 1 .. m : In(x)
      <4> HIDE DEF In
      <4> QED
        BY <2>3, <3>1
    <3>3. j \in 1 .. m /\ In(j)
      <4> HIDE DEF In
      <4> QED
        BY <3>2 DEF m
    <3> HIDE DEF In, j
    <3> QED
      BY <2>3, <3>3
  <2>5. Source(o, 1, c) = <<j, d>>
    <3>1. B = PieceStart(o.ins, PieceAxis(o), j)
      BY DEF PieceStart, sizes, a
    <3> HIDE DEF B
    <3> QED
      BY <1>2, <3>1 DEF Source, a
  <2> HIDE DEF j
  <2> DEFINE size == sizes[j]
  <2>6. size \in Nat /\ B \in Nat /\ c[a] < B + size
    <3>1. j - 1 \in 0 .. m /\ j \in j - 1 .. m /\ j \in 1 .. m
      BY <1>1, <2>4
    <3>2. sum(j) = sum(j - 1) + sizes[j]
      BY <1>1, <3>1, SumSteps
    <3>3. sum(j - 1) \in Nat
      BY <1>1, <3>1, SumsRise
    <3> HIDE DEF sum
    <3> QED
      BY <1>4, <2>4, <3>1, <3>2, <3>3
  <2> HIDE DEF B
  <2>7. t \in Seq(Int) /\ Len(t) = n /\ t[a] = size /\ \A x \in 1 .. n : x # a => t[x] = s[x]
    BY <1>1, <2>4
  <2> HIDE DEF t, size
  <2>8. d \in [1 .. n -> Int] /\ d[a] = c[a] - B /\ \A x \in 1 .. n : x # a => d[x] = c[x]
    BY <1>1, <2>2, <2>6
  <2> HIDE DEF d
  <2>9. d[a] \in 0 .. size - 1 /\ c[a] = d[a] + B
    BY <2>2, <2>4, <2>6, <2>8
  <2>10. Within(t, d)
    <3>1. ASSUME NEW x \in 1 .. n
          PROVE  d[x] \in 0 .. t[x] - 1
      <4>1. CASE x = a
        BY <2>7, <2>9, <4>1
      <4>2. CASE x # a
        BY <2>2, <2>7, <2>8, <4>2
      <4> QED
        BY <4>1, <4>2
    <3> QED
      BY <2>7, <2>8, <3>1 DEF Within
  <2>11. PICK head, tail : SplitAt(s, t, a, c, d, head, tail)
    <3>1. \A x \in 1 .. Len(s) : s[x] >= 0 /\ t[x] >= 0
      <4>1. size >= 0
        BY <2>6
      <4> QED
        BY <1>1, <2>7, <4>1 DEF n
    <3>2. \A x \in 1 .. Len(s) : x # a => t[x] = s[x] /\ d[x] = c[x]
      BY <2>7, <2>8 DEF n
    <3>3. Len(t) = Len(s) /\ a \in 1 .. Len(s)
      BY <1>1, <2>7 DEF n
    <3> QED
      BY <1>1, <2>1, <2>7, <2>10, <3>1, <3>2, <3>3, AroundAxis
  <2>12. /\ head \in 0 .. outer - 1 /\ tail \in 0 .. inner - 1
         /\ FlatIndex(s, c) = (head * W + (d[a] + B)) * inner + tail
         /\ FlatIndex(t, d) = (head * size + d[a]) * inner + tail
    BY <2>7, <2>9, <2>11 DEF SplitAt, outer, inner, W, n
  <2> DEFINE L == length(j)
             r == d[a] * inner + tail
             i == r + 1
             x == head * m + (j - 1) + 1
  <2>13. L = size * inner /\ L \in Nat
    BY <1>6, <2>4 DEF length, size
  <2>14. r \in 0 .. L - 1
    BY <1>3, <2>6, <2>9, <2>12, <2>13, RowMajor
  <2>15. i \in 1 .. L /\ r \in Int /\ i = r + 1
    <3> HIDE DEF r, L
    <3> QED
      BY <2>13, <2>14
  <2>16. FlatIndex(t, d) = head * L + r /\ FlatIndex(s, c) = (head * W + B) * inner + r
    <3>1. /\ head \in Int /\ size \in Int /\ W \in Int /\ B \in Int /\ d[a] \in Int /\ inner \in Int
          /\ tail \in Int
      BY <1>3, <2>6, <2>9, <2>12
    <3>2. /\ (head * size + d[a]) * inner + tail = head * (size * inner) + (d[a] * inner + tail)
          /\ (head * W + (d[a] + B)) * inner + tail = (head * W + B) * inner + (d[a] * inner + tail)
      BY <3>1, FromItsStart
    <3> HIDE DEF L
    <3> QED
      BY <2>12, <2>13, <3>2
  <2> HIDE DEF r, L
  <2>17. x \in 1 .. outer * m /\ x - 1 = head * m + (j - 1)
    <3>1. head * m + (j - 1) \in 0 .. outer * m - 1
      <4>1. j - 1 \in 0 .. m - 1
        BY <1>1, <2>4
      <4> QED
        BY <1>1, <1>3, <2>12, <4>1, RowMajor
    <3> QED
      BY <1>8, <3>1
  <2>18. row(x) = head /\ col(x) = j
    <3>1. j - 1 \in 0 .. m - 1 /\ 1 + (j - 1) = j /\ head \in Int
      BY <1>1, <2>4, <2>12
    <3>2. (head * m + (j - 1)) \div m = head /\ (head * m + (j - 1)) % m = j - 1
      BY <1>1, <3>1, QuotientAndRest
    <3> HIDE DEF x
    <3> QED
      BY <2>17, <3>1, <3>2 DEF row, col
  <2>19. seqs[x] = ConcatenationBlock(o, a, head, j) /\ Len(seqs[x]) = L
    <3> HIDE DEF x
    <3> QED
      BY <1>11, <2>17, <2>18 DEF L
  <2>20. seqs[x][i] = <<j, head * L + i - 1>>
    <3> HIDE DEF x, i
    <3>1. \A y \in 1 .. length(j) : ConcatenationBlock(o, a, head, j)[y] = <<j, head * length(j) + y - 1>>
      BY <1>7, <2>4, <2>12
    <3> QED
      BY <2>15, <2>19, <3>1 DEF L
  <2>21. Spot(off, x, i) = FlatIndex(s, c) + 1
    <3>1. off[x - 1] = before(x - 1)
      <4>1. x - 1 \in 0 .. outer * m
        <5> HIDE DEF x
        <5> QED
          BY <1>8, <2>17
      <4> QED
        BY <4>1
    <3>2. before(head * m + (j - 1)) = (head * W + B) * inner /\ before(head * m + (j - 1)) \in Nat
      <4>1. head \in Nat
        BY <2>12
      <4> HIDE DEF before, sum
      <4> QED
        BY <1>13, <2>4, <4>1 DEF B
    <3> HIDE DEF off, before, x
    <3> QED
      BY <2>15, <2>16, <2>17, <3>1, <3>2 DEF Spot
  <2>22. whole[Spot(off, x, i)] = seqs[x][i] /\ Spot(off, x, i) \in 1 .. total
    <3>1. Len(seqs) > 0 /\ x \in 1 .. Len(seqs) /\ i \in 1 .. Len(seqs[x])
      <4> HIDE DEF x, i
      <4> QED
        BY <1>8, <1>12, <2>15, <2>17, <2>19
    <3> HIDE DEF off, i, x
    <3>2. /\ Len(whole) = off[Len(seqs)]
          /\ \A u \in 1 .. Len(seqs) : \A v \in 1 .. Len(seqs[u]) :
               Spot(off, u, v) \in 1 .. off[Len(seqs)] /\ FlattenSeq(seqs)[Spot(off, u, v)] = seqs[u][v]
      BY <1>12, <1>15, <3>1, FlattenedAt
    <3> QED
      BY <1>16, <3>1, <3>2
  <2>23. head * L + i - 1 = FlatIndex(t, d)
    <3>1. head * L \in Int
      BY <2>12, <2>13
    <3> HIDE DEF i
    <3> QED
      BY <2>15, <2>16, <3>1
  <2>24. out[FlatIndex(s, c) + 1] = <<j, FlatIndex(t, d)>>
    <3> HIDE DEF x, i, off, whole
    <3> QED
      BY <1>17, <2>20, <2>21, <2>22, <2>23
  <2> QED
    BY <2>5, <2>24 DEF t
<1> QED
  BY <1>1, <1>17, <1>18, <1>19 DEF MovesTo

-----------------------------------------------------------------------------
(* STRIDED_SLICE moves what it means. *)

\* No two coordinates have the same flat index.
LEMMA FlatIsInjective ==
  ASSUME NEW s \in Seq(Int), NEW c, Within(s, c), NEW d, Within(s, d), FlatIndex(s, c) = FlatIndex(s, d)
  PROVE  c = d
<1> DEFINE n == Len(s)
<1>1. /\ n \in Nat /\ c \in [1 .. n -> Int] /\ d \in [1 .. n -> Int]
      /\ \A x \in 1 .. n : s[x] \in Nat /\ c[x] \in 0 .. s[x] - 1 /\ d[x] \in 0 .. s[x] - 1
  BY DEF Within
<1>2. PICK f : Flat(s, c, f) /\ FlatIndex(s, c) = f[n]
  BY <1>1, FlatExists
<1>3. PICK g : Flat(s, d, g) /\ FlatIndex(s, d) = g[n]
  BY <1>1, FlatExists
<1>4. /\ f \in [0 .. n -> Int] /\ g \in [0 .. n -> Int] /\ f[n] = g[n]
      /\ \A x \in 1 .. n : f[x] = f[x - 1] * s[x] + c[x] /\ g[x] = g[x - 1] * s[x] + d[x]
  BY <1>2, <1>3 DEF Flat
<1> HIDE DEF n
<1> DEFINE Same(k) == f[n - k] = g[n - k] /\ \A x \in 1 .. n : x > n - k => c[x] = d[x]
           S == {k \in 0 .. n : Same(k)}
<1>5. 0 \in S
  BY <1>1, <1>4
<1>6. ASSUME NEW k \in 1 .. n, k - 1 \in S
      PROVE  k \in S
  <2> DEFINE x == n - (k - 1)
  <2>1. x \in 1 .. n /\ x - 1 = n - k /\ x - 1 \in 0 .. n /\ k \in 0 .. n
    BY <1>1
  <2>2. f[x] = g[x] /\ \A y \in 1 .. n : y > x => c[y] = d[y]
    BY <1>6
  <2> HIDE DEF x
  <2> DEFINE p == f[x - 1]
             q == g[x - 1]
  <2>3. p * s[x] + c[x] = q * s[x] + d[x] /\ p \in Int /\ q \in Int
    BY <1>4, <2>1, <2>2
  <2> HIDE DEF p, q
  <2>4. p = q /\ c[x] = d[x]
    <3> DEFINE b == s[x]
               u == c[x]
               v == d[x]
    <3>1. b \in Nat /\ u \in 0 .. b - 1 /\ v \in 0 .. b - 1 /\ p * b + u = q * b + v
      BY <1>1, <2>1, <2>3
    <3> HIDE DEF b, u, v
    <3>0. p \in Int /\ q \in Int
      BY <2>3
    <3>2. p = q /\ u = v
      BY <3>0, <3>1, RowMajorIsInjective, Zenon
    <3> QED
      BY <3>2 DEF u, v
  <2>5. f[n - k] = g[n - k]
    BY <2>1, <2>4 DEF p, q
  <2>6. ASSUME NEW y \in 1 .. n, y > n - k
        PROVE  c[y] = d[y]
    <3>1. y = x \/ y > x
      BY <1>1, <2>1, <2>6
    <3> QED
      BY <2>2, <2>4, <3>1
  <2> QED
    BY <2>1, <2>5, <2>6
<1>7. n \in S
  <2>1. S \in SUBSET (0 .. n) /\ n \in 0 .. n
    BY <1>1
  <2> HIDE DEF S
  <2> QED
    BY <1>1, <1>5, <1>6, <2>1, EveryPlace
<1>8. \A x \in 1 .. n : c[x] = d[x]
  BY <1>1, <1>7
<1> QED
  BY <1>1, <1>8

\* The places of a progression in its order.
LEMMA NthOfProgression ==
  ASSUME NEW start \in Int, NEW d \in Int, d # 0, NEW n \in Nat, NEW x \in 0 .. n - 1
  PROVE  Nth(Progression(start, d, n), d, x) = start + x * d
<1> DEFINE places == Progression(start, d, n)
           Ahead(i) == {j \in places : (i - j) * d > 0}
           at(y) == start + y * d
<1>1. ASSUME NEW y \in 0 .. n - 1
      PROVE  at(y) \in places /\ Ahead(at(y)) = Progression(start, d, y) /\ Cardinality(Ahead(at(y))) = y
  <2>1. at(y) \in places
    BY DEF Progression
  <2>2. ASSUME NEW z \in 0 .. n - 1
        PROVE  (at(y) - at(z)) * d > 0 <=> z < y
    <3>1. (at(y) - at(z)) * d = (y - z) * (d * d)
      <4>1. at(y) - at(z) = (y - z) * d
        OBVIOUS
      <4> QED
        BY <4>1
    <3>2. d * d > 0
      <4>1. CASE d > 0
        BY <4>1
      <4>2. CASE d < 0
        BY <4>2
      <4> QED
        BY <4>1, <4>2
    <3> DEFINE w == y - z
               e == d * d
    <3>3. w \in Int /\ e \in Int /\ e > 0
      BY <3>2
    <3> HIDE DEF w, e
    <3>4. w * e > 0 <=> w > 0
      BY <3>3
    <3> QED
      BY <3>1, <3>4 DEF w, e
  <2>3. Ahead(at(y)) = Progression(start, d, y)
    <3>1. ASSUME NEW j \in Ahead(at(y))
          PROVE  j \in Progression(start, d, y)
      <4>1. PICK z \in 0 .. n - 1 : j = at(z)
        BY DEF Progression
      <4>2. z < y
        BY <2>2, <4>1
      <4> QED
        BY <4>1, <4>2 DEF Progression
    <3>2. ASSUME NEW j \in Progression(start, d, y)
          PROVE  j \in Ahead(at(y))
      <4>1. PICK z \in 0 .. y - 1 : j = at(z)
        BY DEF Progression
      <4>2. z \in 0 .. n - 1 /\ z < y
        BY <4>1
      <4>3. at(z) \in places /\ (at(y) - at(z)) * d > 0
        BY <2>2, <4>2 DEF Progression
      <4> QED
        BY <4>1, <4>3
    <3> QED
      BY <3>1, <3>2
  <2>4. Cardinality(Progression(start, d, y)) = y
    BY ProgressionCardinality
  <2> QED
    BY <2>1, <2>3, <2>4
<1> DEFINE Is(i) == Cardinality(Ahead(i)) = x
<1>2. at(x) \in places /\ Is(at(x))
  BY <1>1
<1>3. ASSUME NEW i \in places, Is(i)
      PROVE  i = at(x)
  <2>1. PICK y \in 0 .. n - 1 : i = at(y)
    BY DEF Progression
  <2>2. Cardinality(Ahead(at(y))) = y
    BY <1>1
  <2> HIDE DEF Ahead, at
  <2>3. y = x
    BY <1>3, <2>1, <2>2
  <2> QED
    BY <2>1, <2>3
<1>4. Nth(places, d, x) = CHOOSE i \in places : Is(i)
  BY DEF Nth
<1>5. (CHOOSE i \in places : Is(i)) = at(x)
  <2> HIDE DEF places, Is, at
  <2> QED
    BY <1>2, <1>3
<1> QED
  BY <1>4, <1>5

LEMMA StridedSliceMoves ==
  ASSUME NEW o \in OperatorsOf("STRIDED_SLICE"), Loaded(o), stridedSlice(o).kind = "ok"
  PROVE  MovesTo(o, 1, stridedSlice(o).outs[1])
<1> DEFINE s == o.ins[1].shape
           r == o.outs[1].shape
           n == NumElements(o.outs[1])
           N == NumElements(o.ins[1])
           walk == Walk(r, n)
           out == [i \in 1 .. n |-> Contents(o, 1)[SliceOffset(o, walk[i - 1]) + 1]]
<1>1. /\ ~SliceRanksDiffer(o) /\ \A a \in 1 .. rank(o.ins[1]) : SliceStride(o, a) # 0
      /\ \A a \in 1 .. rank(o.ins[1]) : SliceExtent(o, a) = r[a]
      /\ stridedSlice(o).outs = <<out>>
  BY DEF stridedSlice, Error, Panic, Wrote
<1>2. /\ s \in Seq(Int) /\ Len(s) = rank(o.ins[1]) /\ N = product(s, 0, Len(s))
      /\ r \in Seq(Int) /\ Len(r) = Len(s) /\ n = product(r, 0, Len(r)) /\ n \in Nat
      /\ \A a \in 1 .. Len(s) : s[a] \in Nat /\ r[a] \in Nat
  BY <1>1, SliceOperands
<1>3. o.code = "STRIDED_SLICE"
  BY DEF OperatorsOf
<1>4. Extents(o, 1) = r
  BY <1>3 DEF Extents
<1>5. Len(out) = n
  <2> HIDE DEF n
  <2> QED
    BY <1>2
<1>6. N \in Nat /\ \A x \in 1 .. N : Contents(o, 1)[x] = <<1, x - 1>>
  <2>1. \A a \in 1 .. Len(s) : s[a] >= 0
    BY <1>2
  <2>2. Len(s) \in 0 .. Len(s) /\ 0 \in Nat
    BY <1>2
  <2>3. product(s, 0, Len(s)) \in Nat
    BY <1>2, <2>1, <2>2, ProductNat
  <2>4. NumElements(o.ins[1]) \in Nat /\ 1 \in Nat
    BY <1>2, <2>3
  <2> QED
    BY <2>4, ContentsAt
<1> HIDE DEF n, N
<1>7. ASSUME NEW c \in Coordinates(r)
      PROVE  LET from == Source(o, 1, c)
             IN out[FlatIndex(r, c) + 1] = <<from[1], FlatIndex(o.ins[from[1]].shape, from[2])>>
  <2> DEFINE x == FlatIndex(r, c)
  <2>1. Within(r, c)
    BY <1>2, CoordinatesAreWithin
  <2>2. c \in [1 .. Len(s) -> Int] /\ \A a \in 1 .. Len(s) : c[a] \in 0 .. r[a] - 1
    BY <1>2, <2>1 DEF Within
  <2>3. x \in 0 .. n - 1
    <3>1. c \in [1 .. Len(r) -> Int] /\ \A a \in 1 .. Len(r) : r[a] >= 0
      BY <1>2, <2>2
    <3>2. PICK f : Flat(r, c, f) /\ FlatIndex(r, c) = f[Len(r)]
      BY <1>2, <3>1, FlatExists
    <3>3. Len(r) \in 0 .. Len(r)
      BY <1>2
    <3>4. f[Len(r)] \in 0 .. product(r, 0, Len(r)) - 1
      BY <1>2, <2>1, <3>1, <3>2, <3>3, FlatInRange
    <3> QED
      BY <1>2, <3>2, <3>4
  <2> HIDE DEF x
  <2>4. n > 0 /\ \A a \in 1 .. Len(r) : r[a] > 0
    <3>1. ASSUME NEW a \in 1 .. Len(r)
          PROVE  r[a] > 0
      <4>1. c[a] \in 0 .. r[a] - 1 /\ r[a] \in Nat
        BY <1>2, <2>2
      <4> QED
        BY <4>1
    <3> QED
      BY <1>2, <2>3, <3>1
  <2>5. walk[x] = c
    <3>1. FlatIndex(r, walk[x]) = x
      BY <1>2, <2>3, <2>4, WalkCounts
    <3>2. Within(r, walk[x])
      BY <1>2, <2>3, <2>4, WalkIsWithin
    <3> HIDE DEF walk
    <3> QED
      BY <1>2, <2>1, <3>1, <3>2, FlatIsInjective DEF x
  <2>6. /\ SliceOffset(o, c) = FlatIndex(s, SlicePlaces(o, c))
        /\ SliceOffset(o, c) \in 0 .. N - 1
    BY <1>1, <2>1, SliceReadsWithin DEF N
  <2>7. out[x + 1] = <<1, FlatIndex(s, SlicePlaces(o, c))>>
    <3> DEFINE y == SliceOffset(o, c) + 1
    <3>1. x + 1 \in 1 .. n /\ (x + 1) - 1 = x
      BY <1>2, <2>3
    <3>2. out[x + 1] = Contents(o, 1)[y]
      <4> HIDE DEF walk
      <4> QED
        BY <2>5, <3>1
    <3>3. y \in 1 .. N /\ y - 1 = SliceOffset(o, c)
      BY <1>6, <2>6
    <3> HIDE DEF y, out
    <3> QED
      BY <1>6, <2>6, <3>2, <3>3
  <2>8. Source(o, 1, c) = <<1, SlicePlaces(o, c)>>
    <3> DEFINE place(a) == Nth(Selected(o, a), o.ins[4].const[a], c[a])
    <3>1. ASSUME NEW a \in 1 .. Len(s)
          PROVE  place(a) = SliceStart(o, a) + c[a] * SliceStride(o, a)
      <4> DEFINE d == SliceStride(o, a)
                 e == SliceExtent(o, a)
                 b == SliceStart(o, a)
                 i == c[a]
      <4>1. /\ Selected(o, a) = Progression(b, d, e)
            /\ e \in Nat /\ b \in Int /\ d \in Int
        BY <1>1, <1>2, SelectedIsProgression
      <4>2. d # 0 /\ e = r[a] /\ i \in 0 .. e - 1
        BY <1>1, <1>2, <2>2
      <4>3. place(a) = Nth(Selected(o, a), d, i)
        BY DEF SliceStride
      <4> HIDE DEF b, d, e, i, place
      <4>4. Nth(Progression(b, d, e), d, i) = b + i * d
        BY <4>1, <4>2, NthOfProgression
      <4> QED
        BY <4>1, <4>3, <4>4 DEF b, d, i
    <3>2. Len(c) = Len(s)
      <4> DEFINE k == Len(s)
      <4>1. k \in Nat /\ c \in [1 .. k -> Int]
        BY <1>2, <2>2
      <4> HIDE DEF k
      <4>2. Len(c) = k
        BY <4>1
      <4> QED
        BY <4>2 DEF k
    <3>3. Source(o, 1, c) = <<1, [a \in 1 .. Len(c) |-> place(a)]>>
      BY <1>3 DEF Source
    <3>4. [a \in 1 .. Len(c) |-> place(a)] = SlicePlaces(o, c)
      <4> HIDE DEF place
      <4> QED
        BY <3>1, <3>2 DEF SlicePlaces
    <3> HIDE DEF place
    <3> QED
      BY <3>3, <3>4
  <2> HIDE DEF out
  <2> QED
    BY <2>7, <2>8 DEF x
<1>8. stridedSlice(o).outs[1] = out
  <2> HIDE DEF out
  <2> QED
    BY <1>1
<1> HIDE DEF out, r, s
<1>9. MovesTo(o, 1, out)
  BY <1>4, <1>5, <1>7 DEF MovesTo, n
<1> QED
  BY <1>8, <1>9

\* A CONCATENATION, a SPLIT_V and a STRIDED_SLICE that Load accepts put every
\* element where the operation means it, block by block or with an index that
\* carries, for every rank, shape, axis and list of pieces or places; a RESHAPE, a
\* LOGISTIC and a QUANTIZE keep the order.
THEOREM KernelsMoveWhatIsMeant == Spec => []MovesWhatIsMeant
<1>1. OperatorsInv => MovesWhatIsMeant
  <2> SUFFICES ASSUME OperatorsInv, stage = "done"
               PROVE  MovesWhatIsMeant
    BY DEF MovesWhatIsMeant
  <2>1. /\ op \in Ops /\ Loaded(op)
        /\ Kernel(op, params).kind = "ok" /\ outs = Kernel(op, params).outs
    BY DEF OperatorsInv
  <2>2. op \in OperatorsOf(op.code)
    BY <2>1, OpFacts
  <2>3. ASSUME op.code = "CONCATENATION"
        PROVE  \A k \in 1 .. Len(op.outs) : MovesTo(op, k, outs[k])
    <3>1. concatenation(op).kind = "ok" /\ outs = concatenation(op).outs
      BY <2>1, <2>3 DEF Kernel
    <3>2. MovesTo(op, 1, concatenation(op).outs[1]) /\ Len(op.outs) = 1
      BY <2>1, <2>2, <2>3, <3>1, ConcatenationMoves, ConcatenationFacts
    <3> QED
      BY <3>1, <3>2
  <2>4. ASSUME op.code = "SPLIT_V"
        PROVE  \A k \in 1 .. Len(op.outs) : MovesTo(op, k, outs[k])
    <3>1. splitV(op).kind = "ok" /\ outs = splitV(op).outs
      BY <2>1, <2>4 DEF Kernel
    <3> QED
      BY <2>1, <2>2, <2>4, <3>1, SplitVMoves
  <2>5. ASSUME op.code = "STRIDED_SLICE"
        PROVE  \A k \in 1 .. Len(op.outs) : MovesTo(op, k, outs[k])
    <3>1. stridedSlice(op).kind = "ok" /\ outs = stridedSlice(op).outs
      BY <2>1, <2>5 DEF Kernel
    <3>2. Len(op.outs) = 1
      BY <2>1, <2>5 DEF Loaded, validateOperator, StridedSliceRule
    <3>3. MovesTo(op, 1, stridedSlice(op).outs[1])
      BY <2>1, <2>2, <2>5, <3>1, StridedSliceMoves
    <3> QED
      BY <3>1, <3>2, <3>3
  <2>6. ASSUME op.code \in {"RESHAPE", "LOGISTIC", "QUANTIZE"}
        PROVE  outs = <<Contents(op, 1)>>
    <3>1. CASE op.code = "RESHAPE"
      <4>1. Kernel(op, params) = reshape(op)
        BY <3>1 DEF Kernel
      <4> QED
        BY <2>1, <4>1 DEF reshape, Wrote, Error
    <3>2. CASE op.code \in {"LOGISTIC", "QUANTIZE"}
      <4>1. Kernel(op, params) = pointwise(op)
        BY <3>2 DEF Kernel
      <4> QED
        BY <2>1, <4>1 DEF pointwise, Wrote, Panic
    <3> QED
      BY <2>6, <3>1, <3>2
  <2>7. op.code \in {"CONCATENATION", "SPLIT_V", "STRIDED_SLICE"} =>
          \A k \in 1 .. Len(op.outs) : MovesTo(op, k, outs[k])
    BY <2>3, <2>4, <2>5
  <2> QED
    BY <2>6, <2>7 DEF MovesWhatIsMeant, MovesTo
<1> QED
  BY InitOperators, NextOperators, <1>1, PTL DEF Spec
=============================================================================
