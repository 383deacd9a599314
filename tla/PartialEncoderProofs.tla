------------------------ MODULE PartialEncoderProofs ------------------------
(***************************************************************************)
(* PartialEncoder, for every number of slices, size of the partial, set of *)
(* component lengths and size of the fragments: the bytes are conserved,   *)
(* encoding and writing end well, the fragments describe their slices, and *)
(* nothing is stored behind the partial's part of the output.              *)
(***************************************************************************)
EXTENDS PartialEncoder, FiniteSetTheorems, SequenceTheorems, WellFoundedInduction, TLAPS

-----------------------------------------------------------------------------
(* Sums.  What a recursive function computes is proved with the least      *)
(* counterexample: a set of numbers that has one has a least one.          *)

LEMMA LeastUnder ==
  ASSUME NEW R, IsWellFoundedOn(R, Nat), NEW T, T \subseteq Nat, T # {}
  PROVE  \E n \in T : \A m \in T : <<m, n>> \notin R
BY WFMin

LEMMA LeastNumber ==
  ASSUME NEW T, T \subseteq Nat, T # {}
  PROVE  \E n \in T : \A m \in T : n <= m
<1> DEFINE R == OpToRel(<, Nat)
<1>1. IsWellFoundedOn(R, Nat)
  BY NatLessThanWellFounded
<1> HIDE DEF R
<1>2. PICK n \in T : \A m \in T : <<m, n>> \notin R
  BY <1>1, LeastUnder
<1>3. \A m \in T : ~(m < n)
  BY <1>2 DEF R, OpToRel
<1> QED
  BY <1>3

LEMMA AllNumbers ==
  ASSUME NEW S, 0 \in S, \A n \in Nat : n \in S => n + 1 \in S
  PROVE  Nat \subseteq S
<1> SUFFICES ASSUME NEW b \in Nat, b \notin S PROVE FALSE
  OBVIOUS
<1> DEFINE T == {n \in Nat : n \notin S}
<1>1. PICK n \in T : \A m \in T : n <= m
  BY LeastNumber
<1>2. n - 1 \in Nat /\ n - 1 \notin T
  BY <1>1
<1>3. (n - 1) + 1 \in S
  BY <1>2
<1> QED
  BY <1>3

IsSum(g, f, n) == g = [k \in 0..n |-> IF k = 0 THEN 0 ELSE g[k-1] + f[k]]

LEMMA SumExists ==
  ASSUME NEW f, NEW M \in Nat, \A k \in 1..M : f[k] \in Int
  PROVE  \A n \in 0..M : \E g \in [0..n -> Int] : IsSum(g, f, n)
<1> DEFINE G == {n \in Nat : n <= M => \E g \in [0..n -> Int] : IsSum(g, f, n)}
<1>1. 0 \in G
  <2>1. IsSum([k \in 0..0 |-> 0], f, 0) /\ [k \in 0..0 |-> 0] \in [0..0 -> Int]
    BY DEF IsSum
  <2> QED
    BY <2>1
<1>2. ASSUME NEW n \in Nat, n \in G PROVE n + 1 \in G
  <2> SUFFICES ASSUME n + 1 <= M PROVE \E g \in [0..n+1 -> Int] : IsSum(g, f, n+1)
    OBVIOUS
  <2>1. PICK g \in [0..n -> Int] : IsSum(g, f, n)
    BY <1>2
  <2> DEFINE h == [k \in 0..(n+1) |-> IF k = n+1 THEN g[n] + f[n+1] ELSE g[k]]
  <2>2. f[n+1] \in Int /\ h \in [0..(n+1) -> Int]
    OBVIOUS
  <2>3. \A k \in 0..n : g[k] = IF k = 0 THEN 0 ELSE g[k-1] + f[k]
    BY <2>1 DEF IsSum
  <2>4. \A k \in 0..(n+1) : h[k] = IF k = 0 THEN 0 ELSE h[k-1] + f[k]
    <3> TAKE k \in 0..(n+1)
    <3>1. CASE k = n+1
      <4>1. k # 0 /\ k-1 = n /\ n # n+1 /\ n \in 0..(n+1)
        BY <3>1
      <4>2. h[k] = g[n] + f[n+1] /\ h[n] = g[n]
        BY <3>1, <4>1
      <4> HIDE DEF h
      <4>3. h[k] = h[k-1] + f[k]
        BY <3>1, <4>1, <4>2
      <4> QED
        BY <4>1, <4>3
    <3>2. CASE k \in 0..n
      <4>1. k # n+1 /\ h[k] = g[k] /\ g[k] = IF k = 0 THEN 0 ELSE g[k-1] + f[k]
        BY <3>2, <2>3
      <4>2. k # 0 => k-1 \in 0..(n+1) /\ k-1 # n+1
        BY <3>2
      <4>3. k # 0 => h[k-1] = g[k-1]
        BY <4>2
      <4> QED
        BY <4>1, <4>3
    <3> QED
      BY <3>1, <3>2
  <2>5. IsSum(h, f, n+1)
    BY <2>4 DEF IsSum
  <2> QED
    BY <2>2, <2>5
<1>3. Nat \subseteq G
  <2> HIDE DEF G
  <2> QED
    BY <1>1, <1>2, AllNumbers
<1> SUFFICES ASSUME NEW n \in 0..M PROVE \E g \in [0..n -> Int] : IsSum(g, f, n)
  OBVIOUS
<1>4. n \in G /\ n <= M
  BY <1>3
<1> QED
  BY <1>4

LEMMA SumFunctionOf ==
  ASSUME NEW f, NEW n \in Nat, \A k \in 1..n : f[k] \in Int
  PROVE  \E g \in [0..n -> Int] : IsSum(g, f, n) /\ SumTo(f, n) = g[n]
<1>1. PICK h \in [0..n -> Int] : IsSum(h, f, n)
  <2>1. \A m \in 0..n : \E h \in [0..m -> Int] : IsSum(h, f, m)
    BY SumExists
  <2> QED
    BY <2>1
<1> DEFINE g == CHOOSE g : IsSum(g, f, n)
<1>2. IsSum(g, f, n)
  BY <1>1
<1>3. SumTo(f, n) = g[n]
  BY DEF SumTo, IsSum
<1>4. g \in [0..n -> Int]
  <2>1. /\ DOMAIN g = 0..n /\ DOMAIN h = 0..n /\ g = [k \in 0..n |-> g[k]] /\ h = [k \in 0..n |-> h[k]]
        /\ \A k \in 0..n : g[k] = IF k = 0 THEN 0 ELSE g[k-1] + f[k]
        /\ \A k \in 0..n : h[k] = IF k = 0 THEN 0 ELSE h[k-1] + f[k]
    BY <1>1, <1>2 DEF IsSum
  <2> DEFINE G == {k \in Nat : k <= n => g[k] = h[k]}
  <2>2. 0 \in G
    BY <2>1
  <2>3. ASSUME NEW k \in Nat, k \in G PROVE k + 1 \in G
    <3> SUFFICES ASSUME k + 1 <= n PROVE g[k+1] = h[k+1]
      OBVIOUS
    <3>1. k + 1 \in 0..n /\ k + 1 # 0 /\ (k+1)-1 = k /\ g[k] = h[k]
      BY <2>3
    <3>2. g[k+1] = g[k] + f[k+1] /\ h[k+1] = h[k] + f[k+1]
      BY <2>1, <3>1
    <3> QED
      BY <3>1, <3>2
  <2>4. Nat \subseteq G
    <3> HIDE DEF G
    <3> QED
      BY <2>2, <2>3, AllNumbers
  <2>5. \A k \in 0..n : g[k] = h[k]
    BY <2>4
  <2> QED
    BY <2>1, <2>5
<1> HIDE DEF g
<1> QED
  BY <1>2, <1>3, <1>4

\* Two ways to write the same sum.
LEMMA SumSame ==
  ASSUME NEW f, NEW g, NEW n \in Nat,
         \A k \in 1..n : f[k] \in Int /\ g[k] = f[k]
  PROVE  SumTo(g, n) = SumTo(f, n)
<1>1. PICK s \in [0..n -> Int] : IsSum(s, f, n) /\ SumTo(f, n) = s[n]
  BY SumFunctionOf
<1>2. PICK r \in [0..n -> Int] : IsSum(r, g, n) /\ SumTo(g, n) = r[n]
  BY SumFunctionOf
<1>3. /\ \A k \in 0..n : s[k] = IF k = 0 THEN 0 ELSE s[k-1] + f[k]
      /\ \A k \in 0..n : r[k] = IF k = 0 THEN 0 ELSE r[k-1] + g[k]
  BY <1>1, <1>2 DEF IsSum
<1> DEFINE G == {k \in Nat : k <= n => r[k] = s[k]}
<1>4. 0 \in G
  BY <1>3
<1>5. ASSUME NEW k \in Nat, k \in G PROVE k + 1 \in G
  BY <1>3, <1>5
<1>6. Nat \subseteq G
  <2> HIDE DEF G
  <2> QED
    BY <1>4, <1>5, AllNumbers
<1> QED
  BY <1>1, <1>2, <1>6

\* The sum as it is computed: one term more.
LEMMA SumStep ==
  ASSUME NEW f, NEW n \in Nat, \A k \in 1..n+1 : f[k] \in Int
  PROVE  SumTo(f, n+1) = SumTo(f, n) + f[n+1]
<1>0. n+1 \in Nat /\ \A k \in 1..n : f[k] \in Int
  OBVIOUS
<1>1. PICK s \in [0..n+1 -> Int] : IsSum(s, f, n+1) /\ SumTo(f, n+1) = s[n+1]
  BY <1>0, SumFunctionOf
<1>2. PICK r \in [0..n -> Int] : IsSum(r, f, n) /\ SumTo(f, n) = r[n]
  BY <1>0, SumFunctionOf
<1>3. /\ \A k \in 0..n+1 : s[k] = IF k = 0 THEN 0 ELSE s[k-1] + f[k]
      /\ \A k \in 0..n : r[k] = IF k = 0 THEN 0 ELSE r[k-1] + f[k]
  BY <1>1, <1>2 DEF IsSum
<1> DEFINE G == {k \in Nat : k <= n => r[k] = s[k]}
<1>4. 0 \in G
  BY <1>3
<1>5. ASSUME NEW k \in Nat, k \in G PROVE k + 1 \in G
  BY <1>3, <1>5
<1>6. Nat \subseteq G
  <2> HIDE DEF G
  <2> QED
    BY <1>4, <1>5, AllNumbers
<1>7. r[n] = s[n] /\ s[n+1] = s[n] + f[n+1]
  BY <1>3, <1>6
<1> QED
  BY <1>1, <1>2, <1>7

LEMMA SumType ==
  ASSUME NEW f, NEW n \in Nat, \A k \in 1..n : f[k] \in Int
  PROVE  SumTo(f, n) \in Int /\ SumTo(f, 0) = 0
<1>1. PICK s \in [0..n -> Int] : IsSum(s, f, n) /\ SumTo(f, n) = s[n]
  BY SumFunctionOf
<1>2. PICK r \in [0..0 -> Int] : IsSum(r, f, 0) /\ SumTo(f, 0) = r[0]
  <2>1. \A k \in 1..0 : f[k] \in Int
    OBVIOUS
  <2> QED
    BY <2>1, SumFunctionOf
<1>3. r[0] = 0
  BY <1>2 DEF IsSum
<1> QED
  BY <1>1, <1>2, <1>3

\* The three components of a slice.
LEMMA SumOfThree ==
  ASSUME NEW f \in [1..3 -> Int]
  PROVE  /\ SumTo(f, 0) = 0 /\ SumTo(f, 1) = f[1]
         /\ SumTo(f, 2) = f[1] + f[2] /\ SumTo(f, 3) = f[1] + f[2] + f[3]
<1>1. SumTo(f, 0) = 0
  BY SumType
<1>2. SumTo(f, 0+1) = SumTo(f, 0) + f[0+1]
  BY SumStep
<1>3. SumTo(f, 1+1) = SumTo(f, 1) + f[1+1]
  BY SumStep
<1>4. SumTo(f, 2+1) = SumTo(f, 2) + f[2+1]
  BY SumStep
<1> QED
  BY <1>1, <1>2, <1>3, <1>4

\* A term that changes changes the sum by as much.
LEMMA SumChange ==
  ASSUME NEW f, NEW g, NEW n \in Nat, NEW i \in 1..n,
         \A k \in 1..n : f[k] \in Int /\ g[k] \in Int /\ (k # i => g[k] = f[k])
  PROVE  SumTo(g, n) = SumTo(f, n) + (g[i] - f[i])
<1> DEFINE G == {k \in Nat : k <= n => SumTo(g, k) = SumTo(f, k) + (IF k < i THEN 0 ELSE g[i] - f[i])}
<1>1. 0 \in G
  BY SumType
<1>2. ASSUME NEW k \in Nat, k \in G PROVE k + 1 \in G
  <2> SUFFICES ASSUME k + 1 <= n
               PROVE  SumTo(g, k+1) = SumTo(f, k+1) + (IF k + 1 < i THEN 0 ELSE g[i] - f[i])
    OBVIOUS
  <2>1. /\ SumTo(g, k+1) = SumTo(g, k) + g[k+1] /\ SumTo(f, k+1) = SumTo(f, k) + f[k+1]
        /\ SumTo(g, k) \in Int /\ SumTo(f, k) \in Int
    BY SumStep, SumType
  <2>2. SumTo(g, k) = SumTo(f, k) + (IF k < i THEN 0 ELSE g[i] - f[i])
    BY <1>2
  <2>3. k + 1 \in 1..n
    OBVIOUS
  <2> QED
    BY <2>1, <2>2, <2>3
<1>3. Nat \subseteq G
  <2> HIDE DEF G
  <2> QED
    BY <1>1, <1>2, AllNumbers
<1>4. n \in G /\ ~(n < i)
  BY <1>3
<1> QED
  BY <1>4

\* The terms from i + 1 to n add what they have at least ...
LEMMA SumGrows ==
  ASSUME NEW f, NEW n \in Nat, NEW i \in 0..n, NEW a \in Nat,
         \A k \in 1..n : f[k] \in Int /\ f[k] >= a
  PROVE  SumTo(f, n) >= SumTo(f, i) + (n - i) * a
<1> DEFINE G == {k \in Nat : i + k <= n => SumTo(f, i+k) >= SumTo(f, i) + k * a}
<1>1. 0 \in G
  BY SumType
<1>2. ASSUME NEW k \in Nat, k \in G PROVE k + 1 \in G
  <2> SUFFICES ASSUME i + (k + 1) <= n
               PROVE  SumTo(f, i+(k+1)) >= SumTo(f, i) + (k+1) * a
    OBVIOUS
  <2>1. SumTo(f, i+k) >= SumTo(f, i) + k * a
    BY <1>2
  <2>2. /\ SumTo(f, (i+k)+1) = SumTo(f, i+k) + f[(i+k)+1]
        /\ SumTo(f, i+k) \in Int /\ SumTo(f, i) \in Int /\ f[(i+k)+1] \in Int /\ f[(i+k)+1] >= a
    BY SumStep, SumType
  <2>3. (k+1) * a = k * a + a /\ k * a \in Int /\ (i+k)+1 = i+(k+1)
    OBVIOUS
  <2> QED
    BY <2>1, <2>2, <2>3
<1>3. Nat \subseteq G
  <2> HIDE DEF G
  <2> QED
    BY <1>1, <1>2, AllNumbers
<1>4. n - i \in G /\ i + (n - i) = n
  BY <1>3
<1> QED
  BY <1>4

\* ... and terms that are all the same are multiplied.
LEMMA SumConstant ==
  ASSUME NEW f, NEW n \in Nat, NEW a \in Int, \A k \in 1..n : f[k] = a
  PROVE  SumTo(f, n) = n * a
<1> DEFINE G == {k \in Nat : k <= n => SumTo(f, k) = k * a}
<1>1. 0 \in G
  BY SumType
<1>2. ASSUME NEW k \in Nat, k \in G PROVE k + 1 \in G
  <2> SUFFICES ASSUME k + 1 <= n PROVE SumTo(f, k+1) = (k+1) * a
    OBVIOUS
  <2>1. SumTo(f, k+1) = SumTo(f, k) + f[k+1] /\ f[k+1] = a
    BY SumStep
  <2>2. (k+1) * a = k * a + a
    OBVIOUS
  <2> QED
    BY <1>2, <2>1, <2>2
<1>3. Nat \subseteq G
  <2> HIDE DEF G
  <2> QED
    BY <1>1, <1>2, AllNumbers
<1> QED
  BY <1>3

-----------------------------------------------------------------------------
(* Lengths.  The scalar divides 4, so it is one of three numbers.          *)

LEMMA Scalar ==
  /\ slice_size_scalar \in {1, 2, 4}
  /\ MAX_LENGTH \in Nat /\ slices_per_line \in Nat \ {0}
<1>1. slice_size_scalar \in Nat \ {0} /\ 4 % slice_size_scalar = 0
  BY PartialAssumption
<1>2. CASE slice_size_scalar > 4
  <2>1. 4 % slice_size_scalar = 4
    BY <1>1, <1>2
  <2> QED
    BY <1>1, <2>1
<1>3. slice_size_scalar # 3
  BY <1>1
<1> QED
  BY <1>1, <1>2, <1>3, PartialAssumption

Lengths == [1..3 -> Nat]
Sized(length) == \A c \in 1..3 : Units(length[c]) <= MAX_LENGTH
OnGrid(l) == \E q \in Nat : l = q * slice_size_scalar

LEMMA UnitsOf ==
  ASSUME NEW l \in Nat
  PROVE  /\ Units(l) \in Nat /\ l <= Units(l) * slice_size_scalar /\ Units(0) = 0
         /\ Units(l) * slice_size_scalar \in Nat
<1>1. CASE slice_size_scalar = 1
  BY <1>1 DEF Units
<1>2. CASE slice_size_scalar = 2
  BY <1>2 DEF Units
<1>3. CASE slice_size_scalar = 4
  BY <1>3 DEF Units
<1> QED
  BY <1>1, <1>2, <1>3, Scalar

LEMMA GridPlus ==
  ASSUME NEW a \in Int, NEW b \in Int, OnGrid(a), OnGrid(b)
  PROVE  OnGrid(a + b)
<1>1. PICK p \in Nat : a = p * slice_size_scalar
  BY DEF OnGrid
<1>2. PICK q \in Nat : b = q * slice_size_scalar
  BY DEF OnGrid
<1>3. a + b = (p + q) * slice_size_scalar
  BY <1>1, <1>2, Scalar
<1> QED
  BY <1>3 DEF OnGrid

LEMMA GridMinus ==
  ASSUME NEW a \in Int, NEW b \in Int, OnGrid(a), OnGrid(b), a >= b
  PROVE  OnGrid(a - b)
<1>1. PICK p \in Nat : a = p * slice_size_scalar
  BY DEF OnGrid
<1>2. PICK q \in Nat : b = q * slice_size_scalar
  BY DEF OnGrid
<1>3. a - b = (p - q) * slice_size_scalar /\ p - q \in Nat
  BY <1>1, <1>2, Scalar
<1> QED
  BY <1>3 DEF OnGrid

LEMMA GridFour == OnGrid(4)
<1>1. 4 = 4 * 1 /\ 4 = 2 * 2 /\ 4 = 1 * 4
  OBVIOUS
<1> QED
  BY <1>1, Scalar DEF OnGrid

LEMMA Coded ==
  ASSUME NEW length \in Lengths
  PROVE  /\ Bytes(length) \in [1..3 -> Nat]
         /\ CodedLength(length) = 4 + Bytes(length)[1] + Bytes(length)[2] + Bytes(length)[3]
         /\ CodedLength(length) \in Nat /\ CodedLength(length) >= 4
         /\ OnGrid(CodedLength(length))
         /\ Sized(length) => CodedLength(length) <= Largest
<1>1. \A c \in 1..3 : length[c] \in Nat /\ Units(length[c]) \in Nat
                      /\ Units(length[c]) * slice_size_scalar \in Nat
  BY UnitsOf DEF Lengths
<1>2. Bytes(length) \in [1..3 -> Nat] /\ Bytes(length) \in [1..3 -> Int]
  BY <1>1 DEF Bytes
<1>3. CodedLength(length) = 4 + Bytes(length)[1] + Bytes(length)[2] + Bytes(length)[3]
  BY <1>2, SumOfThree DEF CodedLength
<1>4. \A c \in 1..3 : OnGrid(Bytes(length)[c]) /\ Bytes(length)[c] \in Nat
  BY <1>1, <1>2 DEF Bytes, OnGrid
<1>5. OnGrid(CodedLength(length))
  <2> DEFINE n(c) == Units(length[c])
  <2>1. PICK k \in Nat : 4 = k * slice_size_scalar
    BY GridFour DEF OnGrid
  <2>2. /\ n(1) \in Nat /\ n(2) \in Nat /\ n(3) \in Nat
        /\ \A c \in 1..3 : Bytes(length)[c] = n(c) * slice_size_scalar
    BY <1>1 DEF Bytes
  <2> HIDE DEF n
  <2>3. /\ k + n(1) + n(2) + n(3) \in Nat
        /\ CodedLength(length) = (k + n(1) + n(2) + n(3)) * slice_size_scalar
    BY <2>1, <2>2, <1>3, Scalar
  <2> QED
    BY <2>3 DEF OnGrid
<1>6. ASSUME Sized(length) PROVE CodedLength(length) <= Largest
  <2>1. \A c \in 1..3 : Bytes(length)[c] = Units(length[c]) * slice_size_scalar
    BY DEF Bytes
  <2>2. \A c \in 1..3 : Bytes(length)[c] <= MAX_LENGTH * slice_size_scalar
    <3> TAKE c \in 1..3
    <3>1. Units(length[c]) <= MAX_LENGTH /\ Units(length[c]) \in Nat
      BY <1>1, <1>6 DEF Sized
    <3> QED
      BY <3>1, <2>1, Scalar
  <2>3. Largest = 4 + 3 * (MAX_LENGTH * slice_size_scalar) /\ MAX_LENGTH * slice_size_scalar \in Int
    BY Scalar DEF Largest
  <2> HIDE DEF Bytes
  <2> QED
    BY <2>2, <2>3, <1>3, <1>4
<1> QED
  BY <1>2, <1>3, <1>4, <1>5, <1>6

\* What one of m slices may use: never less than a blank slice needs, and it
\* leaves as much for each of the others.
LEMMA ShareOf ==
  ASSUME NEW rest \in Nat, OnGrid(rest), NEW m \in Nat \ {0}
  PROVE  /\ Share(rest, m) \in Nat /\ OnGrid(Share(rest, m))
         /\ Share(rest, m) <= rest
         /\ m = 1 => Share(rest, m) = rest
         /\ rest >= 4 * m => /\ Share(rest, m) >= 4
                             /\ rest - Share(rest, m) >= 4 * (m - 1)
<1> DEFINE u == slice_size_scalar
           s == Share(rest, m)
<1>1. PICK q \in Nat : rest = q * u
  BY DEF OnGrid
<1>2. rest \div u = q
  BY <1>1, Scalar
<1> DEFINE d == q \div m
<1>3. d \in Nat /\ m * d <= q /\ q < m * d + m
  <2>1. q = m * (q \div m) + (q % m) /\ q % m \in 0 .. (m - 1) /\ q \div m \in Nat
    OBVIOUS
  <2>2. m * d \in Nat
    BY <2>1
  <2> QED
    BY <2>1, <2>2
<1>4. s = d * u
  BY <1>2 DEF Share
<1> HIDE DEF d, s
<1>5. s \in Nat /\ OnGrid(s)
  BY <1>3, <1>4, Scalar DEF OnGrid
<1>6. m * s <= rest /\ m * s \in Nat
  <2>1. m * s = (m * d) * u /\ m * d \in Nat
    BY <1>3, <1>4, Scalar
  <2>2. (m * d) * u <= q * u
    BY <1>3, <2>1, Scalar
  <2> QED
    BY <2>1, <2>2, <1>1, <1>5
<1>7. s <= m * s
  BY <1>5
<1>8. m = 1 => s = rest
  BY <1>1, <1>3, <1>4
<1>9. ASSUME rest >= 4 * m PROVE s >= 4 /\ rest - s >= 4 * (m - 1)
  <2>1. ASSUME u = 1 PROVE s >= 4
    <3>1. d >= 4
      <4>1. q >= 4 * m
        BY <1>1, <1>9, <2>1
      <4> SUFFICES ASSUME d <= 3 PROVE FALSE
        BY <1>3
      <4>2. m * d <= m * 3
        BY <1>3
      <4> QED
        BY <1>3, <4>1, <4>2
    <3> QED
      BY <3>1, <1>3, <1>4, <2>1
  <2>2. ASSUME u = 2 PROVE s >= 4
    <3>1. d >= 2
      <4>1. q >= 2 * m
        BY <1>1, <1>9, <2>2
      <4> SUFFICES ASSUME d <= 1 PROVE FALSE
        BY <1>3
      <4>2. m * d <= m * 1
        BY <1>3
      <4> QED
        BY <1>3, <4>1, <4>2
    <3> QED
      BY <3>1, <1>3, <1>4, <2>2
  <2>3. ASSUME u = 4 PROVE s >= 4
    <3>1. d >= 1
      <4>1. q >= m
        BY <1>1, <1>9, <2>3
      <4> SUFFICES ASSUME d = 0 PROVE FALSE
        BY <1>3
      <4> QED
        BY <1>3, <4>1
    <3> QED
      BY <3>1, <1>3, <1>4, <2>3
  <2>4. s >= 4
    BY <2>1, <2>2, <2>3, Scalar
  <2>5. (m - 1) * 4 <= (m - 1) * s /\ (m - 1) * s = m * s - s
    BY <2>4, <1>5
  <2> QED
    BY <2>4, <2>5, <1>5, <1>6
<1> QED
  BY <1>5, <1>6, <1>7, <1>8, <1>9 DEF s

\* A slice never becomes longer than it may, whatever was tried.
LEMMA EncodeOf ==
  ASSUME NEW t \in Lengths, NEW coded_size \in Int, coded_size >= 4
  PROVE  LET length == Encode(t, coded_size)
         IN  length \in Lengths /\ Sized(length) /\ CodedLength(length) <= coded_size
<1>1. Blank \in Lengths /\ \A c \in 1..3 : Units(Blank[c]) = 0
  BY UnitsOf DEF Blank, Lengths
<1>2. \A c \in 1..3 : Bytes(Blank)[c] = 0
  BY <1>1, Scalar DEF Bytes
<1>3. CodedLength(Blank) = 4 /\ Sized(Blank)
  BY <1>1, <1>2, Coded, Scalar DEF Sized
<1> QED
  BY <1>1, <1>3 DEF Encode, Fits, Sized

-----------------------------------------------------------------------------
(* 1. The bytes of the partial.                                            *)

SliceSet == [length : Lengths, padding : Int]

Encoding == phase \in {"encode", "pad", "check", "overrun"}

\* The code has a phase "refused", too: that it is never reached is part of
\* what is proved.
Types ==
    /\ passes \in 1..3 /\ n_slices \in Nat \ {0} /\ encode_length \in Nat
    /\ slices_per_frag \in Nat /\ first_sx \in 0..(slices_per_line - 1)
    /\ phase \in {"encode", "pad", "check", "overrun", "serialise", "done"}
    /\ pass \in Nat /\ remaining_length \in Nat
    /\ slices \in Seq(SliceSet) /\ Len(slices) <= n_slices
    /\ tgt_slices \in Seq(1..n_slices) /\ again \in Seq(1..n_slices)

UsedBy(slice)  == CodedLength(slice.length) + slice.padding
UsedBytes(seq) == [s \in DOMAIN seq |-> UsedBy(seq[s])]
Total(seq)     == SumTo(UsedBytes(seq), Len(seq))

Sane == \A s \in DOMAIN slices : /\ slices[s].padding >= 0
                                 /\ Sized(slices[s].length)
                                 /\ passes > 1 => UsedBy(slices[s]) <= Largest
Shared == remaining_length + Total(slices) = encode_length
Enough == remaining_length >= 4 * (n_slices - Len(slices))

\* Later passes and padding begin when all slices have been coded once.
Passes ==
    /\ phase = "encode" => pass < passes
    /\ phase = "encode" /\ (pass > 0 \/ tgt_slices # <<>>) => passes > 1
    /\ phase # "encode" \/ pass > 0 \/ tgt_slices # <<>> => Len(slices) = n_slices
    /\ phase = "pad" => passes > 1

\* A single pass shares out everything; several keep no padding ...
NothingLeft == passes = 1 /\ Len(slices) = n_slices => remaining_length = 0
Unpadded    == passes > 1 /\ phase = "encode" =>
                 \A s \in DOMAIN slices : slices[s].padding = 0

\* ... until what they could not use is given to the slices in their order,
\* each of which is at its largest before the next one gets any.
ToPad ==
    phase = "pad" =>
      LET padded == n_slices - Len(tgt_slices)
      IN  /\ padded >= 0
          /\ \A i \in DOMAIN tgt_slices : tgt_slices[i] = padded + i
          /\ \A s \in DOMAIN slices : IF s > padded THEN slices[s].padding = 0
                                      ELSE remaining_length > 0 => UsedBy(slices[s]) = Largest
Padded ==
    /\ phase \in {"check", "overrun"} /\ remaining_length > 0 =>
          passes > 1 /\ \A s \in DOMAIN slices : UsedBy(slices[s]) = Largest
    /\ phase = "overrun" => remaining_length > 0
    /\ ~Encoding => remaining_length = 0

Coding == /\ OnGrid(remaining_length) /\ Sane /\ Shared /\ Enough
          /\ Passes /\ NothingLeft /\ Unpadded /\ ToPad /\ Padded

BytesInv == Types /\ Coding

LEMMA UsedOf ==
  ASSUME NEW seq \in Seq(SliceSet)
  PROVE  /\ DOMAIN seq = 1..Len(seq) /\ Len(seq) \in Nat
         /\ DOMAIN UsedBytes(seq) = 1..Len(seq)
         /\ \A s \in 1..Len(seq) :
              /\ seq[s] \in SliceSet /\ seq[s].length \in Lengths
              /\ seq[s].padding \in Int
              /\ CodedLength(seq[s].length) \in Nat
              /\ CodedLength(seq[s].length) >= 4
              /\ UsedBy(seq[s]) \in Int
              /\ UsedBytes(seq)[s] = UsedBy(seq[s])
         /\ Total(seq) \in Int
<1>1. DOMAIN seq = 1..Len(seq) /\ Len(seq) \in Nat
  OBVIOUS
<1>2. ASSUME NEW s \in 1..Len(seq)
      PROVE  seq[s] \in SliceSet /\ seq[s].length \in Lengths /\ seq[s].padding \in Int
  <2>1. seq[s] \in SliceSet
    BY <1>1
  <2> QED
    BY <2>1 DEF SliceSet
<1>3. \A s \in 1..Len(seq) : /\ UsedBy(seq[s]) \in Int
                             /\ UsedBytes(seq)[s] = UsedBy(seq[s])
  BY <1>1, <1>2, Coded DEF UsedBy, UsedBytes
<1>4. Total(seq) \in Int
  BY <1>1, <1>3, SumType DEF Total
<1> QED
  BY <1>1, <1>2, <1>3, <1>4, Coded DEF UsedBytes

\* A slice more uses its bytes more ...
LEMMA TotalOfOneMore ==
  ASSUME NEW seq \in Seq(SliceSet), NEW new \in SliceSet
  PROVE  Total(Append(seq, new)) = Total(seq) + UsedBy(new)
<1> DEFINE n == Len(seq)
           more == Append(seq, new)
<1>1. /\ more \in Seq(SliceSet) /\ Len(more) = n + 1 /\ more[n + 1] = new
      /\ \A s \in 1..n : more[s] = seq[s]
  OBVIOUS
<1> HIDE DEF more
<1>2. /\ n \in Nat
      /\ \A s \in 1..n : UsedBytes(seq)[s] = UsedBy(seq[s]) /\ UsedBytes(seq)[s] \in Int
  BY UsedOf
<1>3. /\ \A s \in 1..n+1 : UsedBytes(more)[s] = UsedBy(more[s]) /\ UsedBytes(more)[s] \in Int
  BY <1>1, UsedOf
<1>4. \A s \in 1..n : UsedBytes(more)[s] = UsedBytes(seq)[s]
  BY <1>1, <1>2, <1>3
<1>5. SumTo(UsedBytes(more), n) = SumTo(UsedBytes(seq), n)
  BY <1>2, <1>4, SumSame
<1>6. SumTo(UsedBytes(more), n + 1) = SumTo(UsedBytes(more), n) + UsedBytes(more)[n + 1]
  BY <1>2, <1>3, SumStep
<1>7. UsedBytes(more)[n + 1] = UsedBy(new)
  BY <1>1, <1>2, <1>3
<1> QED
  BY <1>1, <1>5, <1>6, <1>7 DEF Total, more

\* ... and one that changes, the difference.
LEMMA TotalOfChanged ==
  ASSUME NEW seq \in Seq(SliceSet), NEW new \in SliceSet, NEW i \in 1..Len(seq)
  PROVE  Total([seq EXCEPT ![i] = new]) = Total(seq) + (UsedBy(new) - UsedBy(seq[i]))
<1> DEFINE n == Len(seq)
           other == [seq EXCEPT ![i] = new]
<1>1. /\ other \in Seq(SliceSet) /\ Len(other) = n /\ other[i] = new
      /\ \A s \in 1..n : s # i => other[s] = seq[s]
  OBVIOUS
<1> HIDE DEF other
<1>2. /\ n \in Nat
      /\ \A s \in 1..n : UsedBytes(seq)[s] = UsedBy(seq[s]) /\ UsedBytes(seq)[s] \in Int
  BY UsedOf
<1>3. /\ \A s \in 1..n : UsedBytes(other)[s] = UsedBy(other[s]) /\ UsedBytes(other)[s] \in Int
  BY <1>1, UsedOf
<1>4. \A s \in 1..n : s # i => UsedBytes(other)[s] = UsedBytes(seq)[s]
  BY <1>1, <1>2, <1>3
<1>5. SumTo(UsedBytes(other), n)
        = SumTo(UsedBytes(seq), n) + (UsedBytes(other)[i] - UsedBytes(seq)[i])
  BY <1>2, <1>3, <1>4, SumChange
<1>6. UsedBytes(other)[i] = UsedBy(new) /\ UsedBytes(seq)[i] = UsedBy(seq[i])
  BY <1>1, <1>2, <1>3
<1> QED
  BY <1>1, <1>5, <1>6 DEF Total, other

LEMMA InitBytes == Init => BytesInv
<1> SUFFICES ASSUME Init PROVE BytesInv
  OBVIOUS
<1>1. n_slices \in Nat \ {0} /\ slices_per_frag \in Nat
  BY PartialAssumption DEF Init
<1>2. PICK r \in Nat : encode_length = r * slice_size_scalar + 4 * n_slices
  BY PartialAssumption DEF Init
<1>3. /\ remaining_length = encode_length /\ encode_length \in Nat
      /\ remaining_length >= 4 * n_slices
  BY <1>1, <1>2, Scalar DEF Init
<1>4. OnGrid(remaining_length)
  <2>1. OnGrid(r * slice_size_scalar) /\ r * slice_size_scalar \in Int
    BY <1>2, Scalar DEF OnGrid
  <2>2. OnGrid(4 * n_slices) /\ 4 * n_slices \in Int
    <3>1. PICK k \in Nat : 4 = k * slice_size_scalar
      BY GridFour DEF OnGrid
    <3>2. 4 * n_slices = (k * n_slices) * slice_size_scalar /\ k * n_slices \in Nat
      BY <1>1, <3>1, Scalar
    <3> QED
      BY <1>1, <3>2 DEF OnGrid
  <2> QED
    BY <2>1, <2>2, <1>2, <1>3, GridPlus
<1>5. slices = <<>> /\ tgt_slices = <<>> /\ again = <<>> /\ Len(slices) = 0 /\ DOMAIN slices = {}
  BY DEF Init
<1>6. Types
  BY <1>1, <1>3, <1>5 DEF Init, Types
<1>7. Total(slices) = 0
  <2>1. \A k \in 1..0 : UsedBytes(slices)[k] \in Int
    OBVIOUS
  <2> QED
    BY <1>5, <2>1, SumType DEF Total
<1> QED
  BY <1>1, <1>3, <1>4, <1>5, <1>6, <1>7 DEF Init, BytesInv, Coding, Sane, Shared, Enough, Passes,
     NothingLeft, Unpadded, ToPad, Padded, Encoding

LEMMA FirstPassBytes ==
  ASSUME BytesInv, FirstPass
  PROVE  BytesInv'
<1>1. /\ Types /\ Coding /\ UNCHANGED given /\ UNCHANGED <<phase, pass, tgt_slices>>
      /\ phase = "encode" /\ pass = 0
  BY DEF BytesInv, FirstPass
<1> DEFINE n == Len(slices)
           m == n_slices - n
           coded_size == Share(remaining_length, m)
<1>2. n \in Nat /\ n_slices \in Nat /\ m \in Nat \ {0} /\ remaining_length \in Nat /\ n < n_slices
  BY <1>1 DEF Types, FirstPass
<1>3. /\ coded_size \in Nat /\ OnGrid(coded_size) /\ coded_size <= remaining_length
      /\ m = 1 => coded_size = remaining_length
      /\ coded_size >= 4 /\ remaining_length - coded_size >= 4 * (m - 1)
  BY <1>1, <1>2, ShareOf DEF Coding, Enough
<1>4. PICK t \in Triples :
        LET length == Encode(t, coded_size)
            cl == CodedLength(length)
            used == IF passes = 1 THEN coded_size ELSE cl
        IN  /\ remaining_length' = remaining_length - used
            /\ slices' = Append(slices, [length |-> length, padding |-> used - cl])
            /\ again' = IF passes > 1 /\ cl = coded_size
                        THEN Append(again, Len(slices) + 1) ELSE again
  BY DEF FirstPass
<1> DEFINE length == Encode(t, coded_size)
           cl == CodedLength(length)
           used == IF passes = 1 THEN coded_size ELSE cl
           new == [length |-> length, padding |-> used - cl]
<1>5. /\ length \in Lengths /\ Sized(length) /\ cl <= coded_size
      /\ cl \in Nat /\ cl >= 4 /\ OnGrid(cl) /\ cl <= Largest
  <2>1. t \in Lengths
    BY PartialAssumption DEF Lengths
  <2> QED
    BY <2>1, <1>3, EncodeOf, Coded
<1>6. /\ used \in Nat /\ OnGrid(used) /\ cl <= used /\ used <= coded_size
      /\ passes = 1 => used = coded_size
      /\ passes # 1 => used = cl
  BY <1>3, <1>5
<1>7. /\ remaining_length' = remaining_length - used
      /\ slices' = Append(slices, new)
      /\ again' = IF passes > 1 /\ cl = coded_size THEN Append(again, n + 1) ELSE again
  BY <1>4
<1>8. new \in SliceSet /\ new.length = length /\ new.padding = used - cl /\ UsedBy(new) = used
  BY <1>5, <1>6 DEF SliceSet, UsedBy
<1> HIDE DEF coded_size, length, cl, used, new, m
<1>9. /\ remaining_length' \in Nat /\ remaining_length' >= 4 * (m - 1)
      /\ OnGrid(remaining_length')
  <2>1. remaining_length >= used
    BY <1>2, <1>3, <1>6
  <2>2. OnGrid(remaining_length - used)
    BY <1>1, <1>2, <1>6, <2>1, GridMinus DEF Coding
  <2>3. remaining_length - used \in Nat
    BY <1>2, <1>6, <2>1
  <2>4. 4 * (m - 1) \in Int
    BY <1>2
  <2>5. remaining_length - used >= 4 * (m - 1)
    BY <1>2, <1>3, <1>6, <2>4
  <2> QED
    BY <1>7, <2>2, <2>3, <2>5
<1>10. /\ slices' \in Seq(SliceSet) /\ Len(slices') = n + 1
       /\ slices'[n + 1] = new /\ \A s \in 1..n : slices'[s] = slices[s]
       /\ DOMAIN slices' = 1..n+1 /\ DOMAIN slices = 1..n
  BY <1>1, <1>7, <1>8 DEF Types
<1>11. Types'
  <2>1. again' \in Seq(1..n_slices)
    <3>1. n + 1 \in 1..n_slices /\ again \in Seq(1..n_slices)
      BY <1>1, <1>2 DEF Types
    <3>2. Append(again, n + 1) \in Seq(1..n_slices)
      BY <3>1
    <3> QED
      BY <3>1, <3>2, <1>7
  <2> QED
    BY <2>1, <1>1, <1>2, <1>9, <1>10 DEF Types, given
<1>12. Total(slices') = Total(slices) + used
  BY <1>1, <1>7, <1>8, TotalOfOneMore DEF Types
<1>13. Shared'
  <2>1. Total(slices) \in Int
    BY <1>1, UsedOf DEF Types
  <2> QED
    BY <2>1, <1>1, <1>2, <1>6, <1>7, <1>12 DEF Coding, Shared, given
<1>14. Enough'
  <2>1. n_slices - (n + 1) = m - 1
    BY <1>2 DEF m
  <2> QED
    BY <2>1, <1>1, <1>9, <1>10 DEF Enough, given
<1>15. Sane'
  <2> SUFFICES ASSUME NEW s \in 1..n+1
               PROVE  /\ slices'[s].padding >= 0 /\ Sized(slices'[s].length)
                      /\ passes > 1 => UsedBy(slices'[s]) <= Largest
    BY <1>1, <1>10 DEF Sane, given
  <2>1. CASE s = n + 1
    BY <2>1, <1>5, <1>6, <1>8, <1>10
  <2>2. CASE s \in 1..n
    BY <2>2, <1>1, <1>10 DEF Coding, Sane
  <2> QED
    BY <2>1, <2>2
<1>16. tgt_slices = <<>>
  BY <1>1, <1>2 DEF Coding, Passes
<1>17. Passes' /\ ToPad' /\ Padded'
  BY <1>1, <1>16 DEF Coding, Passes, ToPad, Padded, Encoding, given
<1>18. NothingLeft'
  <2> SUFFICES ASSUME passes = 1, n + 1 = n_slices PROVE remaining_length' = 0
    BY <1>1, <1>10 DEF NothingLeft, given
  <2>1. m = 1
    BY <1>2 DEF m
  <2> QED
    BY <2>1, <1>2, <1>3, <1>6, <1>7
<1>19. Unpadded'
  <2> SUFFICES ASSUME passes > 1, NEW s \in 1..n+1 PROVE slices'[s].padding = 0
    BY <1>1, <1>10 DEF Unpadded, given
  <2>1. CASE s = n + 1
    <3>1. used = cl
      BY <1>6
    <3> QED
      BY <2>1, <3>1, <1>5, <1>8, <1>10
  <2>2. CASE s \in 1..n
    BY <2>2, <1>1, <1>10 DEF Coding, Unpadded
  <2> QED
    BY <2>1, <2>2
<1> QED
  BY <1>9, <1>11, <1>13, <1>14, <1>15, <1>17, <1>18, <1>19 DEF BytesInv, Coding

LEMMA LaterPassBytes ==
  ASSUME BytesInv, LaterPass
  PROVE  BytesInv'
<1>1. /\ Types /\ Coding /\ UNCHANGED given /\ UNCHANGED <<phase, pass>>
      /\ phase = "encode" /\ tgt_slices # <<>> /\ passes > 1 /\ Len(slices) = n_slices
  BY DEF BytesInv, LaterPass, Coding, Passes
<1> DEFINE i == Head(tgt_slices)
           old_cl == CodedLength(slices[i].length)
           more == Share(remaining_length, Len(tgt_slices))
           coded_size == old_cl + more
<1>2. /\ i \in 1..n_slices /\ Tail(tgt_slices) \in Seq(1..n_slices)
      /\ Len(tgt_slices) \in Nat \ {0}
  BY <1>1 DEF Types
<1>3. /\ old_cl \in Nat /\ old_cl >= 4 /\ OnGrid(old_cl)
      /\ slices[i] \in SliceSet /\ slices[i].padding = 0 /\ UsedBy(slices[i]) = old_cl
      /\ DOMAIN slices = 1..n_slices /\ n_slices \in Nat
  <2>1. slices[i] \in SliceSet /\ slices[i].length \in Lengths /\ DOMAIN slices = 1..n_slices
    BY <1>1, <1>2, UsedOf DEF Types
  <2>2. slices[i].padding = 0
    BY <1>1, <1>2, <2>1 DEF Coding, Unpadded
  <2>3. old_cl \in Nat /\ old_cl >= 4 /\ OnGrid(old_cl)
    BY <2>1, Coded
  <2>4. UsedBy(slices[i]) = old_cl
    BY <2>2, <2>3 DEF UsedBy
  <2>5. n_slices \in Nat
    BY <1>1 DEF Types
  <2> QED
    BY <2>1, <2>2, <2>3, <2>4, <2>5
<1>4. more \in Nat /\ more <= remaining_length /\ OnGrid(remaining_length) /\ remaining_length \in Nat
  BY <1>1, <1>2, ShareOf DEF Coding, Types
<1>5. PICK t \in Triples :
        LET length == Encode(t, coded_size)
            cl == CodedLength(length)
        IN  /\ remaining_length' = remaining_length - (cl - old_cl)
            /\ slices' = [slices EXCEPT ![i] = [length |-> length, padding |-> 0]]
            /\ again' = IF cl = coded_size THEN Append(again, i) ELSE again
  BY DEF LaterPass
<1> DEFINE length == Encode(t, coded_size)
           cl == CodedLength(length)
           new == [length |-> length, padding |-> 0]
<1>6. /\ length \in Lengths /\ Sized(length) /\ cl <= coded_size
      /\ cl \in Nat /\ OnGrid(cl) /\ cl <= Largest
  <2>1. t \in Lengths
    BY PartialAssumption DEF Lengths
  <2>2. coded_size \in Int /\ coded_size >= 4
    BY <1>3, <1>4
  <2> HIDE DEF coded_size
  <2> QED
    BY <2>1, <2>2, EncodeOf, Coded
<1>7. /\ remaining_length' = remaining_length - (cl - old_cl)
      /\ slices' = [slices EXCEPT ![i] = new]
      /\ again' = IF cl = coded_size THEN Append(again, i) ELSE again
      /\ tgt_slices' = Tail(tgt_slices)
  BY <1>5 DEF LaterPass
<1>8. new \in SliceSet /\ new.length = length /\ new.padding = 0 /\ UsedBy(new) = cl
  BY <1>6 DEF SliceSet, UsedBy
<1>9. coded_size = old_cl + more
  OBVIOUS
<1> HIDE DEF i, old_cl, more, coded_size, length, cl, new
<1>10. remaining_length' \in Nat
  BY <1>3, <1>4, <1>6, <1>7, <1>9
<1>11. OnGrid(remaining_length')
  <2>0. remaining_length \in Int /\ old_cl \in Int /\ OnGrid(remaining_length) /\ OnGrid(old_cl)
    BY <1>3, <1>4
  <2>1. OnGrid(remaining_length + old_cl) /\ remaining_length + old_cl \in Int
    BY <2>0, GridPlus
  <2>2. remaining_length + old_cl >= cl /\ remaining_length' = (remaining_length + old_cl) - cl
    BY <1>3, <1>4, <1>6, <1>7, <1>9
  <2> QED
    BY <2>1, <2>2, <1>6, GridMinus
<1>12. /\ slices' \in Seq(SliceSet) /\ Len(slices') = n_slices /\ DOMAIN slices' = 1..n_slices
       /\ slices'[i] = new /\ \A s \in 1..n_slices : s # i => slices'[s] = slices[s]
  BY <1>1, <1>2, <1>3, <1>7, <1>8 DEF Types
<1>13. Types'
  <2>1. again' \in Seq(1..n_slices)
    <3>1. again \in Seq(1..n_slices)
      BY <1>1 DEF Types
    <3>2. Append(again, i) \in Seq(1..n_slices)
      BY <3>1, <1>2
    <3> QED
      BY <3>1, <3>2, <1>7
  <2> QED
    BY <2>1, <1>1, <1>2, <1>7, <1>10, <1>12 DEF Types, given
<1>14. Shared'
  <2>1. Total(slices') = Total(slices) + (cl - old_cl) /\ Total(slices) \in Int
    BY <1>1, <1>2, <1>3, <1>7, <1>8, TotalOfChanged, UsedOf DEF Types
  <2> QED
    BY <2>1, <1>1, <1>3, <1>4, <1>6, <1>7 DEF Coding, Shared, given
<1>15. Enough' /\ NothingLeft'
  BY <1>1, <1>3, <1>10, <1>12 DEF Enough, NothingLeft, given
<1>16. Sane' /\ Unpadded'
  <2> SUFFICES ASSUME NEW s \in 1..n_slices
               PROVE  /\ slices'[s].padding = 0 /\ Sized(slices'[s].length)
                      /\ UsedBy(slices'[s]) <= Largest
    BY <1>1, <1>12 DEF Sane, Unpadded, given
  <2>1. CASE s = i
    BY <2>1, <1>6, <1>8, <1>12
  <2>2. CASE s # i
    BY <2>2, <1>1, <1>3, <1>12 DEF Coding, Sane, Unpadded
  <2> QED
    BY <2>1, <2>2
<1>17. Passes' /\ ToPad' /\ Padded'
  BY <1>1, <1>12 DEF Coding, Passes, ToPad, Padded, Encoding, given
<1> QED
  BY <1>11, <1>13, <1>14, <1>15, <1>16, <1>17 DEF BytesInv, Coding

LEMMA PassEndsBytes ==
  ASSUME BytesInv, PassEnds
  PROVE  BytesInv'
<1>1. /\ Types /\ Coding /\ UNCHANGED given /\ UNCHANGED <<remaining_length, slices>>
      /\ phase = "encode" /\ Len(slices) = n_slices /\ pass' = pass + 1 /\ again' = <<>>
      /\ pass \in Nat /\ passes \in 1..3 /\ n_slices \in Nat \ {0} /\ n_slices' = n_slices
      /\ DOMAIN slices = 1..n_slices
  BY DEF BytesInv, PassEnds, Types, given
<1>2. /\ Sane' /\ Shared' /\ Enough' /\ NothingLeft' /\ OnGrid(remaining_length)'
  BY <1>1 DEF Coding, Sane, Shared, Enough, NothingLeft, OnGrid, given
<1>3. CASE pass' < passes
  <2>1. phase' = phase /\ tgt_slices' = again /\ passes > 1
    BY <1>1, <1>3 DEF PassEnds
  <2>2. Types'
    BY <1>1, <2>1 DEF Types, given
  <2>3. Passes' /\ Unpadded' /\ ToPad' /\ Padded'
    BY <1>1, <1>3, <2>1 DEF Coding, Passes, Unpadded, ToPad, Padded, Encoding, given
  <2> QED
    BY <1>2, <2>2, <2>3 DEF BytesInv, Coding
<1>4. CASE ~(pass' < passes)
  <2>1. /\ phase' = (IF passes > 1 THEN "pad" ELSE "check")
        /\ tgt_slices' = [s \in 1..n_slices |-> s]
    BY <1>1, <1>4 DEF PassEnds
  <2>2. /\ tgt_slices' \in Seq(1..n_slices) /\ Len(tgt_slices') = n_slices
        /\ DOMAIN tgt_slices' = 1..n_slices
        /\ \A i \in 1..n_slices : tgt_slices'[i] = i
    BY <1>1, <2>1
  <2>3. Types'
    BY <1>1, <2>1, <2>2 DEF Types, given
  <2>4. Passes' /\ Unpadded'
    BY <1>1, <2>1 DEF Passes, Unpadded, given
  <2>5. ToPad'
    <3> SUFFICES ASSUME passes > 1
                 PROVE  /\ n_slices - n_slices >= 0
                        /\ \A i \in 1..n_slices : tgt_slices'[i] = (n_slices - n_slices) + i
                        /\ \A s \in 1..n_slices : s > n_slices - n_slices /\ slices[s].padding = 0
      BY <1>1, <2>1, <2>2 DEF ToPad
    <3>1. \A s \in 1..n_slices : slices[s].padding = 0
      BY <1>1 DEF Coding, Unpadded
    <3> QED
      BY <1>1, <2>2, <3>1
  <2>6. Padded'
    <3>1. passes = 1 => remaining_length = 0
      BY <1>1 DEF Coding, NothingLeft
    <3> QED
      BY <1>1, <2>1, <3>1 DEF Padded, Encoding
  <2> QED
    BY <1>2, <2>3, <2>4, <2>5, <2>6 DEF BytesInv, Coding
<1> QED
  BY <1>3, <1>4

LEMMA LargestOf == Largest \in Nat /\ OnGrid(Largest)
<1> DEFINE l == 3 * MAX_LENGTH
<1>1. l \in Nat /\ Largest = 4 + l * slice_size_scalar
  BY Scalar DEF Largest
<1> HIDE DEF l
<1>2. l * slice_size_scalar \in Int /\ OnGrid(l * slice_size_scalar)
  BY <1>1, Scalar DEF OnGrid
<1>3. OnGrid(4 + l * slice_size_scalar)
  BY <1>2, GridFour, GridPlus
<1> QED
  BY <1>1, <1>3, Scalar

LEMMA PadBytes ==
  ASSUME BytesInv, Pad
  PROVE  BytesInv'
<1>1. /\ Types /\ Coding /\ UNCHANGED given /\ UNCHANGED <<pass, again>>
      /\ phase = "pad" /\ passes > 1 /\ Len(slices) = n_slices
      /\ n_slices \in Nat \ {0} /\ n_slices' = n_slices
      /\ DOMAIN slices = 1..n_slices
  BY DEF BytesInv, Pad, Types, given, Coding, Passes
<1> DEFINE padded == n_slices - Len(tgt_slices)
<1>2. /\ padded \in Nat /\ Len(tgt_slices) \in Nat
      /\ \A i \in 1..Len(tgt_slices) : tgt_slices[i] = padded + i
      /\ \A s \in 1..n_slices : IF s > padded THEN slices[s].padding = 0
                                ELSE remaining_length > 0 => UsedBy(slices[s]) = Largest
  <2>1. Len(tgt_slices) \in Nat /\ DOMAIN tgt_slices = 1..Len(tgt_slices)
    BY <1>1 DEF Types
  <2>2. ToPad
    BY <1>1 DEF Coding
  <2>3. /\ padded >= 0
        /\ \A i \in 1..Len(tgt_slices) : tgt_slices[i] = padded + i
        /\ \A s \in 1..n_slices : IF s > padded THEN slices[s].padding = 0
                                  ELSE remaining_length > 0 => UsedBy(slices[s]) = Largest
    BY <1>1, <2>1, <2>2 DEF ToPad
  <2> QED
    BY <1>1, <2>1, <2>3
<1>3. CASE tgt_slices = <<>> \/ remaining_length <= 0
  <2>1. phase' = "check" /\ UNCHANGED <<remaining_length, slices, tgt_slices>>
    BY <1>3 DEF Pad
  <2>2. Types'
    BY <1>1, <2>1 DEF Types, given
  <2>3. Padded'
    <3>1. remaining_length > 0 => \A s \in 1..n_slices : UsedBy(slices[s]) = Largest
      <4> SUFFICES ASSUME remaining_length > 0, NEW s \in 1..n_slices
                   PROVE  UsedBy(slices[s]) = Largest
        OBVIOUS
      <4>1. remaining_length \in Nat
        BY <1>1 DEF Types
      <4>2. Len(tgt_slices) = 0
        BY <1>3, <4>1
      <4> QED
        BY <1>1, <1>2, <4>2
    <3> QED
      BY <1>1, <2>1, <3>1 DEF Padded, Encoding, given
  <2> QED
    BY <1>1, <2>1, <2>2, <2>3 DEF BytesInv, Coding, Sane, Shared, Enough, NothingLeft, OnGrid, Passes,
       Unpadded, ToPad, given
<1>4. CASE ~(tgt_slices = <<>> \/ remaining_length <= 0)
  <2> DEFINE i == Head(tgt_slices)
             cl == CodedLength(slices[i].length)
             p == Least(Largest - cl, remaining_length)
             new == [slices[i] EXCEPT !.padding = p]
  <2>1. /\ slices' = [slices EXCEPT ![i].padding = p] /\ remaining_length' = remaining_length - p
        /\ tgt_slices' = Tail(tgt_slices) /\ phase' = phase
    BY <1>4 DEF Pad
  <2>2. /\ i \in 1..n_slices /\ i = padded + 1
        /\ Tail(tgt_slices) \in Seq(1..n_slices) /\ Len(Tail(tgt_slices)) = Len(tgt_slices) - 1
        /\ \A k \in 1..Len(tgt_slices) - 1 : Tail(tgt_slices)[k] = tgt_slices[k+1]
        /\ Len(tgt_slices) >= 1
    <3>1. tgt_slices \in Seq(1..n_slices) /\ tgt_slices # <<>>
      BY <1>1, <1>4 DEF Types
    <3>2. i \in 1..n_slices
      BY <3>1, HeadTailProperties
    <3>3. Len(tgt_slices) >= 1 /\ i = tgt_slices[1]
      BY <3>1
    <3> QED
      BY <3>1, <3>2, <3>3, <1>2
  <2>3. slices \in Seq(SliceSet) /\ remaining_length \in Nat /\ remaining_length > 0
    BY <1>1, <1>4 DEF Types
  <2>4. /\ slices[i] \in SliceSet /\ slices[i].length \in Lengths
        /\ slices[i].padding = 0 /\ Sized(slices[i].length)
    <3>1. slices[i] \in SliceSet /\ slices[i].length \in Lengths
      BY <1>1, <2>2, <2>3, UsedOf
    <3>2. slices[i].padding = 0
      BY <1>2, <2>2
    <3> QED
      BY <1>1, <2>2, <3>1, <3>2 DEF Coding, Sane
  <2>5. /\ cl \in Nat /\ cl <= Largest /\ OnGrid(cl) /\ UsedBy(slices[i]) = cl
        /\ Largest \in Nat /\ OnGrid(Largest - cl)
    <3>1. cl \in Nat /\ cl <= Largest /\ OnGrid(cl)
      BY <2>4, Coded
    <3>2. OnGrid(Largest - cl)
      BY <3>1, LargestOf, GridMinus
    <3> QED
      BY <2>4, <3>1, <3>2, LargestOf DEF UsedBy
  <2>6. /\ p \in Nat /\ p <= remaining_length /\ cl + p <= Largest /\ OnGrid(p)
        /\ remaining_length - p > 0 => cl + p = Largest
    BY <1>1, <2>3, <2>5 DEF Least, Coding
  <2>7. /\ new \in SliceSet /\ new.length = slices[i].length /\ new.padding = p
        /\ UsedBy(new) = cl + p
    BY <2>4, <2>6 DEF SliceSet, UsedBy
  <2>8. slices' = [slices EXCEPT ![i] = new]
    BY <2>1
  <2> HIDE DEF cl, p, new, i, padded
  <2>9. /\ slices' \in Seq(SliceSet) /\ Len(slices') = n_slices /\ DOMAIN slices' = 1..n_slices
        /\ slices'[i] = new /\ \A s \in 1..n_slices : s # i => slices'[s] = slices[s]
    BY <1>1, <2>2, <2>3, <2>7, <2>8
  <2>10. remaining_length' \in Nat /\ OnGrid(remaining_length')
    <3>1. OnGrid(remaining_length) /\ remaining_length \in Int /\ p \in Int /\ remaining_length >= p
      BY <1>1, <2>3, <2>6 DEF Coding
    <3>2. OnGrid(remaining_length - p)
      BY <2>6, <3>1, GridMinus
    <3> QED
      BY <2>1, <2>3, <2>6, <3>2
  <2>11. Types'
    BY <1>1, <2>1, <2>2, <2>9, <2>10 DEF Types, given
  <2>12. Shared'
    <3>1. Total(slices') = Total(slices) + ((cl + p) - cl) /\ Total(slices) \in Int
      <4>1. i \in 1..Len(slices)
        BY <1>1, <2>2
      <4>2. Total([slices EXCEPT ![i] = new]) = Total(slices) + (UsedBy(new) - UsedBy(slices[i]))
        BY <2>3, <2>7, <4>1, TotalOfChanged
      <4>3. Total(slices) \in Int
        BY <2>3, UsedOf
      <4> QED
        BY <2>5, <2>7, <2>8, <4>2, <4>3
    <3>2. remaining_length + Total(slices) = encode_length
      BY <1>1 DEF Coding, Shared
    <3> QED
      BY <2>1, <2>3, <2>5, <2>6, <3>1, <3>2, <1>1 DEF Shared, given
  <2>13. Enough' /\ NothingLeft' /\ Passes' /\ Unpadded' /\ Padded'
    BY <1>1, <2>1, <2>9, <2>10 DEF Enough, NothingLeft, Passes, Unpadded, Padded, Encoding, given
  <2>14. Sane'
    <3> SUFFICES ASSUME NEW s \in 1..n_slices
                 PROVE  /\ slices'[s].padding >= 0 /\ Sized(slices'[s].length)
                        /\ UsedBy(slices'[s]) <= Largest
      BY <1>1, <2>9 DEF Sane, given
    <3>1. CASE s = i
      BY <3>1, <2>4, <2>6, <2>7, <2>9
    <3>2. CASE s # i
      BY <3>2, <1>1, <2>9 DEF Coding, Sane
    <3> QED
      BY <3>1, <3>2
  <2>15. ToPad'
    <3>1. n_slices - Len(tgt_slices') = padded + 1
      BY <1>1, <1>2, <2>1, <2>2 DEF padded
    <3>2. DOMAIN tgt_slices' = 1..Len(tgt_slices) - 1
      BY <2>1, <2>2
    <3>3. \A k \in 1..Len(tgt_slices) - 1 : tgt_slices'[k] = (padded + 1) + k
      BY <1>2, <2>1, <2>2 DEF padded
    <3>4. ASSUME NEW s \in 1..n_slices
          PROVE  IF s > padded + 1 THEN slices'[s].padding = 0
                 ELSE remaining_length' > 0 => UsedBy(slices'[s]) = Largest
      <4>1. CASE s = i
        <5>1. ~(s > padded + 1)
          BY <4>1, <1>2, <2>2 DEF padded
        <5>2. remaining_length' > 0 => UsedBy(slices'[s]) = Largest
          BY <4>1, <2>1, <2>6, <2>7, <2>9
        <5> QED
          BY <5>1, <5>2
      <4>2. CASE s # i
        <5>1. slices'[s] = slices[s] /\ padded \in Nat /\ s # padded + 1
          BY <4>2, <1>2, <2>2, <2>9 DEF padded
        <5>2. IF s > padded THEN slices[s].padding = 0
              ELSE remaining_length > 0 => UsedBy(slices[s]) = Largest
          BY <1>2 DEF padded
        <5> QED
          BY <5>1, <5>2, <2>3
      <4> QED
        BY <4>1, <4>2
    <3>5. padded + 1 >= 0
      BY <1>2 DEF padded
    <3> QED
      BY <1>1, <2>9, <3>1, <3>2, <3>3, <3>4, <3>5 DEF ToPad
  <2> QED
    BY <2>10, <2>11, <2>12, <2>13, <2>14, <2>15 DEF BytesInv, Coding
<1> QED
  BY <1>3, <1>4

LEMMA CheckBytes ==
  ASSUME BytesInv, Check
  PROVE  BytesInv'
<1>1. /\ Types /\ Coding /\ UNCHANGED given /\ UNCHANGED coding /\ phase = "check"
      /\ phase' = IF remaining_length > 0 THEN "overrun" ELSE "serialise"
      /\ remaining_length \in Nat
  BY DEF BytesInv, Check, Types
<1>2. Types' /\ Passes' /\ Padded'
  BY <1>1 DEF Types, Coding, Passes, Padded, Encoding, given, coding
<1> QED
  BY <1>1, <1>2 DEF BytesInv, Coding, Sane, Shared, Enough, NothingLeft, OnGrid,
     Unpadded, ToPad, given, coding

\* No slice is refused when it comes to be written.
LEMMA NoneRefused ==
  ASSUME BytesInv, phase = "serialise", NEW n \in 1..n_slices
  PROVE  /\ ~Refused(slices[n]) /\ remaining_length = 0 /\ Len(slices) = n_slices
         /\ DOMAIN slices = 1..n_slices
         /\ slices[n] \in SliceSet /\ Sized(slices[n].length) /\ slices[n].padding >= 0
<1>1. Types /\ Coding /\ Len(slices) = n_slices /\ remaining_length = 0
  BY DEF BytesInv, Coding, Passes, Padded, Encoding
<1>2. DOMAIN slices = 1..n_slices /\ slices[n] \in SliceSet
      /\ slices[n].padding \in Int /\ slices[n].length \in Lengths
  BY <1>1, UsedOf DEF Types
<1>3. slices[n].padding >= 0 /\ Sized(slices[n].length)
  BY <1>1, <1>2 DEF Coding, Sane
<1>4. \A c \in 1..3 : Units(slices[n].length[c]) \in Nat
  BY <1>2, UnitsOf DEF Lengths
<1> QED
  BY <1>1, <1>2, <1>3, <1>4, Scalar DEF Refused, Sized

LEMMA WriteKeepsBytes ==
  ASSUME BytesInv, at \in Seq(Nat), WriteSlice \/ Finish \/ UNCHANGED vars
  PROVE  BytesInv'
<1>1. Types /\ Coding /\ UNCHANGED given /\ UNCHANGED coding
  BY DEF BytesInv, WriteSlice, Finish, vars
<1>2. CASE UNCHANGED phase
  BY <1>1, <1>2 DEF BytesInv, Types, Coding, Sane, Shared, Enough, NothingLeft, OnGrid, Passes,
     Unpadded, ToPad, Padded, Encoding, given, coding
<1>3. CASE phase = "serialise" /\ phase' = "done"
  BY <1>1, <1>3 DEF BytesInv, Types, Coding, Sane, Shared, Enough, NothingLeft, OnGrid, Passes,
     Unpadded, ToPad, Padded, Encoding, given, coding
<1>4. WriteSlice => UNCHANGED phase
  <2> SUFFICES ASSUME WriteSlice PROVE UNCHANGED phase
    OBVIOUS
  <2>1. phase = "serialise" /\ N \in 1..n_slices
    BY <1>1 DEF WriteSlice, N, Types
  <2>2. ~Refused(slices[N])
    BY <2>1, NoneRefused
  <2> QED
    BY <2>2 DEF WriteSlice
<1> QED
  BY <1>2, <1>3, <1>4 DEF Finish, vars

-----------------------------------------------------------------------------
(* What is written of a slice.                                             *)

LEMMA RestOfProduct ==
  ASSUME NEW a \in Nat, NEW b \in Nat, a <= b, NEW u \in Nat
  PROVE  (b - a) * u \in Nat /\ a * u + (b - a) * u = b * u
<1>1. b - a \in Nat
  OBVIOUS
<1>2. (b - a) * u \in Nat
  BY <1>1
<1>3. (b - a) * u = b * u - a * u
  OBVIOUS
<1> QED
  BY <1>2, <1>3

LEMMA RoomOf ==
  ASSUME NEW length \in Lengths, Sized(length)
  PROVE  /\ Room(length) \in [1..3 -> Nat] /\ Bytes(length) \in [1..3 -> Nat]
         /\ \A c \in 1..3 : /\ length[c] <= Bytes(length)[c] /\ length[c] \in Nat
                            /\ Bytes(length)[c] + Room(length)[c] = MAX_LENGTH * slice_size_scalar
         /\ Largest = 4 + 3 * (MAX_LENGTH * slice_size_scalar)
         /\ MAX_LENGTH * slice_size_scalar \in Nat
<1>1. ASSUME NEW c \in 1..3
      PROVE  /\ length[c] \in Nat /\ Units(length[c]) \in Nat
             /\ length[c] <= Units(length[c]) * slice_size_scalar
             /\ Units(length[c]) * slice_size_scalar \in Nat
             /\ Units(length[c]) <= MAX_LENGTH
  BY UnitsOf DEF Lengths, Sized
<1>2. ASSUME NEW c \in 1..3
      PROVE  /\ (MAX_LENGTH - Units(length[c])) * slice_size_scalar \in Nat
             /\ Units(length[c]) * slice_size_scalar + (MAX_LENGTH - Units(length[c])) * slice_size_scalar
                  = MAX_LENGTH * slice_size_scalar
  <2>1. slice_size_scalar \in Nat /\ MAX_LENGTH \in Nat
    BY Scalar
  <2> QED
    BY <2>1, <1>1, RestOfProduct
<1>3. Largest = 4 + 3 * (MAX_LENGTH * slice_size_scalar) /\ MAX_LENGTH * slice_size_scalar \in Nat
  BY Scalar DEF Largest
<1> QED
  BY <1>1, <1>2, <1>3 DEF Room, Bytes

\* The padding is distributed as far as there is room for it, so that a slice
\* has the size it was given or the largest there is.
LEMMA SizeOf ==
  ASSUME NEW slice \in SliceSet, Sized(slice.length), slice.padding >= 0
  PROVE  /\ Written(slice) \in [1..3 -> Nat]
         /\ \A c \in 1..3 : Written(slice)[c] >= slice.length[c]
         /\ UsedBy(slice) \in Nat /\ UsedBy(slice) >= 4
         /\ SliceSize(slice) = Least(UsedBy(slice), Largest)
         /\ SliceSize(slice) \in Nat /\ SliceSize(slice) >= 4
         /\ SliceSize(slice) <= UsedBy(slice)
         /\ UsedBy(slice) <= Largest => SliceSize(slice) = UsedBy(slice)
<1> DEFINE r == Room(slice.length)
           b == Bytes(slice.length)
           m == MAX_LENGTH * slice_size_scalar
           p == slice.padding
<1>1. slice.length \in Lengths /\ p \in Nat
  BY DEF SliceSet
<1>2. /\ r \in [1..3 -> Nat] /\ b \in [1..3 -> Nat] /\ m \in Nat
      /\ \A c \in 1..3 : slice.length[c] <= b[c] /\ slice.length[c] \in Nat /\ b[c] + r[c] = m
      /\ Largest = 4 + 3 * m
  BY <1>1, RoomOf
<1>3. /\ PadOf(slice, 1) = Least(r[1], Most(0, p))
      /\ PadOf(slice, 2) = Least(r[2], Most(0, p - r[1]))
      /\ PadOf(slice, 3) = Least(r[3], Most(0, p - (r[1] + r[2])))
  <2>1. r \in [1..3 -> Int]
    BY <1>2
  <2> HIDE DEF r
  <2>2. SumTo(r, 0) = 0 /\ SumTo(r, 1) = r[1] /\ SumTo(r, 2) = r[1] + r[2]
    BY <2>1, SumOfThree
  <2>3. /\ PadOf(slice, 1) = Least(r[1], Most(0, p - SumTo(r, 0)))
        /\ PadOf(slice, 2) = Least(r[2], Most(0, p - SumTo(r, 1)))
        /\ PadOf(slice, 3) = Least(r[3], Most(0, p - SumTo(r, 2)))
    BY DEF PadOf, r
  <2> QED
    BY <2>2, <2>3, <1>1
<1>4. \A c \in 1..3 : Written(slice)[c] = b[c] + PadOf(slice, c)
  BY DEF Written
<1>5. DOMAIN Written(slice) = 1..3 /\ Written(slice) = [c \in 1..3 |-> Written(slice)[c]]
  BY DEF Written
<1>6. UsedBy(slice) = 4 + b[1] + b[2] + b[3] + p
  BY <1>1, Coded DEF UsedBy
<1> HIDE DEF r, b, m, p
<1>7. /\ r[1] \in Nat /\ r[2] \in Nat /\ r[3] \in Nat
      /\ b[1] \in Nat /\ b[2] \in Nat /\ b[3] \in Nat
      /\ b[1] + r[1] = m /\ b[2] + r[2] = m /\ b[3] + r[3] = m
  BY <1>2
<1>8. /\ PadOf(slice, 1) \in Nat /\ PadOf(slice, 2) \in Nat /\ PadOf(slice, 3) \in Nat
      /\ PadOf(slice, 1) + PadOf(slice, 2) + PadOf(slice, 3) = Least(p, r[1] + r[2] + r[3])
  <2> DEFINE x(c) == PadOf(slice, c)
  <2>1. /\ x(1) = Least(r[1], Most(0, p))
        /\ x(2) = Least(r[2], Most(0, p - r[1]))
        /\ x(3) = Least(r[3], Most(0, p - (r[1] + r[2])))
    BY <1>3
  <2> HIDE DEF x
  <2>2. x(1) = IF r[1] < p THEN r[1] ELSE p
    BY <1>1, <1>7, <2>1 DEF Least, Most
  <2>3. x(2) = IF r[1] + r[2] < p THEN r[2] ELSE IF r[1] < p THEN p - r[1] ELSE 0
    BY <1>1, <1>7, <2>1 DEF Least, Most
  <2>4. x(3) = IF r[1] + r[2] + r[3] < p THEN r[3]
               ELSE IF r[1] + r[2] < p THEN p - (r[1] + r[2]) ELSE 0
    BY <1>1, <1>7, <2>1 DEF Least, Most
  <2>5. /\ x(1) \in Nat /\ x(2) \in Nat /\ x(3) \in Nat
        /\ x(1) + x(2) + x(3) = Least(p, r[1] + r[2] + r[3])
    BY <1>1, <1>7, <2>2, <2>3, <2>4 DEF Least
  <2> QED
    BY <2>5 DEF x
<1>9. /\ Written(slice) \in [1..3 -> Nat] /\ Written(slice) \in [1..3 -> Int]
      /\ \A c \in 1..3 : Written(slice)[c] >= slice.length[c]
  <2>1. \A c \in 1..3 : b[c] \in Nat /\ PadOf(slice, c) \in Nat
    BY <1>7, <1>8
  <2>2. \A c \in 1..3 : Written(slice)[c] \in Nat
    BY <2>1, <1>4
  <2>3. \A c \in 1..3 : Written(slice)[c] >= slice.length[c]
    BY <2>1, <1>2, <1>4
  <2> QED
    BY <2>2, <2>3, <1>5
<1>10. SliceSize(slice) = 4 + (Written(slice)[1] + Written(slice)[2] + Written(slice)[3])
  BY <1>9, SumOfThree DEF SliceSize
<1>11. SliceSize(slice) = 4 + b[1] + b[2] + b[3] + Least(p, r[1] + r[2] + r[3])
  <2> DEFINE w(c) == Written(slice)[c]
             x(c) == PadOf(slice, c)
             y == Least(p, r[1] + r[2] + r[3])
  <2>1. /\ w(1) = b[1] + x(1) /\ w(2) = b[2] + x(2) /\ w(3) = b[3] + x(3)
        /\ x(1) \in Nat /\ x(2) \in Nat /\ x(3) \in Nat /\ x(1) + x(2) + x(3) = y
        /\ SliceSize(slice) = 4 + (w(1) + w(2) + w(3))
    BY <1>4, <1>8, <1>10
  <2> HIDE DEF w, x, y
  <2>2. \A b1, b2, b3, x1, x2, x3 \in Int :
          4 + ((b1 + x1) + (b2 + x2) + (b3 + x3)) = 4 + b1 + b2 + b3 + (x1 + x2 + x3)
    OBVIOUS
  <2>3. SliceSize(slice) = 4 + b[1] + b[2] + b[3] + (x(1) + x(2) + x(3))
    <3>1. /\ b[1] \in Int /\ b[2] \in Int /\ b[3] \in Int
          /\ x(1) \in Int /\ x(2) \in Int /\ x(3) \in Int
      BY <1>7, <2>1
    <3>2. SliceSize(slice) = 4 + ((b[1] + x(1)) + (b[2] + x(2)) + (b[3] + x(3)))
      BY <2>1
    <3> QED
      BY <2>2, <3>1, <3>2
  <2>4. SliceSize(slice) = 4 + b[1] + b[2] + b[3] + y
    BY <2>1, <2>3
  <2> QED
    BY <2>4 DEF y
<1>12. Least(UsedBy(slice), Largest) = 4 + b[1] + b[2] + b[3] + Least(p, r[1] + r[2] + r[3])
  BY <1>1, <1>2, <1>6, <1>7 DEF Least
<1>13. UsedBy(slice) \in Nat /\ UsedBy(slice) >= 4 /\ Largest \in Nat /\ Largest >= 4
  BY <1>1, <1>2, <1>6, <1>7
<1> QED
  BY <1>9, <1>11, <1>12, <1>13 DEF Least

\* Stores end with the slice, or at most three bytes behind it if it is not
\* the last one.
LEMMA StoredOf ==
  ASSUME NEW slice \in SliceSet, Sized(slice.length), slice.padding >= 0,
         NEW start \in Nat, NEW c \in 1..3
  PROVE  /\ Stored(start, slice, c) \in Int
         /\ Stored(start, slice, c) <= start + SliceSize(slice) + (IF LastSlice THEN 0 ELSE 3)
<1> DEFINE w == Written(slice)
           d == Data(start, slice, c)
           l == slice.length[c]
<1>1. w \in [1..3 -> Nat] /\ w \in [1..3 -> Int] /\ w[c] >= l /\ w[c] \in Nat
  BY SizeOf
<1>2. l \in Nat
  BY DEF SliceSet, Lengths
<1>3. /\ SumTo(w, 0) = 0 /\ SumTo(w, 1) = w[1] /\ SumTo(w, 2) = w[1] + w[2]
      /\ SumTo(w, 3) = w[1] + w[2] + w[3]
  BY <1>1, SumOfThree
<1>4. SliceSize(slice) = 4 + SumTo(w, 3) /\ d = start + 1 + c + SumTo(w, c-1)
  BY DEF SliceSize, Data
<1>5. /\ Stored(start, slice, c) = (IF LastSlice \/ l = 0 THEN d + w[c]
                                    ELSE Most(d + w[c], d + l + 3))
  BY DEF Stored
<1> HIDE DEF w, d, l
<1>6. w[1] \in Nat /\ w[2] \in Nat /\ w[3] \in Nat
  BY <1>1
<1>7. d \in Int /\ d + w[c] <= start + SliceSize(slice) /\ SliceSize(slice) \in Int
  <2>1. CASE c = 1
    BY <2>1, <1>3, <1>4, <1>6
  <2>2. CASE c = 2
    BY <2>2, <1>3, <1>4, <1>6
  <2>3. CASE c = 3
    BY <2>3, <1>3, <1>4, <1>6
  <2> QED
    BY <2>1, <2>2, <2>3
<1> QED
  BY <1>1, <1>2, <1>5, <1>7 DEF Most

-----------------------------------------------------------------------------
(* 2. The output: nothing while the slices are encoded, then slice after   *)
(* slice.                                                                  *)

HeaderSet == [start : Nat, prev : Int, length : Int, slices : Int, sx : Nat, sy : Nat]

OutputTypes ==
    /\ ocounter \in Nat /\ overreach \in Int
    /\ at \in Seq(Nat) /\ Len(at) <= n_slices
    /\ frags \in Seq(HeaderSet)
    /\ sx \in 0..(slices_per_line - 1) /\ sy \in Nat
    /\ slices_til_next_frag_start \in Nat

NothingYet == /\ at = <<>> /\ frags = <<>> /\ ocounter = 0 /\ overreach = 0
              /\ slices_til_next_frag_start = 0 /\ sx = first_sx /\ sy = 0

AllFit    == \A s \in 1..n_slices : UsedBy(slices[s]) <= Largest
Before(k) == SumTo(UsedBytes(slices), k)    \* bytes given to the first k slices
Start(f)  == (f - 1) * slices_per_frag      \* slices before fragment f
Fragments == (n_slices + slices_per_frag - 1) \div slices_per_frag

FragmentCount ==
    IF slices_per_frag = 0 THEN frags = <<>>
    ELSE /\ Len(at) + slices_til_next_frag_start = Len(frags) * slices_per_frag
         /\ slices_til_next_frag_start < slices_per_frag
Position ==
    /\ ocounter <= Before(Len(at)) + Len(frags) * HEADER
    /\ AllFit => ocounter = Before(Len(at)) + Len(frags) * HEADER
LastWritten == at # <<>> => at[Len(at)] + SliceSize(slices[Len(at)]) = ocounter
Behind == \A s \in 1..Len(at) : at[s] < ocounter

\* A slice lies behind the headers of its own fragment and those before it;
\* the first m headers have been completed.
Placed(f) ==
    /\ frags[f].start = IF f = 1 THEN 0 ELSE frags[f-1].start + frags[f-1].length
    /\ frags[f].start <= ocounter
    /\ f > 1 => frags[f].prev = frags[f-1].length
    /\ \A s \in 1..Len(at) : at[s] >= frags[f].start <=> s > Start(f)
Completed(f) ==
    /\ frags[f].sx < slices_per_line
    /\ frags[f].sy * slices_per_line + frags[f].sx = first_sx + Start(f)
Headers(m) == /\ \A f \in 1..Len(frags) : Placed(f)
              /\ \A f \in 1..m : Completed(f)
              /\ \A f \in 1..Len(frags) - 1 : frags[f].slices = slices_per_frag
NextFragment ==
    sy * slices_per_line + sx = first_sx + (IF frags = <<>> THEN 0 ELSE Start(Len(frags)))

Writing == /\ FragmentCount /\ Position /\ LastWritten /\ Behind
           /\ overreach <= full_length
           /\ Headers(Len(frags) - 1) /\ NextFragment

Complete ==
    /\ Len(at) = n_slices /\ ocounter <= full_length /\ overreach <= full_length
    /\ AllFit => /\ ocounter = full_length
                 /\ at[n_slices] + SliceSize(slices[n_slices]) = full_length
    /\ FragmentCount /\ Behind /\ Headers(Len(frags))
    /\ frags # <<>> => /\ frags[Len(frags)].start + frags[Len(frags)].length = ocounter
                       /\ frags[Len(frags)].slices = n_slices - Start(Len(frags))

OutputInv == /\ OutputTypes
             /\ Encoding => NothingYet
             /\ phase = "serialise" => Writing
             /\ phase = "done" => Complete

LEMMA InitOutput == Init => OutputInv
<1> SUFFICES ASSUME Init PROVE OutputInv
  OBVIOUS
<1>1. /\ at = <<>> /\ frags = <<>> /\ at \in Seq(Nat) /\ frags \in Seq(HeaderSet)
      /\ Len(at) = 0 /\ n_slices \in Nat
  BY PartialAssumption DEF Init
<1>2. OutputTypes /\ NothingYet
  BY <1>1, Scalar DEF Init, OutputTypes, NothingYet
<1> QED
  BY <1>2 DEF Init, OutputInv, Encoding

\* The parts of full_length.
LEMMA LengthOf ==
  ASSUME Types
  PROVE  /\ full_length = encode_length + (IF slices_per_frag = 0 THEN 0 ELSE Fragments * HEADER)
         /\ full_length \in Nat /\ encode_length <= full_length
         /\ slices_per_frag # 0 =>
              /\ Fragments \in Nat
              /\ \A l \in Nat : l * slices_per_frag < n_slices + slices_per_frag => l <= Fragments
              /\ \A l \in Nat : /\ n_slices <= l * slices_per_frag
                                /\ l * slices_per_frag < n_slices + slices_per_frag
                                => l = Fragments
<1>1. slices_per_frag \in Nat /\ n_slices \in Nat \ {0} /\ encode_length \in Nat
  BY DEF Types
<1>2. full_length = encode_length + (IF slices_per_frag = 0 THEN 0 ELSE Fragments * HEADER)
  BY DEF full_length, Fragments
<1>3. ASSUME slices_per_frag # 0
      PROVE  /\ Fragments \in Nat
             /\ \A l \in Nat : l * slices_per_frag < n_slices + slices_per_frag => l <= Fragments
             /\ \A l \in Nat : /\ n_slices <= l * slices_per_frag
                               /\ l * slices_per_frag < n_slices + slices_per_frag
                               => l = Fragments
  <2> DEFINE a == n_slices + slices_per_frag - 1
             b == slices_per_frag
             q == a \div b
  <2>1. a \in Nat /\ b \in Nat \ {0}
    BY <1>1, <1>3
  <2> HIDE DEF a, b
  <2>2. q \in Nat /\ b * q <= a /\ a < b * q + b /\ b * q \in Nat
    <3>1. a = b * (a \div b) + (a % b) /\ a % b \in 0..(b-1) /\ a \div b \in Nat
      BY <2>1
    <3>2. b * (a \div b) \in Nat
      BY <2>1, <3>1
    <3> QED
      BY <2>1, <3>1, <3>2
  <2> HIDE DEF q
  <2>3. ASSUME NEW l \in Nat, l * b <= a PROVE l <= q
    <3> SUFFICES ASSUME q + 1 <= l PROVE FALSE
      BY <2>2
    <3>1. (q + 1) * b <= l * b /\ (q + 1) * b = b * q + b
      BY <2>1, <2>2
    <3> QED
      BY <2>1, <2>2, <2>3, <3>1
  <2>4. ASSUME NEW l \in Nat, a - b < l * b PROVE q <= l
    <3> SUFFICES ASSUME l + 1 <= q PROVE FALSE
      BY <2>2
    <3>1. (l + 1) * b <= q * b /\ (l + 1) * b = l * b + b /\ q * b = b * q /\ l * b \in Nat
      BY <2>1, <2>2
    <3> QED
      BY <2>1, <2>2, <2>4, <3>1
  <2>5. Fragments = q /\ a = n_slices + b - 1 /\ b = slices_per_frag
    BY DEF Fragments, a, b, q
  <2>6. ASSUME NEW l \in Nat, l * b < n_slices + b PROVE l <= q
    <3>1. l * b \in Nat
      BY <2>1
    <3> QED
      BY <1>1, <2>1, <2>3, <2>5, <2>6, <3>1
  <2>7. ASSUME NEW l \in Nat, n_slices <= l * b PROVE q <= l
    <3>1. l * b \in Nat
      BY <2>1
    <3> QED
      BY <1>1, <2>1, <2>4, <2>5, <2>7, <3>1
  <2>8. ASSUME NEW l \in Nat, n_slices <= l * b, l * b < n_slices + b PROVE l = q
    BY <2>2, <2>6, <2>7, <2>8
  <2> QED
    BY <2>2, <2>5, <2>6, <2>8
<1>4. full_length \in Nat /\ encode_length <= full_length
  BY <1>1, <1>2, <1>3 DEF HEADER
<1> QED
  BY <1>2, <1>3, <1>4

\* While the slices are encoded nothing is written.
LEMMA EncodingOutput ==
  ASSUME BytesInv, OutputInv, UNCHANGED given, UNCHANGED output, Encoding, Encoding'
  PROVE  OutputInv'
<1>1. n_slices' = n_slices /\ first_sx' = first_sx
  BY DEF given
<1>2. OutputTypes' /\ NothingYet'
  BY <1>1 DEF OutputInv, OutputTypes, NothingYet, output, fragment
<1> QED
  BY <1>2 DEF OutputInv, Encoding

LEMMA NoTimes == \A x \in Nat : 0 * x = 0
OBVIOUS

LEMMA CheckOutput ==
  ASSUME BytesInv, OutputInv, Check
  PROVE  OutputInv'
<1>1. /\ Encoding /\ NothingYet /\ OutputTypes /\ UNCHANGED given /\ UNCHANGED coding /\ UNCHANGED output
      /\ phase' \in {"overrun", "serialise"}
  BY DEF Check, OutputInv, Encoding
<1>2. Types /\ Types'
  BY CheckBytes DEF BytesInv
<1>3. OutputTypes' /\ NothingYet'
  BY <1>1 DEF OutputTypes, NothingYet, output, fragment, given
<1>4. /\ at' = <<>> /\ frags' = <<>> /\ ocounter' = 0 /\ Len(at') = 0 /\ Len(frags') = 0
      /\ overreach' = 0 /\ slices_til_next_frag_start' = 0 /\ sx' = first_sx' /\ sy' = 0
  BY <1>3 DEF NothingYet
<1>5. Before(0)' = 0
  <2>1. \A k \in 1..0 : UsedBytes(slices')[k] \in Int
    OBVIOUS
  <2> QED
    BY <2>1, SumType DEF Before
<1>6. FragmentCount' /\ Position' /\ LastWritten' /\ Behind'
  <2>1. slices_per_frag' \in Nat
    BY <1>2 DEF Types
  <2>2. FragmentCount'
    <3>1. 0 * slices_per_frag' = 0
      BY <2>1, NoTimes
    <3>2. Len(at') + slices_til_next_frag_start' = 0 /\ frags' = <<>>
      BY <1>4
    <3>3. slices_per_frag' # 0 => slices_til_next_frag_start' < slices_per_frag'
      BY <2>1, <1>4
    <3> QED
      BY <3>1, <3>2, <3>3, <1>4 DEF FragmentCount
  <2>3. Position'
    <3>1. Before(Len(at))' = 0
      BY <1>4, <1>5 DEF Before
    <3> QED
      BY <3>1, <1>4 DEF Position, HEADER
  <2>4. LastWritten' /\ Behind'
    BY <1>4 DEF LastWritten, Behind
  <2> QED
    BY <2>2, <2>3, <2>4
<1>7. (overreach <= full_length)'
  <2>1. full_length' \in Nat
    <3>1. full_length \in Nat
      BY <1>2, LengthOf
    <3> QED
      BY <1>1, <3>1 DEF full_length, given
  <2> QED
    BY <1>4, <2>1
<1>8. Headers(Len(frags) - 1)' /\ NextFragment'
  <2>1. first_sx' \in Nat /\ slices_per_line \in Nat
    BY <1>2, Scalar DEF Types
  <2> QED
    BY <1>4, <2>1 DEF Headers, NextFragment
<1> QED
  BY <1>1, <1>3, <1>6, <1>7, <1>8 DEF OutputInv, Writing, Encoding

\* The slice that is written next, and where it begins.
NextSlice == slices[Len(at) + 1]
NextStart == ocounter + (IF BeginsFragment THEN HEADER ELSE 0)

LEMMA Sums ==
  ASSUME BytesInv, phase = "serialise"
  PROVE  /\ Len(slices) = n_slices /\ n_slices \in Nat \ {0}
         /\ \A s \in 1..n_slices : /\ slices[s] \in SliceSet /\ Sized(slices[s].length)
                                   /\ slices[s].padding >= 0
                                   /\ UsedBy(slices[s]) \in Nat /\ UsedBy(slices[s]) >= 4
         /\ Before(n_slices) = encode_length
         /\ \A k \in 0..n_slices : /\ Before(k) \in Int
                                   /\ Before(k) + 4 * (n_slices - k) <= encode_length
         /\ \A k \in 0..n_slices - 1 : Before(k + 1) = Before(k) + UsedBy(slices[k + 1])
<1>1. /\ Types /\ Coding /\ n_slices \in Nat \ {0}
  BY DEF BytesInv, Types
<1>2. /\ Len(slices) = n_slices /\ remaining_length = 0
      /\ \A s \in 1..n_slices : slices[s] \in SliceSet /\ Sized(slices[s].length)
                                /\ slices[s].padding >= 0
  <2>1. 1 \in 1..n_slices
    BY <1>1
  <2> QED
    BY <2>1, NoneRefused
<1>3. \A s \in 1..n_slices : UsedBy(slices[s]) \in Nat /\ UsedBy(slices[s]) >= 4
  BY <1>2, SizeOf
<1>4. \A s \in 1..n_slices : UsedBytes(slices)[s] = UsedBy(slices[s])
  BY <1>1, <1>2, UsedOf DEF Types
<1> DEFINE u == UsedBytes(slices)
<1>5. \A s \in 1..n_slices : u[s] \in Int /\ u[s] >= 4
  BY <1>3, <1>4
<1> HIDE DEF u
<1>6. SumTo(u, n_slices) = encode_length
  <2>1. 0 + SumTo(u, n_slices) = encode_length /\ SumTo(u, n_slices) \in Int
    BY <1>1, <1>2, UsedOf DEF Coding, Shared, Total, Types, u
  <2> QED
    BY <2>1
<1>7. ASSUME NEW k \in 0..n_slices
      PROVE  SumTo(u, k) \in Int /\ SumTo(u, k) + 4 * (n_slices - k) <= encode_length
  <2>1. SumTo(u, n_slices) >= SumTo(u, k) + (n_slices - k) * 4
    BY <1>1, <1>5, SumGrows
  <2>2. SumTo(u, k) \in Int
    <3>1. k \in Nat /\ \A s \in 1..k : u[s] \in Int
      BY <1>1, <1>5
    <3> QED
      BY <3>1, SumType
  <2> QED
    BY <2>1, <2>2, <1>1, <1>6
<1>8. ASSUME NEW k \in 0..n_slices - 1
      PROVE  SumTo(u, k + 1) = SumTo(u, k) + u[k + 1]
  <2>1. k \in Nat /\ \A s \in 1..k+1 : u[s] \in Int
    BY <1>1, <1>5
  <2> QED
    BY <2>1, SumStep
<1>9. \A k : Before(k) = SumTo(u, k)
  BY DEF Before, u
<1>10. \A k \in 0..n_slices - 1 : u[k + 1] = UsedBy(slices[k + 1])
  <2> TAKE k \in 0..n_slices - 1
  <2>1. k + 1 \in 1..n_slices
    BY <1>1
  <2> QED
    BY <2>1, <1>4 DEF u
<1>11. \A k \in 0..n_slices : Before(k) \in Int /\ Before(k) + 4 * (n_slices - k) <= encode_length
  BY <1>7, <1>9
<1>12. \A k \in 0..n_slices - 1 : Before(k + 1) = Before(k) + UsedBy(slices[k + 1])
  BY <1>8, <1>9, <1>10
<1> QED
  BY <1>1, <1>2, <1>3, <1>6, <1>9, <1>11, <1>12

LEMMA SliceWritten ==
  ASSUME BytesInv, OutputInv, WriteSlice
  PROVE  /\ BytesInv' /\ Writing /\ OutputTypes /\ phase = "serialise" /\ phase' = "serialise"
         /\ UNCHANGED given /\ UNCHANGED slices
         /\ Len(at) \in Nat /\ Len(at) + 1 <= n_slices
         /\ WriteHeader
         /\ NextSlice \in SliceSet /\ Sized(NextSlice.length) /\ NextSlice.padding >= 0
         /\ NextStart \in Nat /\ NextStart >= ocounter
         /\ at' = Append(at, NextStart) /\ ocounter' = NextStart + SliceSize(NextSlice)
         /\ ocounter' \in Nat /\ ocounter' > NextStart
         /\ overreach' = Max({overreach} \union {Stored(NextStart, NextSlice, c) : c \in 1..3})
<1>1. /\ phase = "serialise" /\ OutputTypes /\ Writing /\ BytesInv' /\ UNCHANGED given
      /\ UNCHANGED coding /\ N <= n_slices /\ n_slices \in Nat
  BY WriteKeepsBytes DEF WriteSlice, OutputInv, OutputTypes, BytesInv, Types
<1>2. /\ Len(at) \in Nat /\ N = Len(at) + 1 /\ N \in 1..n_slices /\ ocounter \in Nat
  BY <1>1 DEF OutputTypes, N
<1>3. ~Refused(NextSlice) /\ NextSlice \in SliceSet /\ Sized(NextSlice.length) /\ NextSlice.padding >= 0
  BY <1>1, <1>2, NoneRefused DEF NextSlice
<1>4. /\ WriteHeader /\ phase' = phase
      /\ at' = Append(at, NextStart) /\ ocounter' = NextStart + SliceSize(NextSlice)
      /\ overreach' = Max({overreach} \union {Stored(NextStart, NextSlice, c) : c \in 1..3})
  BY <1>2, <1>3 DEF WriteSlice, NextSlice, NextStart
<1>5. NextStart \in Nat /\ NextStart >= ocounter
  BY <1>2 DEF NextStart, HEADER
<1>6. ocounter' \in Nat /\ ocounter' > NextStart
  BY <1>3, <1>4, <1>5, SizeOf
<1> QED
  BY <1>1, <1>2, <1>3, <1>4, <1>5, <1>6 DEF coding

\* A product of the form (f - 1) * s.
LEMMA Multiples ==
  ASSUME NEW f \in Nat, NEW s \in Nat
  PROVE  /\ f * s \in Nat /\ (f - 1) * s = f * s - s /\ (f + 1) * s = f * s + s
         /\ ((f + 1) - 1) * s = f * s
         /\ \A g \in Nat : g <= f => g * s <= f * s /\ (g - 1) * s <= (f - 1) * s /\ g * s \in Nat
<1>1. f * s \in Nat /\ (f - 1) * s = f * s - s /\ (f + 1) * s = f * s + s /\ ((f + 1) - 1) * s = f * s
  OBVIOUS
<1>2. ASSUME NEW g \in Nat, g <= f PROVE g * s <= f * s /\ (g - 1) * s <= (f - 1) * s /\ g * s \in Nat
  <2>1. g * s <= f * s /\ g * s \in Nat
    BY <1>2
  <2>2. (g - 1) * s = g * s - s
    OBVIOUS
  <2> QED
    BY <2>1, <2>2, <1>1
<1> QED
  BY <1>1, <1>2

\* A completed header: only the last one changes, and not where it is.
LEMMA CloseOf ==
  ASSUME OutputTypes, frags # <<>>, NEW end \in Nat, NEW count \in Nat
  PROVE  LET c == Close(end, count)
             l == Len(frags)
         IN  /\ l \in Nat \ {0} /\ c \in Seq(HeaderSet) /\ Len(c) = l
             /\ \A f \in 1..l : f # l => c[f] = frags[f]
             /\ c[l].start = frags[l].start /\ c[l].prev = frags[l].prev
             /\ c[l].length = end - frags[l].start /\ c[l].slices = count
             /\ c[l].sx = sx /\ c[l].sy = sy
<1> DEFINE l == Len(frags)
           len == end - frags[l].start
           g1 == [frags EXCEPT ![l].length = len]
           g2 == [g1 EXCEPT ![l].slices = count]
           g3 == [g2 EXCEPT ![l].sx = sx]
           g4 == [g3 EXCEPT ![l].sy = sy]
<1>1. /\ frags \in Seq(HeaderSet) /\ l \in Nat \ {0} /\ frags[l] \in HeaderSet
      /\ sx \in Nat /\ sy \in Nat
  BY Scalar DEF OutputTypes
<1>2. len \in Int
  <2>1. frags[l].start \in Nat
    BY <1>1 DEF HeaderSet
  <2> QED
    BY <2>1
<1>3. Close(end, count) = g4
  BY DEF Close
<1> HIDE DEF l, len
<1>4. /\ g1 \in Seq(HeaderSet) /\ Len(g1) = l /\ g1[l] = [frags[l] EXCEPT !.length = len]
      /\ \A f \in 1..l : f # l => g1[f] = frags[f]
  <2>1. [frags[l] EXCEPT !.length = len] \in HeaderSet
    BY <1>1, <1>2 DEF HeaderSet
  <2> QED
    BY <1>1, <2>1 DEF l
<1> HIDE DEF g1
<1>5. /\ g2 \in Seq(HeaderSet) /\ Len(g2) = l /\ g2[l] = [g1[l] EXCEPT !.slices = count]
      /\ \A f \in 1..l : f # l => g2[f] = g1[f]
  <2>1. g1[l] \in HeaderSet
    BY <1>1, <1>4
  <2>2. [g1[l] EXCEPT !.slices = count] \in HeaderSet
    BY <2>1 DEF HeaderSet
  <2> QED
    BY <1>1, <1>4, <2>2
<1> HIDE DEF g2
<1>6. /\ g3 \in Seq(HeaderSet) /\ Len(g3) = l /\ g3[l] = [g2[l] EXCEPT !.sx = sx]
      /\ \A f \in 1..l : f # l => g3[f] = g2[f]
  <2>1. g2[l] \in HeaderSet
    BY <1>1, <1>5
  <2>2. [g2[l] EXCEPT !.sx = sx] \in HeaderSet
    BY <1>1, <2>1 DEF HeaderSet
  <2> QED
    BY <1>1, <1>5, <2>2
<1> HIDE DEF g3
<1>7. /\ g4 \in Seq(HeaderSet) /\ Len(g4) = l /\ g4[l] = [g3[l] EXCEPT !.sy = sy]
      /\ \A f \in 1..l : f # l => g4[f] = g3[f]
  <2>1. g3[l] \in HeaderSet
    BY <1>1, <1>6
  <2>2. [g3[l] EXCEPT !.sy = sy] \in HeaderSet
    BY <1>1, <2>1 DEF HeaderSet
  <2> QED
    BY <1>1, <1>6, <2>2
<1>8. /\ g4[l].start = frags[l].start /\ g4[l].prev = frags[l].prev
      /\ g4[l].length = len /\ g4[l].slices = count /\ g4[l].sx = sx /\ g4[l].sy = sy
  <2>1. /\ frags[l] \in HeaderSet /\ g1[l] \in HeaderSet /\ g2[l] \in HeaderSet /\ g3[l] \in HeaderSet
    BY <1>1, <1>4, <1>5, <1>6
  <2>2. /\ g1[l].length = len /\ g1[l].start = frags[l].start /\ g1[l].prev = frags[l].prev
    BY <1>4, <2>1 DEF HeaderSet
  <2>3. /\ g2[l].slices = count /\ g2[l].length = g1[l].length
        /\ g2[l].start = g1[l].start /\ g2[l].prev = g1[l].prev
    BY <1>5, <2>1 DEF HeaderSet
  <2>4. /\ g3[l].sx = sx /\ g3[l].slices = g2[l].slices /\ g3[l].length = g2[l].length
        /\ g3[l].start = g2[l].start /\ g3[l].prev = g2[l].prev
    BY <1>6, <2>1 DEF HeaderSet
  <2>5. /\ g4[l].sy = sy /\ g4[l].sx = g3[l].sx /\ g4[l].slices = g3[l].slices
        /\ g4[l].length = g3[l].length /\ g4[l].start = g3[l].start /\ g4[l].prev = g3[l].prev
    BY <1>7, <2>1 DEF HeaderSet
  <2> QED
    BY <2>2, <2>3, <2>4, <2>5
<1> HIDE DEF g4
<1>9. \A f \in 1..l : f # l => g4[f] = frags[f]
  BY <1>4, <1>5, <1>6, <1>7
<1> QED
  BY <1>1, <1>3, <1>7, <1>8, <1>9 DEF l, len

\* The number of fragments begun goes with the number of slices written.
LEMMA CountWritten ==
  ASSUME BytesInv, OutputInv, WriteSlice
  PROVE  /\ FragmentCount'
         /\ Len(frags) \in Nat /\ Len(frags') \in Nat
         /\ Len(frags') = Len(frags) + (IF BeginsFragment THEN 1 ELSE 0)
         /\ slices_per_frag = 0 \/ Len(frags') <= Fragments
         /\ slices_per_frag = 0 => frags' = <<>>
         /\ BeginsFragment => Len(at) = Len(frags) * slices_per_frag
         /\ ~BeginsFragment /\ slices_per_frag # 0 => Len(at) > Start(Len(frags)) /\ frags # <<>>
         /\ slices_til_next_frag_start' \in Nat
<1>1. /\ FragmentCount /\ WriteHeader /\ OutputTypes /\ UNCHANGED given
      /\ Len(at) \in Nat /\ Len(at') = Len(at) + 1 /\ Len(at) + 1 <= n_slices
      /\ Types
  <2>1. Len(at') = Len(at) + 1
    BY SliceWritten DEF OutputTypes
  <2> QED
    BY <2>1, SliceWritten DEF Writing, BytesInv
<1>2. /\ frags \in Seq(HeaderSet) /\ Len(frags) \in Nat /\ slices_per_frag \in Nat
      /\ slices_til_next_frag_start \in Nat /\ n_slices \in Nat
      /\ slices_per_frag' = slices_per_frag /\ (frags = <<>> <=> Len(frags) = 0)
  BY <1>1 DEF OutputTypes, Types, given
<1>3. CASE slices_per_frag = 0
  BY <1>1, <1>2, <1>3 DEF FragmentCount, WriteHeader, BeginsFragment
<1>4. CASE slices_per_frag # 0 /\ slices_til_next_frag_start # 0
  <2> DEFINE l == Len(frags)
  <2>1. /\ ~BeginsFragment /\ frags' = frags
        /\ slices_til_next_frag_start' = slices_til_next_frag_start - 1
    BY <1>1, <1>4 DEF WriteHeader, BeginsFragment
  <2>2. /\ Len(at) + slices_til_next_frag_start = l * slices_per_frag
        /\ slices_til_next_frag_start < slices_per_frag
    BY <1>1, <1>4 DEF FragmentCount
  <2>3. l * slices_per_frag \in Nat /\ Start(l) = l * slices_per_frag - slices_per_frag
    BY <1>2, Multiples DEF Start
  <2>4. l * slices_per_frag < n_slices + slices_per_frag
    BY <1>1, <1>2, <2>2, <2>3
  <2>5. l <= Fragments
    BY <1>1, <1>2, <1>4, <2>4, LengthOf
  <2>6. FragmentCount'
    BY <1>1, <1>2, <1>4, <2>1, <2>2, <2>3 DEF FragmentCount
  <2>7. frags # <<>>
    <3>1. l = 0 => l * slices_per_frag = 0
      BY <1>2, NoTimes
    <3> QED
      BY <1>1, <1>2, <1>4, <2>2, <3>1
  <2> QED
    BY <1>2, <1>4, <2>1, <2>2, <2>3, <2>5, <2>6, <2>7
<1>5. CASE slices_per_frag # 0 /\ slices_til_next_frag_start = 0
  <2> DEFINE l == Len(frags)
  <2>1. /\ BeginsFragment /\ slices_til_next_frag_start' = slices_per_frag - 1
        /\ Len(frags') = l + 1 /\ frags' # <<>>
    <3>1. BeginsFragment /\ slices_til_next_frag_start' = slices_per_frag - 1
      BY <1>1, <1>5 DEF WriteHeader, BeginsFragment
    <3>2. CASE frags = <<>>
      <4>1. frags' = <<Header(0)>> /\ l = 0
        BY <1>1, <3>1, <3>2 DEF WriteHeader
      <4> QED
        BY <3>1, <4>1
    <3>3. CASE frags # <<>>
      <4> DEFINE c == Close(ocounter, slices_per_frag)
      <4>1. c \in Seq(HeaderSet) /\ Len(c) = l
        BY <1>1, <1>2, <3>3, CloseOf DEF OutputTypes
      <4>2. frags' = Append(c, Header(ocounter - frags[l].start))
        BY <1>1, <3>1, <3>3 DEF WriteHeader
      <4> HIDE DEF c
      <4> QED
        BY <3>1, <4>1, <4>2, <1>2
    <3> QED
      BY <3>1, <3>2, <3>3
  <2>2. Len(at) = l * slices_per_frag
    BY <1>1, <1>2, <1>5 DEF FragmentCount
  <2>3. (l + 1) * slices_per_frag = l * slices_per_frag + slices_per_frag /\ l * slices_per_frag \in Nat
    BY <1>2, Multiples
  <2>4. l + 1 <= Fragments
    <3>1. (l + 1) * slices_per_frag < n_slices + slices_per_frag
      BY <1>1, <1>2, <2>2, <2>3
    <3> QED
      BY <1>1, <1>2, <1>5, <3>1, LengthOf
  <2>5. FragmentCount'
    BY <1>1, <1>2, <1>5, <2>1, <2>2, <2>3 DEF FragmentCount
  <2> QED
    BY <1>2, <1>5, <2>1, <2>2, <2>4, <2>5
<1> QED
  BY <1>2, <1>3, <1>4, <1>5

LEMMA MaxOfFour ==
  ASSUME NEW a \in Int, NEW b \in Int, NEW c \in Int, NEW d \in Int, NEW m \in Int,
         a <= m, b <= m, c <= m, d <= m
  PROVE  Max({a, b, c, d}) \in Int /\ Max({a, b, c, d}) <= m
<1> DEFINE S == {a, b, c, d}
<1>1. \E x \in S : \A y \in S : x >= y
  <2>1. CASE a >= b /\ a >= c /\ a >= d
    BY <2>1
  <2>2. CASE b >= a /\ b >= c /\ b >= d
    BY <2>2
  <2>3. CASE c >= a /\ c >= b /\ c >= d
    BY <2>3
  <2>4. CASE d >= a /\ d >= b /\ d >= c
    BY <2>4
  <2> QED
    BY <2>1, <2>2, <2>3, <2>4
<1>2. \A x \in S : x \in Int /\ x <= m
  OBVIOUS
<1> HIDE DEF S
<1>3. Max(S) \in S
  BY <1>1 DEF Max
<1> QED
  BY <1>2, <1>3 DEF S

\* Where the output is: what has been written is never more than what the
\* slices may use, and the headers.
LEMMA PositionWritten ==
  ASSUME BytesInv, OutputInv, WriteSlice
  PROVE  /\ Position' /\ LastWritten' /\ Behind'
         /\ overreach' \in Int /\ overreach' <= full_length' /\ full_length' = full_length
         /\ at' \in Seq(Nat) /\ Len(at') <= n_slices' /\ Len(at') = Len(at) + 1
<1> DEFINE k == Len(at)
           l == Len(frags)
<1>1. /\ Position /\ Behind /\ overreach <= full_length /\ overreach \in Int
      /\ at \in Seq(Nat) /\ ocounter \in Nat /\ phase = "serialise"
      /\ slices' = slices /\ n_slices' = n_slices /\ Types /\ UNCHANGED given
      /\ k \in Nat /\ k + 1 <= n_slices
      /\ NextStart \in Nat /\ NextStart >= ocounter
      /\ at' = Append(at, NextStart) /\ ocounter' = NextStart + SliceSize(NextSlice)
      /\ ocounter' \in Nat /\ ocounter' > NextStart
      /\ overreach' = Max({overreach} \union {Stored(NextStart, NextSlice, c) : c \in 1..3})
      /\ NextSlice \in SliceSet /\ Sized(NextSlice.length) /\ NextSlice.padding >= 0
  BY SliceWritten DEF Writing, OutputTypes, given, BytesInv
<1>2. /\ l \in Nat /\ Len(frags') = l + (IF BeginsFragment THEN 1 ELSE 0)
      /\ slices_per_frag = 0 \/ Len(frags') <= Fragments
      /\ slices_per_frag = 0 => frags' = <<>>
      /\ Len(frags') \in Nat
  BY CountWritten
<1>3. /\ Before(k) \in Int /\ Before(k + 1) = Before(k) + UsedBy(NextSlice) /\ n_slices \in Nat
      /\ Before(k + 1) \in Int
      /\ Before(k + 1) + 4 * (n_slices - (k + 1)) <= encode_length
      /\ encode_length \in Nat
  <2>1. n_slices \in Nat /\ k \in 0..n_slices /\ k + 1 \in 0..n_slices /\ k \in 0..n_slices - 1
    BY <1>1 DEF Types
  <2> QED
    BY <1>1, <2>1, Sums DEF NextSlice, Types
<1>4. /\ SliceSize(NextSlice) \in Nat /\ SliceSize(NextSlice) <= UsedBy(NextSlice)
      /\ UsedBy(NextSlice) \in Nat
      /\ UsedBy(NextSlice) <= Largest => SliceSize(NextSlice) = UsedBy(NextSlice)
  BY <1>1, SizeOf
<1>5. /\ at' \in Seq(Nat) /\ Len(at') = k + 1 /\ at'[k + 1] = NextStart
      /\ \A s \in 1..k : at'[s] = at[s] /\ at[s] \in Nat
  BY <1>1
<1>6. NextStart = ocounter + (Len(frags') - l) * HEADER
  BY <1>1, <1>2 DEF NextStart, HEADER
<1>7. /\ ocounter' <= Before(k + 1) + Len(frags') * HEADER
      /\ AllFit => ocounter' = Before(k + 1) + Len(frags') * HEADER
  <2>1. /\ ocounter <= Before(k) + l * HEADER
        /\ AllFit => ocounter = Before(k) + l * HEADER
    BY <1>1 DEF Position
  <2>2. AllFit => UsedBy(NextSlice) <= Largest
    BY <1>1, <1>3 DEF AllFit, NextSlice
  <2>3. ocounter' = ocounter + (Len(frags') - l) * HEADER + SliceSize(NextSlice) /\ ocounter \in Nat
    BY <1>1, <1>6
  <2> DEFINE z == SliceSize(NextSlice)
             u == UsedBy(NextSlice)
             b == Before(k)
             c == Before(k + 1)
             h == Len(frags')
  <2>4. /\ z \in Int /\ u \in Int /\ b \in Int /\ c \in Int /\ h \in Int /\ l \in Int
        /\ c = b + u /\ z <= u /\ (AllFit => z = u)
        /\ ocounter' = ocounter + (h - l) * 25 + z /\ ocounter \in Int
        /\ ocounter <= b + l * 25 /\ (AllFit => ocounter = b + l * 25)
    BY <1>2, <1>3, <1>4, <2>1, <2>2, <2>3 DEF HEADER
  <2> HIDE DEF k, l, z, u, b, c, h
  <2>5. ocounter' <= c + h * 25 /\ (AllFit => ocounter' = c + h * 25)
    BY <2>4
  <2> QED
    BY <2>5 DEF HEADER, c, h
<1>8. Position'
  <2>1. AllFit' = AllFit
    BY <1>1 DEF AllFit
  <2>2. Before(Len(at))' = Before(k + 1)
    BY <1>1, <1>5 DEF Before
  <2> QED
    BY <1>7, <2>1, <2>2 DEF Position
<1>9. LastWritten'
  BY <1>1, <1>5 DEF LastWritten, NextSlice
<1>10. Behind'
  <2>1. \A s \in 1..k : at[s] < ocounter
    BY <1>1 DEF Behind
  <2> QED
    BY <1>1, <1>5, <2>1 DEF Behind
<1>11. full_length' = full_length /\ full_length \in Nat
       /\ full_length = encode_length + (IF slices_per_frag = 0 THEN 0 ELSE Fragments * HEADER)
  BY <1>1, LengthOf DEF full_length, given
<1>12. overreach' \in Int /\ overreach' <= full_length
  <2> DEFINE st(c) == Stored(NextStart, NextSlice, c)
  <2> HIDE DEF k, l
  <2>1. \A c \in 1..3 : /\ st(c) \in Int
                        /\ st(c) <= ocounter' + (IF LastSlice THEN 0 ELSE 3)
    BY <1>1, StoredOf
  <2>2. encode_length + Len(frags') * HEADER <= full_length
    <3>1. CASE slices_per_frag = 0
      <4>1. Len(frags') = 0
        BY <1>2, <3>1
      <4> QED
        BY <1>3, <1>11, <3>1, <4>1 DEF HEADER
    <3>2. CASE slices_per_frag # 0
      <4>1. Fragments \in Nat
        BY <1>1, <3>2, LengthOf
      <4>2. Len(frags') <= Fragments /\ full_length = encode_length + Fragments * HEADER
        BY <1>2, <1>11, <3>2
      <4> QED
        BY <1>2, <1>3, <4>1, <4>2 DEF HEADER
    <3> QED
      BY <3>1, <3>2
  <2>3. ocounter' + (IF LastSlice THEN 0 ELSE 3) <= full_length
    <3> DEFINE e == Len(frags') * HEADER
    <3>1. e \in Int /\ encode_length + e <= full_length /\ ocounter' <= Before(k + 1) + e
      BY <1>2, <1>7, <2>2 DEF HEADER
    <3> HIDE DEF e
    <3>2. CASE LastSlice
      <4>1. n_slices - (k + 1) = 0
        BY <1>1, <1>3, <3>2 DEF LastSlice, N, k
      <4>2. Before(k + 1) <= encode_length
        BY <1>3, <4>1
      <4> DEFINE b == Before(k + 1)
      <4>3. ocounter' <= full_length
        <5>1. /\ b <= encode_length /\ b \in Int /\ encode_length \in Int /\ full_length \in Int
              /\ ocounter' \in Int /\ ocounter' <= b + e /\ e \in Int
              /\ encode_length + e <= full_length
          BY <1>1, <1>3, <1>11, <3>1, <4>2
        <5>2. \A o, p, q, given_length, full \in Int :
                p <= given_length /\ o <= p + q /\ given_length + q <= full => o <= full
          OBVIOUS
        <5> HIDE DEF b
        <5> QED
          BY <5>1, <5>2
      <4> QED
        BY <1>1, <3>2, <4>3
    <3>3. CASE ~LastSlice
      <4>1. n_slices - (k + 1) >= 1 /\ n_slices - (k + 1) \in Int
        BY <1>1, <1>3, <3>3 DEF LastSlice, N, k
      <4>2. Before(k + 1) + 4 <= encode_length
        BY <1>3, <4>1
      <4> DEFINE b == Before(k + 1)
      <4>3. /\ b + 4 <= encode_length /\ b \in Int /\ encode_length \in Int /\ full_length \in Int
            /\ ocounter' \in Int /\ ocounter' <= b + e /\ e \in Int /\ encode_length + e <= full_length
        BY <1>1, <1>3, <1>11, <3>1, <4>2
      <4>4. \A o, p, q, given_length, full \in Int :
              p + 4 <= given_length /\ o <= p + q /\ given_length + q <= full => o + 3 <= full
        OBVIOUS
      <4> HIDE DEF b
      <4>5. ocounter' + 3 <= full_length
        BY <4>3, <4>4
      <4> QED
        BY <1>1, <3>3, <4>5
    <3> QED
      BY <3>2, <3>3
  <2> HIDE DEF st
  <2>4. \A c \in 1..3 : st(c) \in Int /\ st(c) <= full_length
    <3> DEFINE t == ocounter' + (IF LastSlice THEN 0 ELSE 3)
    <3>1. t \in Int /\ t <= full_length /\ full_length \in Int
      BY <1>1, <1>11, <2>3
    <3>2. \A c \in 1..3 : st(c) \in Int /\ st(c) <= t
      BY <2>1
    <3> HIDE DEF t
    <3> QED
      BY <3>1, <3>2
  <2>5. overreach' = Max({overreach, st(1), st(2), st(3)})
    <3>1. overreach' = Max({overreach} \union {st(c) : c \in 1..3})
      BY <1>1 DEF st
    <3>2. {overreach} \union {st(c) : c \in 1..3} = {overreach, st(1), st(2), st(3)}
      OBVIOUS
    <3> QED
      BY <3>1, <3>2
  <2>6. /\ overreach \in Int /\ st(1) \in Int /\ st(2) \in Int /\ st(3) \in Int /\ full_length \in Int
        /\ overreach <= full_length /\ st(1) <= full_length /\ st(2) <= full_length
        /\ st(3) <= full_length
    BY <1>1, <1>11, <2>4
  <2> QED
    BY <2>5, <2>6, MaxOfFour
<1> QED
  BY <1>1, <1>5, <1>8, <1>9, <1>10, <1>11, <1>12

\* Within a fragment the headers stay.
LEMMA WithinFragment ==
  ASSUME BytesInv, OutputInv, WriteSlice, ~BeginsFragment
  PROVE  Headers(Len(frags) - 1)' /\ NextFragment' /\ UNCHANGED <<frags, sx, sy>>
<1> DEFINE k == Len(at)
           l == Len(frags)
<1>1. /\ UNCHANGED <<frags, sx, sy>> /\ Headers(l - 1) /\ NextFragment
      /\ slices_per_frag' = slices_per_frag /\ first_sx' = first_sx
      /\ k \in Nat /\ ocounter \in Nat /\ ocounter' \in Nat /\ ocounter' > ocounter
      /\ at \in Seq(Nat) /\ at' = Append(at, NextStart) /\ NextStart = ocounter
      /\ frags \in Seq(HeaderSet) /\ slices_per_frag \in Nat
  <2>1. NextStart = ocounter
    BY SliceWritten DEF NextStart, OutputTypes
  <2>2. WriteHeader /\ ocounter' > NextStart /\ OutputTypes /\ Writing /\ UNCHANGED given
        /\ ocounter' \in Nat /\ at' = Append(at, NextStart) /\ k \in Nat
    BY SliceWritten
  <2> QED
    BY <2>1, <2>2 DEF WriteHeader, Writing, OutputTypes, given, BytesInv, Types
<1>2. /\ Len(at') = k + 1 /\ at'[k + 1] = ocounter /\ l \in Nat
      /\ \A s \in 1..k : at'[s] = at[s] /\ at[s] \in Nat
  BY <1>1
<1>3. \A f \in 1..l : k > Start(f) /\ frags[f].start \in Nat
  <2> TAKE f \in 1..l
  <2>1. frags[f].start \in Nat
    <3>1. frags[f] \in HeaderSet
      BY <1>1
    <3> QED
      BY <3>1 DEF HeaderSet
  <2>2. slices_per_frag # 0 => k > Start(l)
    BY CountWritten
  <2>3. slices_per_frag # 0
    <3>1. slices_per_frag = 0 => frags = <<>>
      BY <1>1, CountWritten
    <3> QED
      BY <1>2, <3>1
  <2>4. (f - 1) * slices_per_frag <= (l - 1) * slices_per_frag
    <3>1. f \in Nat /\ f <= l
      BY <1>2
    <3> QED
      BY <1>1, <1>2, <3>1, Multiples
  <2>5. Start(f) \in Int /\ Start(l) \in Int /\ Start(f) <= Start(l)
    BY <1>1, <1>2, <2>4 DEF Start
  <2> QED
    BY <1>1, <2>1, <2>2, <2>3, <2>5
<1>4. ASSUME NEW f \in 1..l PROVE Placed(f)'
  <2>1. Placed(f) /\ Start(f)' = Start(f) /\ frags[f].start \in Nat
    BY <1>1, <1>3 DEF Headers, Start
  <2>2. ASSUME NEW s \in 1..k+1 PROVE at'[s] >= frags'[f].start <=> s > Start(f)'
    <3>1. CASE s = k + 1
      <4>1. Start(f) \in Int
        BY <1>1, <1>2 DEF Start
      <4> QED
        BY <1>1, <1>2, <1>3, <2>1, <3>1, <4>1 DEF Placed
    <3>2. CASE s \in 1..k
      BY <1>1, <1>2, <2>1, <3>2 DEF Placed
    <3> QED
      BY <1>1, <3>1, <3>2
  <2>3. /\ frags'[f].start = IF f = 1 THEN 0 ELSE frags'[f-1].start + frags'[f-1].length
        /\ frags'[f].start <= ocounter'
        /\ f > 1 => frags'[f].prev = frags'[f-1].length
    BY <1>1, <2>1 DEF Placed
  <2> QED
    BY <1>1, <1>2, <2>2, <2>3 DEF Placed
<1>5. \A f \in 1..l - 1 : Completed(f)'
  BY <1>1 DEF Headers, Completed, Start
<1>6. \A f \in 1..l - 1 : frags'[f].slices = slices_per_frag'
  BY <1>1 DEF Headers
<1>7. Headers(Len(frags) - 1)'
  BY <1>1, <1>4, <1>5, <1>6 DEF Headers
<1>8. NextFragment'
  BY <1>1 DEF NextFragment, Start
<1> QED
  BY <1>1, <1>7, <1>8

\* The first slice of a fragment: its header begins where the one before ends.
LEMMA FirstFragment ==
  ASSUME BytesInv, OutputInv, WriteSlice, BeginsFragment, frags = <<>>
  PROVE  /\ Headers(Len(frags) - 1)' /\ NextFragment' /\ UNCHANGED <<sx, sy>>
         /\ frags' \in Seq(HeaderSet)
<1>1. /\ frags' = <<Header(0)>> /\ UNCHANGED <<sx, sy>> /\ NextFragment
      /\ slices_per_frag' = slices_per_frag /\ first_sx' = first_sx /\ slices_per_frag \in Nat
      /\ Len(at) \in Nat /\ ocounter \in Nat /\ ocounter' \in Nat
      /\ at \in Seq(Nat) /\ at' = Append(at, NextStart) /\ NextStart \in Nat /\ Position
  BY SliceWritten DEF WriteHeader, Writing, OutputTypes, given, BytesInv, Types
<1>2. Len(at) = 0 /\ Len(frags) = 0
  <2>1. Len(frags) = 0 /\ Len(at) = Len(frags) * slices_per_frag
    BY CountWritten
  <2> QED
    BY <1>1, <2>1
<1>3. ocounter = 0
  <2>1. Before(0) = 0
    <3>1. \A s \in 1..0 : UsedBytes(slices)[s] \in Int
      OBVIOUS
    <3> QED
      BY <3>1, SumType DEF Before
  <2> QED
    BY <1>1, <1>2, <2>1 DEF Position, HEADER
<1>4. /\ Len(frags') = 1 /\ frags'[1] = Header(0) /\ Header(0) \in HeaderSet
      /\ frags'[1].start = 0 /\ frags' \in Seq(HeaderSet)
  <2>1. Header(0) \in HeaderSet /\ Header(0).start = 0
    BY <1>3 DEF Header, HeaderSet
  <2> QED
    BY <1>1, <2>1
<1>5. Len(at') = 1 /\ at'[1] = NextStart
  BY <1>1, <1>2
<1>6. Start(1) = 0 /\ Start(1)' = 0
  BY <1>1 DEF Start
<1>7. Placed(1)'
  <2>1. \A s \in 1..1 : at'[s] >= frags'[1].start /\ s > 0
    BY <1>1, <1>4, <1>5
  <2> QED
    BY <1>1, <1>4, <1>5, <1>6, <2>1 DEF Placed
<1>8. Headers(Len(frags) - 1)'
  <2>1. \A f \in 1..1 : Placed(f)'
    <3> TAKE f \in 1..1
    <3>1. f = 1
      OBVIOUS
    <3> QED
      BY <1>7, <3>1
  <2> QED
    BY <1>4, <2>1 DEF Headers
<1>9. NextFragment'
  BY <1>1, <1>4, <1>6 DEF NextFragment
<1> QED
  BY <1>1, <1>4, <1>8, <1>9

LEMMA NextSlicePlace ==
  ASSUME NEW a \in Nat, NEW d \in Nat \ {0}
  PROVE  /\ a \div d \in Nat /\ a % d \in 0..d - 1
         /\ (a \div d) * d + (a % d) = a
<1>1. a = d * (a \div d) + (a % d) /\ a % d \in 0..(d - 1) /\ a \div d \in Nat
  OBVIOUS
<1>2. d * (a \div d) = (a \div d) * d /\ (a \div d) * d \in Nat
  BY <1>1
<1> QED
  BY <1>1, <1>2

LEMMA FurtherFragment ==
  ASSUME BytesInv, OutputInv, WriteSlice, BeginsFragment, frags # <<>>
  PROVE  /\ Headers(Len(frags) - 1)' /\ NextFragment'
         /\ sx' \in 0..(slices_per_line - 1) /\ sy' \in Nat
         /\ frags' \in Seq(HeaderSet)
<1> DEFINE k == Len(at)
           l == Len(frags)
           c == Close(ocounter, slices_per_frag)
           new == Header(ocounter - frags[l].start)
<1>1. /\ frags' = Append(c, new) /\ NextFragment /\ Headers(l - 1) /\ Behind
      /\ sy' = sy + (sx + slices_per_frag) \div slices_per_line
      /\ sx' = (sx + slices_per_frag) % slices_per_line
      /\ slices_per_frag' = slices_per_frag /\ first_sx' = first_sx /\ slices_per_frag \in Nat
      /\ sx \in Nat /\ sx < slices_per_line /\ sy \in Nat /\ slices_per_line \in Nat \ {0}
      /\ first_sx \in Nat
      /\ k \in Nat /\ ocounter \in Nat /\ ocounter' \in Nat /\ ocounter' > NextStart
      /\ NextStart \in Nat /\ NextStart >= ocounter
      /\ at \in Seq(Nat) /\ at' = Append(at, NextStart)
      /\ frags \in Seq(HeaderSet) /\ OutputTypes
  <2>1. /\ WriteHeader /\ ocounter' > NextStart /\ OutputTypes /\ Writing /\ UNCHANGED given
        /\ ocounter' \in Nat /\ at' = Append(at, NextStart) /\ k \in Nat /\ Types
        /\ NextStart \in Nat /\ NextStart >= ocounter
    BY SliceWritten DEF BytesInv
  <2> QED
    BY <2>1, Scalar DEF WriteHeader, Writing, OutputTypes, given, Types
<1>2. /\ l \in Nat \ {0} /\ c \in Seq(HeaderSet) /\ Len(c) = l
      /\ \A f \in 1..l : f # l => c[f] = frags[f]
      /\ c[l].start = frags[l].start /\ c[l].prev = frags[l].prev
      /\ c[l].length = ocounter - frags[l].start /\ c[l].slices = slices_per_frag
      /\ c[l].sx = sx /\ c[l].sy = sy
  BY <1>1, CloseOf
<1>3. /\ Len(at') = k + 1 /\ at'[k + 1] = NextStart
      /\ \A s \in 1..k : at'[s] = at[s] /\ at[s] \in Nat /\ at[s] < ocounter
  <2>1. at \in Seq(Nat) /\ at' = Append(at, NextStart) /\ NextStart \in Nat
    BY <1>1
  <2>2. \A s \in 1..k : at[s] < ocounter
    BY <1>1 DEF Behind
  <2> QED
    BY <2>1, <2>2
<1>4. \A f \in 1..l : frags[f] \in HeaderSet /\ frags[f].start \in Nat
  <2> TAKE f \in 1..l
  <2>1. frags[f] \in HeaderSet
    BY <1>1
  <2> QED
    BY <2>1 DEF HeaderSet
<1>5. /\ new \in HeaderSet /\ new.start = ocounter /\ new.prev = ocounter - frags[l].start
  <2>1. ocounter - frags[l].start \in Int
    <3>1. frags[l].start \in Nat
      BY <1>2, <1>4
    <3>2. ocounter \in Nat
      BY <1>1
    <3> QED
      BY <3>1, <3>2
  <2> QED
    BY <1>1, <2>1 DEF Header, HeaderSet
<1> HIDE DEF c, new
<1>6. /\ Len(frags') = l + 1 /\ frags'[l + 1] = new /\ frags' \in Seq(HeaderSet)
      /\ \A f \in 1..l : frags'[f] = c[f]
  <2> HIDE DEF l
  <2> QED
    BY <1>1, <1>2, <1>5
<1>7. \A f \in 1..l : /\ frags'[f].start = frags[f].start /\ frags'[f].prev = frags[f].prev
                      /\ f < l => frags'[f] = frags[f]
  <2> TAKE f \in 1..l
  <2>1. CASE f = l
    BY <1>2, <1>6, <2>1
  <2>2. CASE f # l
    BY <1>2, <1>6, <2>2
  <2> QED
    BY <2>1, <2>2
<1>8. frags'[l].length = ocounter - frags[l].start /\ frags'[l].slices = slices_per_frag
      /\ frags'[l].sx = sx /\ frags'[l].sy = sy
  BY <1>2, <1>6
<1>9. /\ k = l * slices_per_frag /\ Start(l + 1) = k
      /\ Start(l) + slices_per_frag = k /\ Start(l) \in Int
      /\ \A f \in 1..l : Start(f) \in Int /\ Start(f) <= k
      /\ \A f : Start(f)' = Start(f)
  <2>1. k = l * slices_per_frag
    BY CountWritten
  <2>2. (l + 1 - 1) * slices_per_frag = k /\ (l - 1) * slices_per_frag = k - slices_per_frag
    BY <1>1, <1>2, <2>1, Multiples
  <2>3. ASSUME NEW f \in 1..l PROVE Start(f) \in Int /\ Start(f) <= k
    <3>1. f \in Nat /\ f <= l
      BY <1>2
    <3>2. f * slices_per_frag <= l * slices_per_frag /\ f * slices_per_frag \in Nat
      BY <1>1, <1>2, <3>1, Multiples
    <3>3. (f - 1) * slices_per_frag = f * slices_per_frag - slices_per_frag
      BY <1>1, <3>1, Multiples
    <3> QED
      BY <1>1, <2>1, <3>1, <3>2, <3>3 DEF Start
  <2>4. Start(l + 1) = k /\ Start(l) = k - slices_per_frag
    BY <2>2 DEF Start
  <2>5. \A f : Start(f)' = Start(f)
    BY <1>1 DEF Start
  <2>6. Start(l) + slices_per_frag = k /\ Start(l) \in Int
    <3> HIDE DEF k, l
    <3> QED
      BY <1>1, <2>4
  <2> QED
    BY <2>1, <2>3, <2>4, <2>5, <2>6
\* The headers of the fragments before stay where they are, ...
<1>10. ASSUME NEW f \in 1..l PROVE Placed(f)'
  <2>1. /\ Placed(f) /\ Start(f)' = Start(f) /\ Start(f) \in Int /\ Start(f) <= k
        /\ frags[f].start \in Nat /\ frags'[f].start = frags[f].start
        /\ frags'[f].prev = frags[f].prev
    BY <1>1, <1>4, <1>7, <1>9 DEF Headers
  <2>2. f > 1 => frags'[f-1] = frags[f-1]
    <3>1. f > 1 => f - 1 \in 1..l /\ f - 1 < l
      BY <1>2
    <3> QED
      BY <1>7, <3>1
  <2>3. ASSUME NEW s \in 1..k+1 PROVE at'[s] >= frags'[f].start <=> s > Start(f)'
    <3>1. CASE s = k + 1
      <4>1. at'[s] = NextStart /\ frags[f].start <= ocounter
        BY <1>3, <2>1, <3>1 DEF Placed
      <4>2. NextStart >= frags[f].start
        <5>1. NextStart \in Nat /\ NextStart >= ocounter /\ ocounter \in Nat
          BY <1>1
        <5> QED
          BY <2>1, <4>1, <5>1
      <4>3. s > Start(f)
        BY <1>1, <2>1, <3>1
      <4> QED
        BY <2>1, <4>1, <4>2, <4>3
    <3>2. CASE s \in 1..k
      <4>1. at'[s] = at[s] /\ (at[s] >= frags[f].start <=> s > Start(f))
        BY <1>3, <2>1, <3>2 DEF Placed
      <4> QED
        BY <2>1, <4>1
    <3>3. k \in Nat
      BY <1>1
    <3>4. s = k + 1 \/ s \in 1..k
      <4> HIDE DEF k
      <4> QED
        BY <3>3
    <3> QED
      BY <3>1, <3>2, <3>4
  <2>4. /\ frags'[f].start = IF f = 1 THEN 0 ELSE frags'[f-1].start + frags'[f-1].length
        /\ frags'[f].start <= ocounter'
        /\ f > 1 => frags'[f].prev = frags'[f-1].length
    <3>1. /\ frags[f].start = IF f = 1 THEN 0 ELSE frags[f-1].start + frags[f-1].length
          /\ frags[f].start <= ocounter
          /\ f > 1 => frags[f].prev = frags[f-1].length
      BY <2>1 DEF Placed
    <3>2. frags'[f].start <= ocounter'
      BY <1>1, <2>1, <3>1
    <3>3. CASE f = 1
      BY <2>1, <3>1, <3>2, <3>3
    <3>4. CASE f > 1
      BY <2>1, <2>2, <3>1, <3>2, <3>4
    <3> QED
      BY <3>3, <3>4
  <2> QED
    BY <1>3, <2>3, <2>4 DEF Placed
\* ... and the new one follows them.
<1>11. ASSUME NEW f, f = l + 1 PROVE Placed(f)'
  <2>1. /\ frags'[f].start = ocounter /\ frags'[f].prev = ocounter - frags[l].start
        /\ f - 1 = l /\ f > 1
    BY <1>2, <1>5, <1>6, <1>11
  <2>2. frags'[f - 1].start = frags[l].start /\ frags'[f - 1].length = ocounter - frags[l].start
    BY <1>2, <1>7, <1>8, <2>1
  <2>3. frags[l].start \in Nat
    BY <1>2, <1>4
  <2>4. /\ frags'[f].start = frags'[f - 1].start + frags'[f - 1].length
        /\ frags'[f].prev = frags'[f - 1].length /\ frags'[f].start <= ocounter'
    BY <1>1, <2>1, <2>2, <2>3
  <2>5. Start(f)' = k
    BY <1>9, <1>11
  <2>6. ASSUME NEW s \in 1..k+1 PROVE at'[s] >= frags'[f].start <=> s > Start(f)'
    <3>1. CASE s = k + 1
      <4>1. NextStart \in Nat /\ NextStart >= ocounter /\ ocounter \in Nat /\ k \in Nat
        BY <1>1
      <4>2. at'[s] = NextStart
        BY <1>3, <3>1
      <4> QED
        BY <2>1, <2>5, <3>1, <4>1, <4>2
    <3>2. CASE s \in 1..k
      <4>1. at'[s] \in Nat /\ at'[s] < ocounter
        BY <1>3, <3>2
      <4>2. ocounter \in Nat /\ k \in Nat
        BY <1>1
      <4> QED
        BY <2>1, <2>5, <3>2, <4>1, <4>2
    <3>3. k \in Nat
      BY <1>1
    <3>4. s = k + 1 \/ s \in 1..k
      <4> HIDE DEF k
      <4> QED
        BY <3>3
    <3> QED
      BY <3>1, <3>2, <3>4
  <2> QED
    BY <1>3, <2>1, <2>4, <2>6 DEF Placed
<1>12. \A f \in 1..l : Completed(f)'
  <2> TAKE f \in 1..l
  <2>1. CASE f = l
    <3>1. sy * slices_per_line + sx = first_sx + Start(l)
      BY <1>1, <1>2 DEF NextFragment
    <3> QED
      BY <1>1, <1>8, <1>9, <2>1, <3>1 DEF Completed
  <2>2. CASE f # l
    <3>1. frags'[f] = frags[f] /\ Completed(f)
      BY <1>1, <1>2, <1>7, <2>2 DEF Headers
    <3> QED
      BY <1>1, <1>9, <3>1 DEF Completed
  <2> QED
    BY <2>1, <2>2
<1>13. \A f \in 1..l : frags'[f].slices = slices_per_frag'
  <2> TAKE f \in 1..l
  <2>1. CASE f = l
    BY <1>1, <1>8, <2>1
  <2>2. CASE f # l
    BY <1>1, <1>2, <1>7, <2>2 DEF Headers
  <2> QED
    BY <2>1, <2>2
<1>14. Headers(Len(frags) - 1)'
  <2>1. Len(frags') - 1 = l
    BY <1>2, <1>6
  <2>2. \A f \in 1..l+1 : Placed(f)'
    BY <1>2, <1>10, <1>11
  <2> QED
    BY <1>6, <1>12, <1>13, <2>1, <2>2 DEF Headers
<1>15. NextFragment' /\ sx' \in 0..(slices_per_line - 1) /\ sy' \in Nat
  <2> DEFINE a == sx + slices_per_frag
             d == a \div slices_per_line
             m == a % slices_per_line
  <2>1. a \in Nat
    BY <1>1
  <2>2. /\ d \in Nat /\ m \in 0..slices_per_line - 1 /\ d * slices_per_line + m = a
    BY <1>1, <2>1, NextSlicePlace
  <2>3. sy' = sy + d /\ sx' = m
    BY <1>1
  <2> HIDE DEF d, m
  <2>4. sy * slices_per_line + sx = first_sx + Start(l)
    BY <1>1, <1>2 DEF NextFragment
  <2>5. (sy + d) * slices_per_line = sy * slices_per_line + d * slices_per_line
        /\ sy * slices_per_line \in Nat /\ d * slices_per_line \in Nat
    BY <1>1, <2>2
  <2>6. (sy + d) * slices_per_line + m = first_sx + k
    <3> DEFINE p == sy * slices_per_line
               q == d * slices_per_line
               r == (sy + d) * slices_per_line
               b == Start(l)
    <3>1. /\ r = p + q /\ p \in Nat /\ q \in Nat /\ m \in Nat /\ q + m = sx + slices_per_frag
          /\ p + sx = first_sx + b /\ b + slices_per_frag = k /\ b \in Int
          /\ sx \in Nat /\ first_sx \in Nat /\ slices_per_frag \in Nat /\ k \in Nat
      BY <1>1, <1>9, <2>2, <2>4, <2>5
    <3> HIDE DEF p, q, r, b, k
    <3>2. r + m = first_sx + k
      BY <3>1
    <3> QED
      BY <3>2 DEF r
  <2>7. Len(frags') = l + 1 /\ frags' # <<>> /\ Start(l + 1) = k /\ \A f : Start(f)' = Start(f)
    BY <1>2, <1>6, <1>9
  <2>8. sy' * slices_per_line + sx' = first_sx' + k
    BY <1>1, <2>3, <2>6
  <2>9. (l + 1 - 1) * slices_per_frag = k
    BY <2>7 DEF Start
  <2> HIDE DEF k, l
  <2>10. Start(Len(frags))' = k
    <3>1. Start(Len(frags))' = (Len(frags') - 1) * slices_per_frag'
      BY DEF Start
    <3> QED
      BY <1>1, <2>7, <2>9, <3>1
  <2>11. NextFragment'
    BY <2>7, <2>8, <2>10 DEF NextFragment
  <2>12. sy' \in Nat
    <3>1. sy \in Nat
      BY <1>1
    <3> QED
      BY <2>2, <2>3, <3>1
  <2> QED
    BY <2>2, <2>3, <2>11, <2>12
<1> QED
  BY <1>6, <1>14, <1>15

LEMMA WriteKeepsOutput ==
  ASSUME BytesInv, OutputInv, WriteSlice
  PROVE  OutputInv'
<1>1. /\ OutputTypes /\ phase' = "serialise" /\ ocounter' \in Nat
  BY SliceWritten
<1>2. /\ Position' /\ LastWritten' /\ Behind' /\ overreach' \in Int /\ (overreach <= full_length)'
      /\ at' \in Seq(Nat) /\ Len(at') <= n_slices'
  BY PositionWritten
<1>3. FragmentCount' /\ slices_til_next_frag_start' \in Nat
  BY CountWritten
<1>4. /\ Headers(Len(frags) - 1)' /\ NextFragment'
      /\ sx' \in 0..(slices_per_line - 1) /\ sy' \in Nat
      /\ frags' \in Seq(HeaderSet)
  <2>1. CASE ~BeginsFragment
    BY <1>1, <2>1, WithinFragment DEF OutputTypes
  <2>2. CASE BeginsFragment /\ frags = <<>>
    BY <1>1, <2>2, FirstFragment DEF OutputTypes
  <2>3. CASE BeginsFragment /\ frags # <<>>
    BY <2>3, FurtherFragment
  <2> QED
    BY <2>1, <2>2, <2>3
<1>5. OutputTypes'
  BY <1>1, <1>2, <1>3, <1>4 DEF OutputTypes
<1>6. Writing'
  BY <1>2, <1>3, <1>4 DEF Writing
<1> QED
  BY <1>1, <1>5, <1>6 DEF OutputInv, Encoding

\* When all slices are written their fragments are all begun; what the last
\* one lacks is in its header.
LEMMA AllWritten ==
  ASSUME BytesInv, FragmentCount, Len(at) = n_slices, frags \in Seq(HeaderSet),
         slices_til_next_frag_start \in Nat, slices_per_frag # 0
  PROVE  /\ Len(frags) \in Nat \ {0} /\ Len(frags) = Fragments
         /\ Start(Len(frags)) \in Int /\ Start(Len(frags)) < n_slices
         /\ n_slices - Start(Len(frags)) = slices_per_frag - slices_til_next_frag_start
<1> DEFINE l == Len(frags)
           t == slices_til_next_frag_start
<1>1. /\ n_slices + t = l * slices_per_frag /\ t < slices_per_frag
      /\ n_slices \in Nat \ {0} /\ slices_per_frag \in Nat /\ l \in Nat /\ t \in Nat /\ Types
  BY DEF FragmentCount, BytesInv, Types
<1>2. l # 0
  <2>1. l = 0 => l * slices_per_frag = 0
    BY <1>1, NoTimes
  <2> QED
    BY <1>1, <2>1
<1>3. l * slices_per_frag \in Nat /\ (l - 1) * slices_per_frag = l * slices_per_frag - slices_per_frag
  BY <1>1, Multiples
<1>4. l = Fragments
  <2>1. n_slices <= l * slices_per_frag /\ l * slices_per_frag < n_slices + slices_per_frag
    BY <1>1, <1>3
  <2> QED
    BY <1>1, <2>1, LengthOf
<1>5. Start(l) = n_slices + t - slices_per_frag
  BY <1>1, <1>3 DEF Start
<1> HIDE DEF l, t
<1>6. /\ Start(l) \in Int /\ Start(l) < n_slices /\ n_slices - Start(l) = slices_per_frag - t
  BY <1>1, <1>5
<1> QED
  BY <1>1, <1>2, <1>4, <1>6 DEF l, t

LEMMA FinishOutput ==
  ASSUME BytesInv, OutputInv, Finish
  PROVE  OutputInv'
<1> DEFINE l == Len(frags)
           n == n_slices
           t == slices_til_next_frag_start
<1>1. /\ phase = "serialise" /\ phase' = "done" /\ OutputTypes /\ Writing /\ Types
      /\ UNCHANGED given /\ UNCHANGED slices /\ UNCHANGED <<at, sx, sy, t>>
      /\ ocounter' = Most(ocounter, encode_length) /\ overreach' = Most(overreach, ocounter')
      /\ frags' = IF frags = <<>> THEN frags ELSE Close(ocounter', slices_per_frag - t)
  BY DEF Finish, OutputInv, BytesInv, coding
<1>2. /\ Len(at) = n /\ n \in Nat \ {0} /\ at # <<>> /\ at \in Seq(Nat)
      /\ ocounter \in Nat /\ overreach \in Int /\ encode_length \in Nat
      /\ slices_per_frag \in Nat /\ t \in Nat /\ frags \in Seq(HeaderSet) /\ l \in Nat
      /\ sx \in Nat /\ sx < slices_per_line /\ sy \in Nat
      /\ slices_per_frag' = slices_per_frag /\ first_sx' = first_sx /\ n_slices' = n
      /\ full_length' = full_length
  <2>1. Len(at) = n
    BY <1>1 DEF Finish, N, OutputTypes, Types
  <2> QED
    BY <1>1, <2>1, Scalar DEF OutputTypes, Types, given, full_length
<1>3. /\ FragmentCount /\ Position /\ LastWritten /\ Behind /\ overreach <= full_length
      /\ Headers(l - 1) /\ NextFragment
  BY <1>1 DEF Writing
<1>4. /\ full_length \in Nat /\ encode_length <= full_length
      /\ full_length = encode_length + l * HEADER
  <2>1. CASE slices_per_frag = 0
    <3>1. l = 0 /\ full_length = encode_length + 0
      BY <1>1, <1>3, <2>1, LengthOf DEF FragmentCount
    <3> QED
      BY <1>2, <3>1 DEF HEADER
  <2>2. CASE slices_per_frag # 0
    BY <1>1, <1>2, <1>3, <2>2, AllWritten, LengthOf
  <2> QED
    BY <2>1, <2>2
<1>5. ocounter <= full_length /\ (AllFit => ocounter = full_length)
  <2>1. Before(n) = encode_length
    BY <1>1, Sums
  <2> QED
    BY <1>2, <1>3, <1>4, <2>1 DEF Position
<1>6. /\ ocounter' \in Nat /\ ocounter' >= ocounter /\ ocounter' <= full_length
      /\ overreach' \in Int /\ overreach' <= full_length
      /\ AllFit => ocounter' = full_length
  BY <1>1, <1>2, <1>3, <1>4, <1>5 DEF Most
<1>7. AllFit' => ocounter' = full_length' /\ (at[n_slices] + SliceSize(slices[n_slices]) = full_length)'
  <2>1. AllFit' = AllFit
    BY <1>1, <1>2 DEF AllFit
  <2>2. at[n] + SliceSize(slices[n]) = ocounter
    BY <1>2, <1>3 DEF LastWritten
  <2> QED
    BY <1>1, <1>2, <1>5, <1>6, <2>1, <2>2
<1>8. Behind'
  <2>1. \A s \in 1..Len(at) : at[s] < ocounter /\ at[s] \in Nat
    BY <1>2, <1>3 DEF Behind
  <2> QED
    BY <1>1, <1>2, <1>6, <2>1 DEF Behind
<1>9. CASE frags = <<>>
  <2>1. frags' = <<>> /\ Len(frags') = 0
    BY <1>1, <1>9
  <2>2. FragmentCount'
    BY <1>1, <1>2, <1>3, <1>9, <2>1 DEF FragmentCount
  <2>3. Headers(Len(frags))'
    BY <2>1 DEF Headers
  <2>4. OutputTypes'
    BY <1>1, <1>2, <1>6, <1>9, <2>1 DEF OutputTypes
  <2>5. Complete'
    BY <1>1, <1>2, <1>6, <1>7, <1>8, <2>1, <2>2, <2>3 DEF Complete
  <2> QED
    BY <1>1, <2>4, <2>5 DEF OutputInv, Encoding
<1>10. CASE frags # <<>>
  <2> DEFINE count == slices_per_frag - t
             c == Close(ocounter', count)
  <2>1. slices_per_frag # 0
    BY <1>3, <1>10 DEF FragmentCount
  <2>2. /\ l \in Nat \ {0} /\ Start(l) \in Int /\ Start(l) < n /\ n - Start(l) = count
        /\ count \in Nat
    <3>1. /\ l \in Nat \ {0} /\ Start(l) \in Int /\ Start(l) < n /\ n - Start(l) = count
      BY <1>2, <1>3, <2>1, AllWritten
    <3>2. count \in Nat
      BY <1>2, <1>3, <2>1 DEF FragmentCount
    <3> QED
      BY <3>1, <3>2
  <2>3. /\ c \in Seq(HeaderSet) /\ Len(c) = l
        /\ \A f \in 1..l : f # l => c[f] = frags[f]
        /\ c[l].start = frags[l].start /\ c[l].prev = frags[l].prev
        /\ c[l].length = ocounter' - frags[l].start /\ c[l].slices = count
        /\ c[l].sx = sx /\ c[l].sy = sy
    <3>1. OutputTypes /\ ocounter' \in Nat /\ count \in Nat /\ frags # <<>>
      BY <1>1, <1>6, <1>10, <2>2
    <3> HIDE DEF count
    <3> QED
      BY <3>1, CloseOf
  <2>4. frags' = c
    BY <1>1, <1>10
  <2> HIDE DEF c, count
  <2>5. /\ Len(frags') = l /\ frags' \in Seq(HeaderSet) /\ frags' # <<>>
    BY <2>2, <2>3, <2>4
  <2>6. \A f \in 1..l : /\ frags'[f].start = frags[f].start /\ frags'[f].prev = frags[f].prev
                        /\ f < l => frags'[f] = frags[f]
    <3> TAKE f \in 1..l
    <3>1. CASE f = l
      BY <2>2, <2>3, <2>4, <3>1
    <3>2. CASE f # l
      BY <2>2, <2>3, <2>4, <3>2
    <3> QED
      BY <3>1, <3>2
  <2>7. \A f : Start(f)' = Start(f)
    BY <1>2 DEF Start
  <2>8. ASSUME NEW f \in 1..l PROVE Placed(f)' /\ frags[f].start \in Nat
    <3>1. /\ Placed(f) /\ Start(f)' = Start(f)
          /\ frags'[f].start = frags[f].start /\ frags'[f].prev = frags[f].prev
      BY <1>3, <2>6, <2>7 DEF Headers
    <3>2. frags[f].start \in Nat
      <4>1. frags[f] \in HeaderSet
        BY <1>2
      <4> QED
        BY <4>1 DEF HeaderSet
    <3>3. f > 1 => frags'[f-1] = frags[f-1]
      <4>1. f > 1 => f - 1 \in 1..l /\ f - 1 < l
        BY <1>2
      <4> QED
        BY <2>6, <4>1
    <3>4. frags'[f].start <= ocounter'
      BY <1>2, <1>6, <3>1, <3>2 DEF Placed
    <3>5. \A s \in 1..Len(at') : at'[s] >= frags'[f].start <=> s > Start(f)'
      BY <1>1, <3>1 DEF Placed
    <3>6. /\ frags'[f].start = IF f = 1 THEN 0 ELSE frags'[f-1].start + frags'[f-1].length
          /\ f > 1 => frags'[f].prev = frags'[f-1].length
      <4>1. CASE f = 1
        BY <3>1, <4>1 DEF Placed
      <4>2. CASE f > 1
        BY <3>1, <3>3, <4>2 DEF Placed
      <4> QED
        BY <4>1, <4>2
    <3> QED
      BY <3>2, <3>4, <3>5, <3>6 DEF Placed
  <2>9. ASSUME NEW f \in 1..l PROVE Completed(f)'
    <3>1. CASE f = l
      <4>1. sy * slices_per_line + sx = first_sx + Start(l)
        BY <1>3, <1>10 DEF NextFragment
      <4> QED
        BY <1>2, <2>3, <2>4, <2>7, <3>1, <4>1 DEF Completed
    <3>2. CASE f # l
      <4>1. frags'[f] = frags[f] /\ Completed(f)
        BY <1>2, <1>3, <2>6, <3>2 DEF Headers
      <4> QED
        BY <1>2, <2>7, <4>1 DEF Completed
    <3> QED
      BY <3>1, <3>2
  <2>10. \A f \in 1..l - 1 : frags'[f].slices = slices_per_frag'
    <3> TAKE f \in 1..l - 1
    <3>1. f \in 1..l /\ f < l
      BY <2>2
    <3>2. frags'[f] = frags[f] /\ frags[f].slices = slices_per_frag
      BY <1>3, <2>6, <3>1 DEF Headers
    <3> QED
      BY <1>2, <3>2
  <2>11. Headers(Len(frags))'
    BY <2>5, <2>8, <2>9, <2>10 DEF Headers
  <2>12. frags'[l].start + frags'[l].length = ocounter' /\ frags'[l].slices = n' - Start(l)
    <3>1. frags[l].start \in Nat
      BY <2>2, <2>8
    <3> QED
      BY <1>2, <1>6, <2>2, <2>3, <2>4, <3>1
  <2>13. FragmentCount'
    BY <1>1, <1>2, <1>3, <2>1, <2>5 DEF FragmentCount
  <2>14. OutputTypes'
    BY <1>1, <1>2, <1>6, <2>5 DEF OutputTypes
  <2>15. Complete'
    <3>1. Start(Len(frags))' = Start(l)
      BY <1>2, <2>5 DEF Start
    <3>2. frags'[Len(frags')].start + frags'[Len(frags')].length = ocounter'
          /\ frags'[Len(frags')].slices = n_slices' - Start(Len(frags))'
      BY <1>2, <2>5, <2>12, <3>1
    <3> QED
      BY <1>1, <1>2, <1>6, <1>7, <1>8, <2>11, <2>13, <3>2 DEF Complete
  <2> QED
    BY <1>1, <2>14, <2>15 DEF OutputInv, Encoding
<1> QED
  BY <1>9, <1>10

-----------------------------------------------------------------------------
(* 3. Every step keeps both.                                               *)

PartialInv == BytesInv /\ OutputInv

LEMMA NextKeepsPartialInv == PartialInv /\ [Next]_vars => PartialInv'
<1> SUFFICES ASSUME BytesInv, OutputInv, [Next]_vars PROVE BytesInv' /\ OutputInv'
  BY DEF PartialInv
<1>1. at \in Seq(Nat)
  BY DEF OutputInv, OutputTypes
<1>2. CASE FirstPass
  <2>1. UNCHANGED given /\ UNCHANGED output /\ Encoding /\ Encoding'
    BY <1>2 DEF FirstPass, Encoding
  <2> QED
    BY <1>2, <2>1, FirstPassBytes, EncodingOutput
<1>3. CASE LaterPass
  <2>1. UNCHANGED given /\ UNCHANGED output /\ Encoding /\ Encoding'
    BY <1>3 DEF LaterPass, Encoding
  <2> QED
    BY <1>3, <2>1, LaterPassBytes, EncodingOutput
<1>4. CASE PassEnds
  <2>1. UNCHANGED given /\ UNCHANGED output /\ Encoding /\ Encoding'
    BY <1>4 DEF PassEnds, Encoding
  <2> QED
    BY <1>4, <2>1, PassEndsBytes, EncodingOutput
<1>5. CASE Pad
  <2>1. UNCHANGED given /\ UNCHANGED output /\ Encoding /\ Encoding'
    BY <1>5 DEF Pad, Encoding
  <2> QED
    BY <1>5, <2>1, PadBytes, EncodingOutput
<1>6. CASE Check
  BY <1>6, CheckBytes, CheckOutput
<1>7. CASE WriteSlice
  BY <1>1, <1>7, WriteKeepsBytes, WriteKeepsOutput
<1>8. CASE Finish
  BY <1>1, <1>8, WriteKeepsBytes, FinishOutput
<1>9. CASE UNCHANGED vars
  <2>1. BytesInv'
    BY <1>1, <1>9, WriteKeepsBytes
  <2>2. UNCHANGED given /\ UNCHANGED phase /\ UNCHANGED output /\ UNCHANGED slices
    BY <1>9 DEF vars, coding
  <2>3. OutputTypes' /\ Encoding' = Encoding /\ NothingYet' = NothingYet
    BY <2>2 DEF OutputInv, OutputTypes, Encoding, NothingYet, given, output, fragment
  <2>4. Headers(Len(frags) - 1)' = Headers(Len(frags) - 1) /\ Headers(Len(frags))' = Headers(Len(frags))
    BY <2>2 DEF Headers, Placed, Completed, Start, given, output, fragment
  <2>5. /\ FragmentCount' = FragmentCount /\ Position' = Position /\ LastWritten' = LastWritten
        /\ Behind' = Behind /\ full_length' = full_length /\ AllFit' = AllFit
        /\ NextFragment' = NextFragment
    BY <2>2 DEF FragmentCount, Position, LastWritten, Behind, full_length, AllFit, NextFragment,
       Start, Before, given, output, fragment
  <2>6. Writing' = Writing
    BY <2>2, <2>4, <2>5 DEF Writing, output
  <2>7. Complete' = Complete
    BY <2>2, <2>4, <2>5 DEF Complete, Start, given, output, fragment
  <2> QED
    BY <2>1, <2>2, <2>3, <2>6, <2>7 DEF OutputInv
<1> QED
  BY <1>2, <1>3, <1>4, <1>5, <1>6, <1>7, <1>8, <1>9 DEF Next, Ended

\* The bytes are shared out as they should be, and the output is laid out as
\* it should be, in every reachable state.
THEOREM PartialInvariant == Spec => []PartialInv
<1>1. Init => PartialInv
  BY InitBytes, InitOutput DEF PartialInv
<1> QED
  BY <1>1, NextKeepsPartialInv, PTL DEF Spec

\* encode_slices: through all the passes the bytes used and those remaining
\* are the bytes of the partial, enough of them for the slices to come, and no
\* padding is negative.
THEOREM PartialBytesConserved == Spec => []BytesConserved
<1>1. PartialInv => BytesConserved
  <2> SUFFICES ASSUME BytesInv PROVE BytesConserved
    BY DEF PartialInv
  <2>1. [s \in DOMAIN slices |-> Used(s)] = UsedBytes(slices)
    BY DEF Used, UsedBytes, UsedBy
  <2>2. Shared /\ Enough /\ Sane
    BY DEF BytesInv, Coding
  <2> QED
    BY <2>1, <2>2 DEF BytesConserved, Shared, Enough, Sane, Total
<1> QED
  BY <1>1, PartialInvariant, PTL

\* serialise_slices: whatever the slices are, no store reaches behind the end
\* of the partial's own part of the output.
THEOREM PartialNoOverreach == Spec => []NoOverreach
<1>1. PartialInv => NoOverreach
  <2> SUFFICES ASSUME BytesInv, OutputInv PROVE NoOverreach
    BY DEF PartialInv
  <2>1. CASE Encoding
    <3>1. full_length \in Nat /\ overreach = 0
      BY <2>1, LengthOf DEF BytesInv, OutputInv, NothingYet
    <3> QED
      BY <3>1 DEF NoOverreach
  <2>2. CASE phase = "serialise"
    BY <2>2 DEF OutputInv, Writing, NoOverreach
  <2>3. CASE phase = "done"
    BY <2>3 DEF OutputInv, Complete, NoOverreach
  <2> QED
    BY <2>1, <2>2, <2>3 DEF BytesInv, Types, Encoding
<1> QED
  BY <1>1, PartialInvariant, PTL

\* EncodePartial: no slice is refused, encoding fails only when the partial is
\* longer than its slices can be made, and otherwise the output is filled, or
\* lacks what a slice has beyond its largest size.
THEOREM PartialEndsWell == Spec => []EndsWell
<1>1. PartialInv => EndsWell
  <2> SUFFICES ASSUME BytesInv, OutputInv PROVE EndsWell
    BY DEF PartialInv
  <2> DEFINE most == 4 + 3 * MAX_LENGTH * slice_size_scalar
  <2>1. most = Largest /\ \A s : Used(s) = UsedBy(slices[s])
    BY DEF Largest, Used, UsedBy
  <2>2. /\ Types /\ Coding /\ n_slices \in Nat \ {0} /\ Largest \in Nat
        /\ slices \in Seq(SliceSet)
    BY LargestOf DEF BytesInv, Types
  <2>3. phase # "refused"
    BY <2>2 DEF Types
  <2>4. ASSUME phase = "overrun" PROVE passes > 1 /\ encode_length > n_slices * Largest
    <3>1. /\ passes > 1 /\ Len(slices) = n_slices /\ remaining_length \in Nat
          /\ remaining_length > 0 /\ \A s \in DOMAIN slices : UsedBy(slices[s]) = Largest
      BY <2>2, <2>4 DEF Coding, Passes, Padded, Types
    <3>2. \A s \in 1..n_slices : UsedBytes(slices)[s] = Largest
      BY <2>2, <3>1, UsedOf
    <3>3. Total(slices) = n_slices * Largest
      BY <2>2, <3>1, <3>2, SumConstant DEF Total
    <3>4. remaining_length + Total(slices) = encode_length /\ Total(slices) \in Int
      BY <2>2, UsedOf DEF Coding, Shared
    <3> QED
      BY <3>1, <3>3, <3>4
  <2>5. ASSUME phase = "done"
        PROVE  \/ ocounter = full_length /\ at[n_slices] + SliceSize(slices[n_slices]) = full_length
               \/ passes = 1 /\ \E s \in 1..n_slices : UsedBy(slices[s]) > Largest
    <3>1. CASE AllFit
      BY <2>5, <3>1 DEF OutputInv, Complete
    <3>2. CASE ~AllFit
      <4>1. DOMAIN slices = 1..n_slices
        BY <2>2, <2>5 DEF Coding, Passes
      <4>2. PICK s \in 1..n_slices : ~(UsedBy(slices[s]) <= Largest)
        BY <3>2 DEF AllFit
      <4>3. UsedBy(slices[s]) \in Int
        BY <2>2, <4>1, UsedOf
      <4>4. UsedBy(slices[s]) > Largest
        BY <2>2, <4>2, <4>3
      <4>5. ~(passes > 1)
        BY <2>2, <4>1, <4>2 DEF Coding, Sane
      <4>6. passes = 1
        BY <2>2, <4>5 DEF Types
      <4> QED
        BY <4>4, <4>6
    <3> QED
      BY <3>1, <3>2
  <2> HIDE DEF most
  <2>6. EndsWell <=> /\ phase # "refused"
                     /\ phase = "overrun" => passes > 1 /\ encode_length > n_slices * most
                     /\ phase = "done" =>
                          \/ ocounter = full_length /\ at[n_slices] + SliceSize(slices[n_slices]) = full_length
                          \/ passes = 1 /\ \E s \in 1..n_slices : Used(s) > most
    BY DEF EndsWell, most
  <2> QED
    BY <2>1, <2>3, <2>4, <2>5, <2>6
<1> QED
  BY <1>1, PartialInvariant, PTL

\* serialise_slices: the fragments of a complete partial follow each other and
\* each header gives its length, the one before's, its slices and where the
\* first of them is in the picture.
THEOREM PartialFragmentsDescribeSlices == Spec => []FragmentsDescribeSlices
<1>1. PartialInv => FragmentsDescribeSlices
  <2> SUFFICES ASSUME BytesInv, OutputInv, phase = "done", slices_per_frag # 0
               PROVE  /\ frags[Len(frags)].start + frags[Len(frags)].length = ocounter
                      /\ \A f \in DOMAIN frags :
                          LET h == frags[f]
                              within == {s \in DOMAIN at : at[s] >= h.start /\ at[s] < h.start + h.length}
                          IN  /\ h.start = IF f = 1 THEN 0 ELSE frags[f-1].start + frags[f-1].length
                              /\ f > 1 => h.prev = frags[f-1].length
                              /\ h.slices = Cardinality(within)
                              /\ h.sx < slices_per_line
                              /\ h.sy * slices_per_line + h.sx + 1 = first_sx + Min(within)
    BY DEF PartialInv, FragmentsDescribeSlices
  <2> DEFINE l == Len(frags)
             n == n_slices
  <2>1. /\ Complete /\ OutputTypes /\ Len(at) = n /\ frags \in Seq(HeaderSet) /\ at \in Seq(Nat)
        /\ n \in Nat \ {0} /\ slices_per_frag \in Nat /\ first_sx \in Nat /\ ocounter \in Nat
    BY Scalar DEF OutputInv, OutputTypes, Complete, BytesInv, Types
  <2>2. /\ l \in Nat \ {0} /\ Start(l) \in Int /\ Start(l) < n
    BY <2>1, AllWritten DEF Complete, OutputTypes
  <2>3. /\ frags # <<>> /\ frags[l].start + frags[l].length = ocounter
        /\ frags[l].slices = n - Start(l)
    BY <2>1, <2>2 DEF Complete
  <2>4. DOMAIN frags = 1..l /\ DOMAIN at = 1..n
    BY <2>1
  <2>5. ASSUME NEW f \in 1..l
        PROVE  LET h == frags[f]
                   within == {s \in DOMAIN at : at[s] >= h.start /\ at[s] < h.start + h.length}
               IN  /\ h.start = IF f = 1 THEN 0 ELSE frags[f-1].start + frags[f-1].length
                   /\ f > 1 => h.prev = frags[f-1].length
                   /\ h.slices = Cardinality(within)
                   /\ h.sx < slices_per_line
                   /\ h.sy * slices_per_line + h.sx + 1 = first_sx + Min(within)
    <3> DEFINE h == frags[f]
               within == {s \in DOMAIN at : at[s] >= h.start /\ at[s] < h.start + h.length}
               last == IF f = l THEN n ELSE Start(f) + slices_per_frag
    <3>1. /\ Placed(f) /\ Completed(f) /\ (f < l => h.slices = slices_per_frag)
          /\ f < l => Placed(f + 1)
      <4>1. f < l => f \in 1..l - 1 /\ f + 1 \in 1..l
        BY <2>2
      <4> QED
        BY <2>1, <4>1 DEF Complete, Headers
    <3>2. /\ Start(f) \in Nat /\ Start(f + 1) = Start(f) + slices_per_frag
          /\ Start(f) + 1 <= last /\ last \in Nat /\ last <= n
      <4>1. /\ (f - 1) * slices_per_frag = f * slices_per_frag - slices_per_frag
            /\ f * slices_per_frag \in Nat
            /\ (f + 1 - 1) * slices_per_frag = f * slices_per_frag
        BY <2>1, <2>2, Multiples
      <4>2. f - 1 \in Nat /\ (f - 1) * slices_per_frag \in Nat
        <5>1. f - 1 \in Nat
          BY <2>2
        <5> QED
          BY <2>1, <5>1
      <4>3. Start(f) = (f - 1) * slices_per_frag /\ Start(f + 1) = f * slices_per_frag
        BY <4>1 DEF Start
      <4>4. Start(f) \in Nat /\ Start(f + 1) = Start(f) + slices_per_frag
        BY <2>1, <4>1, <4>2, <4>3
      <4>5. CASE f = l
        BY <2>1, <2>2, <4>4, <4>5
      <4>6. CASE f # l
        <5>1. f \in Nat /\ f <= l - 1 /\ l - 1 \in Nat
          BY <2>2, <4>6
        <5>2. f * slices_per_frag <= (l - 1) * slices_per_frag
          BY <2>1, <5>1, Multiples
        <5>3. Start(f + 1) <= Start(l)
          BY <4>3, <5>2 DEF Start
        <5> HIDE DEF l, n
        <5> QED
          BY <2>1, <2>2, <4>4, <4>6, <5>3
      <4> QED
        BY <4>4, <4>5, <4>6
    <3>3. ASSUME NEW s \in 1..n
          PROVE  s \in within <=> s \in Start(f) + 1 .. last
      <4>1. at[s] \in Nat /\ at[s] < ocounter /\ (at[s] >= h.start <=> s > Start(f))
        BY <2>1, <3>1 DEF Complete, Behind, Placed
      <4>2. at[s] < h.start + h.length <=> s <= last
        <5>1. CASE f = l
          BY <2>1, <2>3, <4>1, <5>1
        <5>2. CASE f # l
          <6>1. Placed(f + 1) /\ f + 1 # 1 /\ f + 1 - 1 = f
            BY <2>2, <3>1, <5>2
          <6>2. frags[f + 1].start = h.start + h.length
            BY <6>1 DEF Placed
          <6>3. at[s] >= frags[f + 1].start <=> s > Start(f + 1)
            BY <2>1, <6>1 DEF Placed
          <6>4. frags[f + 1].start \in Nat
            <7>1. frags[f + 1] \in HeaderSet
              BY <2>1, <2>2, <5>2
            <7> QED
              BY <7>1 DEF HeaderSet
          <6>5. last = Start(f + 1)
            BY <3>2, <5>2
          <6>6. at[s] \in Nat /\ Start(f + 1) \in Nat
            BY <2>1, <3>2, <4>1
          <6> HIDE DEF h, last
          <6> QED
            BY <6>2, <6>3, <6>4, <6>5, <6>6
        <5> QED
          BY <5>1, <5>2
      <4>3. s \in within <=> at[s] >= h.start /\ at[s] < h.start + h.length
        BY <2>4
      <4> HIDE DEF within, h, last
      <4>4. s \in Start(f) + 1 .. last <=> s > Start(f) /\ s <= last
        BY <3>2
      <4> QED
        BY <4>1, <4>2, <4>3, <4>4
    <3>4. within = Start(f) + 1 .. last
      <4>1. within \subseteq 1..n
        BY <2>4
      <4>2. Start(f) + 1 .. last \subseteq 1..n
        BY <2>1, <3>2
      <4> HIDE DEF within
      <4> QED
        BY <3>3, <4>1, <4>2
    <3> HIDE DEF within
    <3>5. Cardinality(within) = last - Start(f)
      <4>1. Start(f) + 1 \in Int /\ last \in Int /\ ~(Start(f) + 1 > last)
        BY <3>2
      <4>2. Cardinality(within) = last - (Start(f) + 1) + 1
        BY <3>4, <4>1, FS_Interval
      <4> QED
        BY <3>2, <4>2
    <3>6. Min(within) = Start(f) + 1
      <4>1. /\ Start(f) + 1 \in within
            /\ \A s \in within : s \in Int /\ Start(f) + 1 <= s
        BY <3>2, <3>4
      <4>2. Min(within) \in within /\ \A s \in within : Min(within) <= s
        BY <4>1 DEF Min
      <4> QED
        BY <3>2, <4>1, <4>2
    <3>7. h.slices = last - Start(f)
      <4>1. CASE f = l
        BY <2>3, <4>1
      <4>2. CASE f # l
        BY <2>1, <2>2, <3>1, <3>2, <4>2
      <4> QED
        BY <4>1, <4>2
    <3>8. h.sy * slices_per_line + h.sx + 1 = first_sx + (Start(f) + 1)
      <4>1. h.sy * slices_per_line + h.sx = first_sx + Start(f)
        BY <3>1 DEF Completed
      <4>2. h.sy * slices_per_line \in Int /\ h.sx \in Int
        <5>1. h \in HeaderSet
          BY <2>1
        <5> QED
          BY <5>1, Scalar DEF HeaderSet
      <4> QED
        BY <2>1, <3>2, <4>1, <4>2
    <3>9. /\ h.start = IF f = 1 THEN 0 ELSE frags[f-1].start + frags[f-1].length
          /\ f > 1 => h.prev = frags[f-1].length
          /\ h.sx < slices_per_line
      BY <3>1 DEF Placed, Completed
    <3>10. /\ h.slices = Cardinality(within)
           /\ h.sy * slices_per_line + h.sx + 1 = first_sx + Min(within)
      BY <3>5, <3>6, <3>7, <3>8
    <3> QED
      BY <3>9, <3>10 DEF within
  <2> QED
    BY <2>3, <2>4, <2>5
<1> QED
  BY <1>1, PartialInvariant, PTL
=============================================================================
