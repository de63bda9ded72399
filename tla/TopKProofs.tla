------------------------------ MODULE TopKProofs ------------------------------
(***************************************************************************)
(* CLTopKV2 gives the top k of each row, in its three modes: for rows and  *)
(* keys of any length, any k, any number of work items and of bits of a    *)
(* digit, and any order of the work items.                                 *)
(*                                                                         *)
(* The heap on the CPU holds the best of the elements it has seen, in the  *)
(* strict order that the container compares by (HeapInv).  The ranges on   *)
(* the stack of the quicksort do not meet, and what they do not hold       *)
(* together is already in order (StackOK, Partitioned); each of two cells  *)
(* or more, they fit into the buffer of the stack (Wide).  The radix sort  *)
(* keeps the keys sorted by the digits of the passes so far, equal ones in *)
(* their first order (SortedBy): a histogram counts the keys of each part  *)
(* and digit, the scan of a group goes up and down its tree (GroupAt), the *)
(* scans and the pasting together make prefix sums of the counts, and the  *)
(* prefix sum is where the key stands in the next order (Rank).            *)
(*                                                                         *)
(* Induction over the numbers is by a least counterexample, so that the    *)
(* recursive function Pow2 can be reasoned about.                          *)
(***************************************************************************)
EXTENDS TopKV2, FiniteSetTheorems, SequenceTheorems, TLAPS

-----------------------------------------------------------------------------
(* Induction, by a least counterexample                                      *)

\* A set of natural numbers that is not empty has a least element.
LEMMA Least ==
  ASSUME NEW S \in SUBSET Nat, S # {}
  PROVE  \E m \in S : \A k \in S : m <= k
<1>1. PICK m \in S : \A k \in S : ~(<<k, m>> \in OpToRel(<, Nat))
  BY NatLessThanWellFounded, WFMin
<1>2. \A k \in S : ~(k < m)
  BY <1>1 DEF OpToRel
<1> QED
  BY <1>2

\* A set that holds 0, and with a number the next one, holds all of them.
LEMMA Induction ==
  ASSUME NEW S, 0 \in S, \A m \in Nat : m \in S => m + 1 \in S
  PROVE  Nat \subseteq S
<1> SUFFICES ASSUME Nat \ S # {}
             PROVE  FALSE
  OBVIOUS
<1>1. PICK m \in Nat \ S : \A k \in Nat \ S : m <= k
  BY Least
<1>2. m # 0 /\ m - 1 \in Nat /\ ~(m <= m - 1)
  BY <1>1
<1>3. m - 1 \in S
  BY <1>1, <1>2
<1> QED
  BY <1>1, <1>2, <1>3

-----------------------------------------------------------------------------
(* Powers of two                                                            *)

\* The first n powers.
Powers(n) ==
  {g \in [0 .. n -> Nat] : g[0] = 1 /\ \A i \in 1 .. n : g[i] = 2 * g[i - 1]}

LEMMA PowersExist == \A n \in Nat : Powers(n) # {}
<1> DEFINE S == {n \in Nat : Powers(n) # {}}
<1>1. 0 \in S
  <2>1. [i \in 0 .. 0 |-> 1] \in Powers(0)
    BY DEF Powers
  <2> QED
    BY <2>1
<1>2. ASSUME NEW m \in Nat, m \in S
      PROVE  m + 1 \in S
  <2>1. PICK g : g \in Powers(m)
    BY <1>2
  <2> DEFINE h == [i \in 0 .. m + 1 |-> IF i <= m THEN g[i] ELSE 2 * g[m]]
  <2>2. h \in Powers(m + 1)
    <3>1. g \in [0 .. m -> Nat] /\ g[0] = 1 /\ \A i \in 1 .. m : g[i] = 2 * g[i - 1]
      BY <2>1 DEF Powers
    <3>2. \A i \in 0 .. m + 1 : h[i] \in Nat
      BY <3>1
    <3>3. h \in [0 .. m + 1 -> Nat] /\ h[0] = 1
      BY <3>1, <3>2
    <3>4. ASSUME NEW i \in 1 .. m + 1
          PROVE  h[i] = 2 * h[i - 1]
      <4>1. CASE i <= m
        BY <3>1, <4>1
      <4>2. CASE i = m + 1
        BY <3>1, <4>2
      <4> QED
        BY <4>1, <4>2
    <3> HIDE DEF h
    <3> QED
      BY <3>3, <3>4 DEF Powers
  <2> QED
    BY <2>2
<1> HIDE DEF S
<1>3. Nat \subseteq S
  BY <1>1, <1>2, Induction
<1> QED
  BY <1>3 DEF S

LEMMA PowersAgree ==
  ASSUME NEW n \in Nat, NEW m \in Nat, NEW g \in Powers(n), NEW h \in Powers(m),
         NEW i \in Nat, i <= n, i <= m
  PROVE  g[i] = h[i]
<1> DEFINE S == {k \in Nat : k <= n /\ k <= m => g[k] = h[k]}
<1>1. 0 \in S
  BY DEF Powers
<1>2. ASSUME NEW k \in Nat, k \in S
      PROVE  k + 1 \in S
  BY <1>2 DEF Powers
<1> HIDE DEF S
<1>3. Nat \subseteq S
  BY <1>1, <1>2, Induction
<1> QED
  BY <1>3 DEF S

LEMMA Pow2Def ==
  /\ Pow2 \in [Nat -> Nat]
  /\ Pow2[0] = 1
  /\ \A e \in Nat : Pow2[e + 1] = 2 * Pow2[e]
<1> DEFINE P(n) == CHOOSE g : g \in Powers(n)
           f == [n \in Nat |-> P(n)[n]]
<1>1. \A n \in Nat : P(n) \in Powers(n)
  BY PowersExist
<1> HIDE DEF P
<1>2. \A n \in Nat : f[n] \in Nat
  BY <1>1 DEF Powers
<1>3. f[0] = 1
  BY <1>1 DEF Powers
<1>4. ASSUME NEW n \in Nat
      PROVE  f[n + 1] = 2 * f[n]
  <2>1. P(n + 1)[n + 1] = 2 * P(n + 1)[n]
    BY <1>1 DEF Powers
  <2>2. P(n + 1)[n] = P(n)[n]
    BY <1>1, PowersAgree
  <2> QED
    BY <2>1, <2>2
<1>5. f = [n \in Nat |-> IF n = 0 THEN 1 ELSE 2 * f[n - 1]]
  <2>1. \A n \in Nat : f[n] = IF n = 0 THEN 1 ELSE 2 * f[n - 1]
    <3>1. \A n \in Nat : n # 0 => n - 1 \in Nat /\ (n - 1) + 1 = n
      OBVIOUS
    <3> QED
      BY <1>3, <1>4, <3>1
  <2> QED
    BY <2>1
<1> HIDE DEF f
<1>6. \E g : g = [n \in Nat |-> IF n = 0 THEN 1 ELSE 2 * g[n - 1]]
  BY <1>5
<1>7. Pow2 = [n \in Nat |-> IF n = 0 THEN 1 ELSE 2 * Pow2[n - 1]]
  BY <1>6 DEF Pow2
<1>8. /\ Pow2[0] = 1
      /\ \A e \in Nat : Pow2[e + 1] = 2 * Pow2[e]
  BY <1>7
<1> DEFINE S == {n \in Nat : Pow2[n] \in Nat}
<1>9. 0 \in S /\ \A m \in Nat : m \in S => m + 1 \in S
  BY <1>8
<1> HIDE DEF S
<1>10. Nat \subseteq S
  BY <1>9, Induction
<1>11. \A n \in Nat : Pow2[n] \in Nat
  BY <1>10 DEF S
<1>12. Pow2 \in [Nat -> Nat]
  BY <1>7, <1>11
<1> QED
  BY <1>8, <1>12

LEMMA Pow2Positive == \A e \in Nat : Pow2[e] \in Nat \ {0} /\ Pow2[e] > e
<1> DEFINE S == {e \in Nat : Pow2[e] \in Nat \ {0} /\ Pow2[e] > e}
<1>1. 0 \in S /\ \A m \in Nat : m \in S => m + 1 \in S
  BY Pow2Def
<1> HIDE DEF S
<1>2. Nat \subseteq S
  BY <1>1, Induction
<1> QED
  BY <1>2 DEF S

LEMMA Pow2Sum ==
  ASSUME NEW a \in Nat, NEW b \in Nat
  PROVE  Pow2[a + b] = Pow2[a] * Pow2[b]
<1> DEFINE S == {m \in Nat : Pow2[a + m] = Pow2[a] * Pow2[m]}
<1>1. 0 \in S
  BY Pow2Def
<1>2. ASSUME NEW m \in Nat, m \in S
      PROVE  m + 1 \in S
  <2> DEFINE A == Pow2[a]
             B == Pow2[m]
             C == Pow2[a + m]
  <2>1. A \in Nat /\ B \in Nat /\ C \in Nat
    BY Pow2Def
  <2>2. Pow2[a + (m + 1)] = 2 * C /\ Pow2[m + 1] = 2 * B
    <3>1. a + (m + 1) = (a + m) + 1 /\ a + m \in Nat
      OBVIOUS
    <3> QED
      BY <3>1, Pow2Def
  <2>3. C = A * B
    BY <1>2
  <2> HIDE DEF A, B, C
  <2>4. 2 * C = A * (2 * B)
    BY <2>1, <2>3
  <2> QED
    BY <2>2, <2>4 DEF A
<1> HIDE DEF S
<1>3. Nat \subseteq S
  BY <1>1, <1>2, Induction
<1> QED
  BY <1>3 DEF S

\* A smaller power divides a larger one, an even number of times.
LEMMA Pow2Divides ==
  ASSUME NEW a \in Nat, NEW b \in Nat, a < b
  PROVE  \E c \in Nat \ {0} : Pow2[b] = Pow2[a] * (2 * c)
<1> DEFINE d == b - a - 1
<1>1. d \in Nat /\ b = a + (d + 1) /\ d + 1 \in Nat
  OBVIOUS
<1>2. Pow2[d + 1] = 2 * Pow2[d] /\ Pow2[d] \in Nat \ {0}
  BY <1>1, Pow2Def, Pow2Positive
<1>3. Pow2[b] = Pow2[a] * Pow2[d + 1]
  BY <1>1, Pow2Sum
<1> QED
  BY <1>2, <1>3

\* Different exponents, different powers.
LEMMA Pow2Injective ==
  ASSUME NEW a \in Nat, NEW b \in Nat, Pow2[a] = Pow2[b]
  PROVE  a = b
<1>1. ASSUME NEW x \in Nat, NEW y \in Nat, x < y
      PROVE  Pow2[x] # Pow2[y]
  <2>1. PICK c \in Nat \ {0} : Pow2[y] = Pow2[x] * (2 * c)
    BY <1>1, Pow2Divides
  <2> DEFINE p == Pow2[x]
  <2>2. p \in Nat \ {0}
    BY Pow2Positive
  <2> HIDE DEF p
  <2>3. p * (2 * c) # p
    <3>1. p * (2 * c) = p + p * (2 * c - 1) /\ 2 * c - 1 >= 1
      BY <2>2
    <3>2. p * (2 * c - 1) > 0
      BY <2>2, <3>1
    <3> QED
      BY <2>2, <3>1, <3>2
  <2> QED
    BY <2>1, <2>3 DEF p
<1> QED
  BY <1>1

\* Log2 of a power is its exponent.
LEMMA Log2OfPower ==
  ASSUME NEW e \in Nat
  PROVE  Log2(Pow2[e]) = e
<1>1. e \in 0 .. Pow2[e]
  BY Pow2Positive
<1>2. \A l \in 0 .. Pow2[e] : Pow2[l] = Pow2[e] => l = e
  BY Pow2Injective, Pow2Positive
<1> QED
  BY <1>1, <1>2 DEF Log2

LEMMA RangeSize ==
  ASSUME NEW c \in Nat
  PROVE  IsFiniteSet(Range0(c)) /\ Cardinality(Range0(c)) = c
<1>1. /\ IsFiniteSet(0 .. c - 1)
      /\ Cardinality(0 .. c - 1) = IF 0 > c - 1 THEN 0 ELSE c - 1 - 0 + 1
  BY FS_Interval
<1> QED
  BY <1>1 DEF Range0

-----------------------------------------------------------------------------
(* Ranks in a strict order                                                  *)

\* R is a strict order of S in which any two elements compare.
Orders(R, S) ==
  /\ \A x \in S : <<x, x>> \notin R
  /\ \A x, y \in S : x # y => <<x, y>> \in R \/ <<y, x>> \in R
  /\ \A x, y, z \in S : <<x, y>> \in R /\ <<y, z>> \in R => <<x, z>> \in R

\* How many elements come before x.
Rank(R, S, x) == Cardinality({y \in S : <<y, x>> \in R})

LEMMA Ranks ==
  ASSUME NEW S, IsFiniteSet(S), NEW R, Orders(R, S)
  PROVE  /\ \A x \in S : Rank(R, S, x) \in Range0(Cardinality(S))
         /\ \A x, y \in S : <<x, y>> \in R => Rank(R, S, x) < Rank(R, S, y)
         /\ \A x, y \in S : Rank(R, S, x) = Rank(R, S, y) => x = y
         /\ \A i \in Range0(Cardinality(S)) : \E x \in S : Rank(R, S, x) = i
<1> DEFINE B(x) == {y \in S : <<y, x>> \in R}
           r == [x \in S |-> Rank(R, S, x)]
           c == Cardinality(S)
<1>1. \A x \in S : B(x) \in SUBSET S /\ IsFiniteSet(B(x)) /\ Cardinality(B(x)) \in Nat
  BY FS_Subset, FS_CardinalityType
<1>2. c \in Nat
  BY FS_CardinalityType
<1>3. ASSUME NEW x \in S
      PROVE  Rank(R, S, x) \in Range0(c)
  <2>1. x \notin B(x) /\ x \in S
    BY DEF Orders
  <2>2. Cardinality(B(x)) <= c /\ Cardinality(B(x)) # c
    BY <1>1, <2>1, FS_Subset
  <2> QED
    BY <1>1, <1>2, <2>2 DEF Rank, Range0
<1>4. ASSUME NEW x \in S, NEW y \in S, <<x, y>> \in R
      PROVE  Rank(R, S, x) < Rank(R, S, y)
  <2>1. B(x) \in SUBSET B(y) /\ x \in B(y) /\ x \notin B(x)
    BY <1>4 DEF Orders
  <2>2. Cardinality(B(x)) <= Cardinality(B(y)) /\ Cardinality(B(x)) # Cardinality(B(y))
    BY <1>1, <2>1, FS_Subset
  <2> QED
    BY <1>1, <2>2 DEF Rank
<1>5. \A x, y \in S : Rank(R, S, x) = Rank(R, S, y) => x = y
  <2> SUFFICES ASSUME NEW x \in S, NEW y \in S, Rank(R, S, x) = Rank(R, S, y), x # y
               PROVE  FALSE
    OBVIOUS
  <2>1. Rank(R, S, x) < Rank(R, S, y) \/ Rank(R, S, y) < Rank(R, S, x)
    BY <1>4 DEF Orders
  <2>2. Rank(R, S, x) \in Int
    BY <1>2, <1>3 DEF Range0
  <2> QED
    BY <2>1, <2>2
<1>6. r \in Injection(S, Range0(c))
  BY <1>3, <1>5 DEF Injection, IsInjective
<1>7. IsFiniteSet(Range0(c)) /\ Cardinality(Range0(c)) = c
  BY <1>2, RangeSize
<1>8. r \in Surjection(S, Range0(c))
  BY <1>6, <1>7, FS_Injection
<1>9. \A i \in Range0(c) : \E x \in S : Rank(R, S, x) = i
  BY <1>8 DEF Surjection
<1> QED
  BY <1>3, <1>4, <1>5, <1>9

\* A finite set that is not empty has a last element.
LEMMA LastExists ==
  ASSUME NEW S, IsFiniteSet(S), S # {}, NEW R, Orders(R, S)
  PROVE  \E x \in S : \A y \in S \ {x} : <<y, x>> \in R
<1> DEFINE c == Cardinality(S)
<1>1. c \in Nat /\ c # 0
  BY FS_CardinalityType, FS_EmptySet
<1>2. c - 1 \in Range0(c)
  BY <1>1 DEF Range0
<1>3. PICK x \in S : Rank(R, S, x) = c - 1
  BY <1>2, Ranks
<1>4. ASSUME NEW y \in S, <<x, y>> \in R
      PROVE  FALSE
  <2>1. Rank(R, S, x) < Rank(R, S, y) /\ Rank(R, S, y) \in Range0(c)
    BY <1>4, Ranks
  <2> QED
    BY <1>1, <1>3, <2>1 DEF Range0
<1> QED
  BY <1>4 DEF Orders

\* s lists S in the order R.
Sorts(s, R, S) ==
  /\ s \in [Range0(Cardinality(S)) -> S]
  /\ \A i, j \in Range0(Cardinality(S)) : i < j => <<s[i], s[j]>> \in R

LEMMA SortedExists ==
  ASSUME NEW S, IsFiniteSet(S), NEW R, Orders(R, S)
  PROVE  \E s : Sorts(s, R, S)
<1> DEFINE c == Cardinality(S)
           s == [i \in Range0(c) |-> CHOOSE x \in S : Rank(R, S, x) = i]
<1>1. \A i \in Range0(c) : s[i] \in S /\ Rank(R, S, s[i]) = i
  BY Ranks
<1> HIDE DEF s
<1>2. ASSUME NEW i \in Range0(c), NEW j \in Range0(c), i < j
      PROVE  <<s[i], s[j]>> \in R
  <2>1. s[i] # s[j] /\ s[i] \in S /\ s[j] \in S
    BY <1>1, <1>2 DEF Range0
  <2>2. CASE <<s[j], s[i]>> \in R
    <3>1. Rank(R, S, s[j]) < Rank(R, S, s[i])
      BY <2>1, <2>2, Ranks
    <3> QED
      BY <1>1, <1>2, <3>1 DEF Range0
  <2> QED
    BY <2>1, <2>2 DEF Orders
<1>3. s \in [Range0(c) -> S]
  BY <1>1 DEF s
<1> QED
  BY <1>2, <1>3 DEF Sorts

\* Such a list has each element once.
LEMMA SortedOnce ==
  ASSUME NEW S, IsFiniteSet(S), NEW R, Orders(R, S), NEW s, Sorts(s, R, S)
  PROVE  /\ \A i, j \in Range0(Cardinality(S)) : s[i] = s[j] => i = j
         /\ \A x \in S : \E i \in Range0(Cardinality(S)) : s[i] = x
<1> DEFINE c == Cardinality(S)
<1>1. c \in Nat
  BY FS_CardinalityType
<1>2. IsFiniteSet(Range0(c)) /\ Cardinality(Range0(c)) = c
  BY <1>1, RangeSize
<1>3. \A i, j \in Range0(c) : s[i] = s[j] => i = j
  <2>1. \A i, j \in Range0(c) : i \in Int /\ j \in Int
    BY <1>1 DEF Range0
  <2>2. \A i, j \in Range0(c) : i < j => s[i] # s[j]
    BY DEF Sorts, Orders
  <2> QED
    BY <2>1, <2>2
<1>4. s \in Injection(Range0(c), S)
  BY <1>3 DEF Injection, IsInjective, Sorts
<1>5. s \in Surjection(Range0(c), S)
  BY <1>2, <1>4, FS_Injection
<1> QED
  BY <1>3, <1>5 DEF Surjection

-----------------------------------------------------------------------------
(* The function and its data                                                *)

FunOK ==
  /\ fun \in [mode : {"cpu", "GPU", "GPU_SINGLE"}, n : Nat \ {0}, rows : Nat \ {0},
              k : Nat \ {0}]
  /\ fun.k <= fun.n
  /\ fun.mode = "GPU" => fun.n % (Items * Groups) = 0

Data == [Range0(fun.rows * fun.n) -> Range0(Pow2[TotalBits])]

\* The outputs are never longer or shorter than that.
OutputsOK ==
  /\ values = [i \in Range0(fun.k * fun.rows) |-> values[i]]
  /\ indices = [i \in Range0(fun.k * fun.rows) |-> indices[i]]

CommonInv ==
  /\ FunOK /\ OutputsOK
  /\ runs \in Nat
  /\ runs = 0 => at = "idle"
  /\ runs > 0 => given \in Data
  /\ TopKOfEachRow

LEMMA NumberIsInt ==
  ASSUME NEW key \in Range0(Pow2[TotalBits])
  PROVE  Number(key) \in Int /\ key \in Nat
<1>1. TotalBits - 1 \in Nat /\ TotalBits \in Nat
  BY BitsAssumption
<1>2. Pow2[TotalBits - 1] \in Nat /\ Pow2[TotalBits] \in Nat
  BY <1>1, Pow2Def
<1>3. key \in Nat
  BY <1>2 DEF Range0
<1> QED
  BY <1>2, <1>3 DEF Number, Negative

\* A cell of a row is one of the tensor, and in one row only.
LEMMA CellOfRow ==
  ASSUME NEW rows \in Nat, NEW size \in Nat, NEW r \in Range0(rows), NEW i \in Range0(size)
  PROVE  /\ r * size + i \in Range0(rows * size)
         /\ r * size + i \in Range0(size * rows)
         /\ \A r2 \in Range0(rows) : r2 # r => r * size + i - r2 * size \notin Range0(size)
<1>0. r \in Nat /\ i \in Nat /\ i < size /\ r + 1 <= rows
  BY DEF Range0
<1>1. (r + 1) * size <= rows * size
  <2> DEFINE d == rows - (r + 1)
  <2>1. d \in Nat /\ rows = (r + 1) + d
    BY <1>0
  <2> HIDE DEF d
  <2>2. rows * size = (r + 1) * size + d * size /\ d * size \in Nat
    BY <1>0, <2>1
  <2> QED
    BY <1>0, <2>2
<1>2. (r + 1) * size = r * size + size /\ r * size \in Nat /\ rows * size = size * rows
  BY <1>0
<1>3. ASSUME NEW r2 \in Range0(rows), r2 # r
      PROVE  r * size + i - r2 * size \notin Range0(size)
  <2>0. r2 \in Nat
    BY DEF Range0
  <2> DEFINE d == r - r2
             e == d * size
  <2>1. d \in Int /\ r * size - r2 * size = d * size
    BY <1>0, <2>0
  <2>2. d >= 1 \/ d <= -1
    BY <1>0, <1>3, <2>0
  <2> HIDE DEF d
  <2>3. e >= size \/ e <= -size
    <3>1. CASE d >= 1
      <4> DEFINE f == d - 1
      <4>1. f \in Nat /\ d = 1 + f
        BY <2>1, <3>1
      <4> HIDE DEF f
      <4>2. f * size \in Nat /\ (1 + f) * size = size + f * size
        BY <4>1
      <4> QED
        BY <4>1, <4>2
    <3>2. CASE d <= -1
      <4> DEFINE f == -1 - d
      <4>1. f \in Nat /\ d = -1 - f
        BY <2>1, <3>2
      <4> HIDE DEF f
      <4>2. f * size \in Nat /\ (-1 - f) * size = -size - f * size
        BY <4>1
      <4> QED
        BY <4>1, <4>2
    <3> QED
      BY <2>2, <3>1, <3>2
  <2>4. r * size + i - r2 * size = e + i
    BY <1>0, <2>0, <2>1
  <2>5. e \in Int
    BY <2>1
  <2> HIDE DEF e
  <2> QED
    BY <1>0, <2>3, <2>4, <2>5 DEF Range0
<1> QED
  BY <1>0, <1>1, <1>2, <1>3 DEF Range0

-----------------------------------------------------------------------------
(* The heap of the CPU                                                      *)

\* Better as a relation on the columns.
Order == {p \in Range0(fun.n) \X Range0(fun.n) : Better(p[1], p[2])}

LEMMA OrderIsBetter ==
  ASSUME NEW a \in Range0(fun.n), NEW b \in Range0(fun.n)
  PROVE  <<a, b>> \in Order <=> Better(a, b)
BY DEF Order

LEMMA BetterOrders ==
  ASSUME FunOK, input \in Data, row \in Range0(fun.rows), NEW S \in SUBSET Range0(fun.n)
  PROVE  Orders(Order, S) /\ IsFiniteSet(S)
<1> DEFINE Key(c) == Number(input[row * fun.n + c])
<1>1. fun.n \in Nat /\ fun.rows \in Nat
  BY DEF FunOK
<1>2. \A c \in Range0(fun.n) : Key(c) \in Int /\ c \in Int
  <2>1. ASSUME NEW c \in Range0(fun.n)
        PROVE  Key(c) \in Int /\ c \in Int
    <3>1. row * fun.n + c \in Range0(fun.rows * fun.n)
      BY <1>1, CellOfRow
    <3>2. input[row * fun.n + c] \in Range0(Pow2[TotalBits])
      BY <3>1 DEF Data
    <3> QED
      BY <1>1, <3>2, NumberIsInt DEF Range0
  <2> QED
    BY <2>1
<1>3. \A a, b \in Range0(fun.n) :
        <<a, b>> \in Order <=> (Key(b) < Key(a) \/ (Key(b) = Key(a) /\ a < b))
  BY OrderIsBetter DEF Better
<1> HIDE DEF Key
<1>4. Orders(Order, S)
  BY <1>2, <1>3 DEF Orders
<1>5. IsFiniteSet(Range0(fun.n))
  BY <1>1, RangeSize
<1> QED
  BY <1>4, <1>5, FS_Subset

LEMMA WorstIsWorst ==
  ASSUME FunOK, input \in Data, row \in Range0(fun.rows), NEW S \in SUBSET Range0(fun.n), S # {}
  PROVE  Worst(S) \in S /\ \A b \in S \ {Worst(S)} : Better(b, Worst(S))
<1>1. \E x \in S : \A y \in S \ {x} : <<y, x>> \in Order
  BY BetterOrders, LastExists
<1>2. \E x \in S : \A y \in S \ {x} : Better(y, x)
  BY <1>1, OrderIsBetter
<1> QED
  BY <1>2 DEF Worst

LEMMA BetterIsStrict ==
  ASSUME FunOK, input \in Data, row \in Range0(fun.rows),
         NEW a \in Range0(fun.n), NEW b \in Range0(fun.n), NEW c \in Range0(fun.n)
  PROVE  /\ ~Better(a, a)
         /\ a # b => Better(a, b) \/ Better(b, a)
         /\ Better(a, b) /\ Better(b, c) => Better(a, c)
<1>1. Orders(Order, Range0(fun.n))
  BY BetterOrders
<1> QED
  BY <1>1, OrderIsBetter DEF Orders

\* The heap holds the best columns seen, k of them or all.
HeapInv ==
  /\ heap \subseteq Range0(col)
  /\ Cardinality(heap) <= fun.k
  /\ back = {} => heap = Range0(col)
  /\ back # {} => Cardinality(heap) = fun.k
  /\ \A a \in heap, b \in Range0(col) \ heap : Better(a, b)

CpuInv ==
  /\ at \in {"idle", "collect"}
  /\ row \in Range0(fun.rows) /\ col \in 0 .. fun.n
  /\ at = "idle" => row = 0 /\ col = 0 /\ heap = {} /\ back = {}
  /\ at = "collect" => /\ input = given
                       /\ HeapInv
                       /\ \A r \in Range0(row) : IsTopK(r)

\* IsTopK depends on the outputs only in its row.
LEMMA SameRow ==
  ASSUME FunOK, UNCHANGED <<fun, given>>, NEW r \in Range0(fun.rows), IsTopK(r),
         \A i \in Range0(fun.k) : /\ values'[r * fun.k + i] = values[r * fun.k + i]
                                  /\ indices'[r * fun.k + i] = indices[r * fun.k + i]
  PROVE  IsTopK(r)'
<1> DEFINE V(i) == values[r * fun.k + i]
           P(i) == indices[r * fun.k + i]
<1>1. fun.k \in Nat \ {0} /\ fun.k - 1 \in Range0(fun.k)
      /\ \A i \in 1 .. fun.k - 1 : i \in Range0(fun.k) /\ i - 1 \in Range0(fun.k)
  BY DEF FunOK, Range0
<1>2. \A i \in Range0(fun.k) : V(i)' = V(i) /\ P(i)' = P(i)
  OBVIOUS
<1> HIDE DEF V, P
<1>3. /\ \A i, j \in Range0(fun.k) : P(i) = P(j) => i = j
      /\ \A i \in Range0(fun.k) : P(i) \in Range0(fun.n) /\ V(i) = given[r * fun.n + P(i)]
      /\ \A i \in 1 .. fun.k - 1 : Number(V(i - 1)) >= Number(V(i))
      /\ \A p \in Range0(fun.n) :
           (\A i \in Range0(fun.k) : P(i) # p)
             => Number(given[r * fun.n + p]) <= Number(V(fun.k - 1))
  BY DEF IsTopK, V, P
<1>4. /\ \A i, j \in Range0(fun.k) : P(i)' = P(j)' => i = j
      /\ \A i \in Range0(fun.k) : P(i)' \in Range0(fun.n) /\ V(i)' = given[r * fun.n + P(i)']
      /\ \A i \in 1 .. fun.k - 1 : Number(V(i - 1)') >= Number(V(i)')
      /\ \A p \in Range0(fun.n) :
           (\A i \in Range0(fun.k) : P(i)' # p)
             => Number(given[r * fun.n + p]) <= Number(V(fun.k - 1)')
  BY <1>1, <1>2, <1>3
<1> QED
  BY <1>4 DEF IsTopK, V, P, Number, Negative

LEMMA PushKeeps ==
  ASSUME FunOK, given \in Data, CpuInv, Push
  PROVE  CpuInv'
<1>1. /\ at = "collect" /\ col < fun.n /\ col' = col + 1 /\ input = given /\ HeapInv
      /\ UNCHANGED <<fun, given, input, values, indices, at, row>>
  BY DEF Push, CpuInv
<1>2. fun.n \in Nat /\ fun.k \in Nat \ {0} /\ col \in Nat /\ row \in Range0(fun.rows)
      /\ fun.rows \in Nat
  BY <1>1 DEF FunOK, CpuInv
<1>3. /\ heap \subseteq Range0(col) /\ col \notin Range0(col) /\ col \in Range0(fun.n)
      /\ Range0(col) \subseteq Range0(fun.n) /\ Range0(col + 1) = Range0(col) \cup {col}
      /\ col + 1 \in 0 .. fun.n
  BY <1>1, <1>2 DEF HeapInv, Range0
<1> DEFINE all == heap \cup {col}
           w == Worst(all)
<1>4. IsFiniteSet(heap) /\ Cardinality(heap) \in Nat /\ Cardinality(heap) <= fun.k
  <2>1. heap \subseteq Range0(fun.n)
    BY <1>3
  <2> QED
    BY <1>1, <1>2, <2>1, RangeSize, FS_Subset, FS_CardinalityType DEF HeapInv
<1>5. IsFiniteSet(all) /\ Cardinality(all) = Cardinality(heap) + 1
  BY <1>3, <1>4, FS_AddElement
<1>6. w \in all /\ \A b \in all \ {w} : Better(b, w)
  <2>1. all \in SUBSET Range0(fun.n) /\ all # {}
    BY <1>3
  <2> HIDE DEF all
  <2> QED
    BY <1>1, <1>2, <2>1, WorstIsWorst
<1>7. \A a, b : Better(a, b)' <=> Better(a, b)
  BY <1>1 DEF Better, Number, Negative
<1> HIDE DEF w
<1>8. \A a \in heap, b \in Range0(col) \ heap : Better(a, b)
  BY <1>1 DEF HeapInv
<1>9. HeapInv'
  <2>1. CASE back = {} /\ Cardinality(heap) < fun.k
    <3>1. heap = Range0(col) /\ heap' = all /\ back' = {}
      BY <1>1, <2>1 DEF HeapInv, Push
    <3>2. Cardinality(heap') <= fun.k
      BY <1>2, <1>4, <1>5, <2>1, <3>1
    <3> QED
      BY <1>1, <1>3, <3>1, <3>2 DEF HeapInv
  <2>2. CASE ~(back = {} /\ Cardinality(heap) < fun.k)
             /\ (back = {} \/ Better(col, Worst(heap)))
    <3>1. heap' = all \ {w} /\ back' = {w}
      BY <2>2 DEF Push, w
    <3>2. Cardinality(heap) = fun.k
      BY <1>1, <1>2, <1>4, <2>2 DEF HeapInv
    <3>3. Cardinality(heap') = fun.k
      BY <1>2, <1>5, <1>6, <3>1, <3>2, FS_RemoveElement
    <3>4. ASSUME NEW a \in heap', NEW b \in Range0(col + 1) \ heap'
          PROVE  Better(a, b)
      <4>1. CASE b = w
        BY <1>6, <3>1, <4>1
      <4>2. CASE b # w
        <5>1. b \in Range0(col) \ heap /\ a \in all \ {w}
          BY <1>3, <3>1, <4>2
        <5>2. CASE a \in heap
          BY <1>8, <5>1, <5>2
        <5>3. CASE a = col
          <6>1. w \in heap /\ Better(a, w) /\ Better(w, b)
            BY <1>6, <1>8, <5>1, <5>3
          <6>2. a \in Range0(fun.n) /\ b \in Range0(fun.n) /\ w \in Range0(fun.n)
            BY <1>3, <5>1, <5>3, <6>1
          <6> QED
            BY <1>1, <1>2, <6>1, <6>2, BetterIsStrict
        <5> QED
          BY <5>1, <5>2, <5>3
      <4> QED
        BY <4>1, <4>2
    <3>5. heap' \subseteq Range0(col + 1)
      BY <1>3, <3>1
    <3> QED
      BY <1>1, <1>2, <1>7, <3>1, <3>3, <3>4, <3>5 DEF HeapInv
  <2>3. CASE back # {} /\ ~Better(col, Worst(heap))
    <3>1. UNCHANGED <<heap, back>>
      BY <2>3 DEF Push
    <3>2. Cardinality(heap) = fun.k /\ heap # {}
      BY <1>1, <1>2, <2>3, FS_EmptySet DEF HeapInv
    <3> DEFINE v == Worst(heap)
    <3>3. v \in heap /\ \A b \in heap \ {v} : Better(b, v)
      <4>1. heap \in SUBSET Range0(fun.n)
        BY <1>3
      <4> QED
        BY <1>1, <1>2, <3>2, <4>1, WorstIsWorst
    <3>4. ~Better(col, v)
      BY <2>3
    <3> HIDE DEF v
    <3>5. \A a \in heap : Better(a, col)
      <4>1. v \in Range0(fun.n) /\ v # col
        BY <1>3, <3>3
      <4>2. Better(v, col)
        BY <1>1, <1>2, <1>3, <3>4, <4>1, BetterIsStrict
      <4>3. ASSUME NEW a \in heap, a # v
            PROVE  Better(a, col)
        <5>1. a \in Range0(fun.n) /\ Better(a, v)
          BY <1>3, <3>3, <4>3
        <5> QED
          BY <1>1, <1>2, <1>3, <4>1, <4>2, <5>1, BetterIsStrict
      <4> QED
        BY <4>2, <4>3
    <3> QED
      BY <1>1, <1>2, <1>3, <1>7, <1>8, <2>3, <3>1, <3>2, <3>5 DEF HeapInv
  <2> QED
    BY <2>1, <2>2, <2>3
<1>10. \A r \in Range0(row) : IsTopK(r)'
  BY <1>1 DEF CpuInv, IsTopK, Number, Negative
<1> QED
  BY <1>1, <1>2, <1>3, <1>9, <1>10 DEF CpuInv

\* A list of the heap, the best first.
LEMMA HeapSorted ==
  ASSUME FunOK, input \in Data, row \in Range0(fun.rows), heap \subseteq Range0(fun.n),
         NEW s, s = CHOOSE t \in [Range0(Cardinality(heap)) -> heap] :
                      \A i, j \in Range0(Cardinality(heap)) : i < j => Better(t[i], t[j])
  PROVE  LET size == Cardinality(heap)
         IN  /\ s \in [Range0(size) -> heap]
             /\ \A i, j \in Range0(size) : i < j => Better(s[i], s[j])
             /\ \A i, j \in Range0(size) : s[i] = s[j] => i = j
             /\ \A c \in heap : \E i \in Range0(size) : s[i] = c
<1> DEFINE size == Cardinality(heap)
<1>1. Orders(Order, heap) /\ IsFiniteSet(heap)
  BY BetterOrders
<1>2. ASSUME NEW t, t \in [Range0(size) -> heap]
      PROVE  Sorts(t, Order, heap) <=> \A i, j \in Range0(size) : i < j => Better(t[i], t[j])
  <2>1. \A i \in Range0(size) : t[i] \in Range0(fun.n)
    BY <1>2
  <2>2. \A i, j \in Range0(size) : <<t[i], t[j]>> \in Order <=> Better(t[i], t[j])
    BY <2>1, OrderIsBetter
  <2> QED
    BY <1>2, <2>2 DEF Sorts
<1>3. \E t \in [Range0(size) -> heap] : \A i, j \in Range0(size) : i < j => Better(t[i], t[j])
  <2>1. PICK t : Sorts(t, Order, heap)
    BY <1>1, SortedExists
  <2>2. t \in [Range0(size) -> heap]
    BY <2>1 DEF Sorts
  <2> QED
    BY <1>2, <2>1, <2>2
<1>4. /\ s \in [Range0(size) -> heap]
      /\ \A i, j \in Range0(size) : i < j => Better(s[i], s[j])
  BY <1>3
<1>5. Sorts(s, Order, heap)
  BY <1>2, <1>4
<1>6. /\ \A i, j \in Range0(size) : s[i] = s[j] => i = j
      /\ \A c \in heap : \E i \in Range0(size) : s[i] = c
  <2>1. PICK t : t = s
    OBVIOUS
  <2>2. Sorts(t, Order, heap)
    BY <1>5, <2>1
  <2>3. /\ \A i, j \in Range0(size) : t[i] = t[j] => i = j
        /\ \A c \in heap : \E i \in Range0(size) : t[i] = c
    BY ONLY <1>1, <2>2, SortedOnce
  <2> QED
    BY ONLY <2>1, <2>3
<1> QED
  BY <1>4, <1>6

\* In a heap of all the columns are the k best.
LEMMA FullHeap ==
  ASSUME FunOK, CpuInv, at = "collect", col = fun.n
  PROVE  /\ heap \subseteq Range0(fun.n) /\ Cardinality(heap) = fun.k
         /\ \A a \in heap, b \in Range0(fun.n) \ heap : Better(a, b)
<1>1. fun.n \in Nat /\ fun.k \in Nat /\ fun.k <= fun.n
  BY DEF FunOK
<1>2. back = {} => Cardinality(heap) = fun.n
  BY <1>1, RangeSize DEF CpuInv, HeapInv
<1> QED
  BY <1>1, <1>2 DEF CpuInv, HeapInv

LEMMA EndRowKeeps ==
  ASSUME FunOK, OutputsOK, given \in Data, CpuInv, EndRow
  PROVE  /\ CpuInv' /\ OutputsOK'
         /\ at' = "idle" => \A r \in Range0(fun.rows) : IsTopK(r)'
<1>1. /\ at = "collect" /\ col = fun.n /\ input = given /\ input \in Data
      /\ row \in Range0(fun.rows)
      /\ UNCHANGED <<fun, given, input>>
      /\ heap' = {} /\ back' = {} /\ col' = 0
      /\ row' = IF row + 1 < fun.rows THEN row + 1 ELSE 0
      /\ at' = IF row + 1 < fun.rows THEN at ELSE "idle"
      /\ \A r \in Range0(row) : IsTopK(r)
  BY DEF EndRow, CpuInv
<1>0. PICK R : R = row
  OBVIOUS
<1>2. /\ fun.n \in Nat /\ fun.k \in Nat \ {0} /\ fun.rows \in Nat /\ R \in Nat /\ row = R
      /\ fun.rows * fun.n \in Nat
  BY <1>0, <1>1 DEF FunOK, Range0
<1>3. /\ heap \subseteq Range0(fun.n) /\ Cardinality(heap) = fun.k
      /\ \A a \in heap, b \in Range0(fun.n) \ heap : Better(a, b)
  BY <1>1, FullHeap
<1> DEFINE size == Cardinality(heap)
<1>4. PICK s : s = CHOOSE t \in [Range0(Cardinality(heap)) -> heap] :
                     \A i, j \in Range0(Cardinality(heap)) : i < j => Better(t[i], t[j])
  OBVIOUS
<1>5. /\ values' = [i \in DOMAIN values |->
                      IF i - row * fun.k \in Range0(size)
                      THEN input[row * fun.n + s[i - row * fun.k]] ELSE values[i]]
      /\ indices' = [i \in DOMAIN indices |->
                       IF i - row * fun.k \in Range0(size)
                       THEN s[i - row * fun.k] ELSE indices[i]]
  BY <1>4 DEF EndRow
<1>6. /\ s \in [Range0(size) -> heap]
      /\ \A i, j \in Range0(size) : i < j => Better(s[i], s[j])
      /\ \A i, j \in Range0(size) : s[i] = s[j] => i = j
      /\ \A c \in heap : \E i \in Range0(size) : s[i] = c
  BY <1>1, <1>3, <1>4, HeapSorted
<1> HIDE DEF size
<1>7. size = fun.k
  BY <1>3 DEF size
<1>8. OutputsOK'
  BY <1>1, <1>5 DEF OutputsOK
<1>9. DOMAIN values = Range0(fun.k * fun.rows) /\ DOMAIN indices = Range0(fun.k * fun.rows)
  BY DEF OutputsOK
<1>10. ASSUME NEW i \in Range0(fun.k)
       PROVE  /\ values'[R * fun.k + i] = given[R * fun.n + s[i]]
              /\ indices'[R * fun.k + i] = s[i]
  <2>1. R * fun.k + i \in Range0(fun.k * fun.rows)
    BY <1>1, <1>2, CellOfRow
  <2>2. (R * fun.k + i) - R * fun.k = i
    BY <1>2 DEF Range0
  <2> QED
    BY <1>1, <1>2, <1>5, <1>7, <1>9, <2>1, <2>2
<1>11. ASSUME NEW r \in Range0(R)
       PROVE  IsTopK(r)'
  <2>1. r \in Range0(fun.rows) /\ r # R
    BY <1>1, <1>2, <1>11 DEF Range0
  <2>2. ASSUME NEW i \in Range0(fun.k)
        PROVE  /\ values'[r * fun.k + i] = values[r * fun.k + i]
               /\ indices'[r * fun.k + i] = indices[r * fun.k + i]
    <3>1. r * fun.k + i \in Range0(fun.k * fun.rows)
      BY <1>2, <2>1, CellOfRow
    <3>2. (r * fun.k + i) - R * fun.k \notin Range0(fun.k)
      BY <1>1, <1>2, <2>1, CellOfRow
    <3> QED
      BY <1>2, <1>5, <1>7, <1>9, <3>1, <3>2
  <2>3. IsTopK(r)
    BY <1>1, <1>2, <1>11
  <2> QED
    BY <1>1, <2>1, <2>2, <2>3, SameRow
<1>12. IsTopK(R)'
  <2> DEFINE V(i) == values'[R * fun.k + i]
             P(i) == indices'[R * fun.k + i]
             Key(p) == given[R * fun.n + p]
  <2>1. \A i \in Range0(fun.k) : V(i) = Key(s[i]) /\ P(i) = s[i]
    BY <1>10
  <2> HIDE DEF V, P
  <2>2. \A i \in Range0(fun.k) : s[i] \in heap /\ s[i] \in Range0(fun.n)
    BY <1>3, <1>6, <1>7
  <2>3. \A a, b \in Range0(fun.n) : Better(a, b) => Number(Key(b)) <= Number(Key(a))
    <3>1. ASSUME NEW a \in Range0(fun.n)
          PROVE  Number(Key(a)) \in Int
      <4>1. R * fun.n + a \in Range0(fun.rows * fun.n)
        BY <1>1, <1>2, CellOfRow
      <4> QED
        BY <4>1, NumberIsInt DEF Data
    <3> HIDE DEF Key
    <3>2. \A a, b \in Range0(fun.n) :
            Better(a, b) => Number(Key(b)) < Number(Key(a)) \/ Number(Key(b)) = Number(Key(a))
      BY <1>1, <1>2 DEF Better, Key
    <3> QED
      BY <3>1, <3>2
  <2> HIDE DEF Key
  <2>4. \A i, j \in Range0(fun.k) : P(i) = P(j) => i = j
    BY <1>6, <1>7, <2>1
  <2>5. \A i \in 1 .. fun.k - 1 : Number(V(i - 1)) >= Number(V(i))
    <3> SUFFICES ASSUME NEW i \in 1 .. fun.k - 1
                 PROVE  Number(V(i - 1)) >= Number(V(i))
      OBVIOUS
    <3>1. i \in Range0(fun.k) /\ i - 1 \in Range0(fun.k) /\ i - 1 < i
      BY <1>2 DEF Range0
    <3>2. Better(s[i - 1], s[i])
      BY <1>6, <1>7, <3>1
    <3>3. Number(Key(s[i])) <= Number(Key(s[i - 1]))
      BY <2>2, <2>3, <3>1, <3>2
    <3>4. V(i) = Key(s[i]) /\ V(i - 1) = Key(s[i - 1])
      BY <2>1, <3>1
    <3> QED
      BY <3>3, <3>4
  <2>6. \A p \in Range0(fun.n) :
          (\A i \in Range0(fun.k) : P(i) # p) => Number(Key(p)) <= Number(V(fun.k - 1))
    <3> SUFFICES ASSUME NEW p \in Range0(fun.n), \A i \in Range0(fun.k) : P(i) # p
                 PROVE  Number(Key(p)) <= Number(V(fun.k - 1))
      OBVIOUS
    <3>1. fun.k - 1 \in Range0(fun.k)
      BY <1>2 DEF Range0
    <3>2. p \notin heap
      BY <1>6, <1>7, <2>1
    <3>3. Better(s[fun.k - 1], p)
      BY <1>3, <2>2, <3>1, <3>2
    <3> QED
      BY <2>1, <2>2, <2>3, <3>1, <3>3
  <2>7. \A i \in Range0(fun.k) : P(i) \in Range0(fun.n) /\ V(i) = Key(P(i))
    BY <2>1, <2>2
  <2> QED
    BY <1>1, <2>4, <2>5, <2>6, <2>7 DEF IsTopK, V, P, Key, Number, Negative
<1>13. \A r \in Range0(R + 1) : IsTopK(r)'
  <2>1. Range0(R + 1) = Range0(R) \cup {R}
    BY <1>0, <1>2 DEF Range0
  <2> QED
    BY <1>11, <1>12, <2>1
<1>14. CASE row + 1 < fun.rows
  <2>1. at' = "collect" /\ row' = R + 1
    BY <1>1, <1>2, <1>14
  <2>2. R + 1 \in Range0(fun.rows) /\ 0 \in 0 .. fun.n
    BY <1>2, <1>14 DEF Range0
  <2>3. HeapInv'
    BY <1>1, <1>2, FS_EmptySet DEF HeapInv, Range0
  <2> QED
    BY <1>1, <1>8, <1>13, <2>1, <2>2, <2>3 DEF CpuInv
<1>15. CASE ~(row + 1 < fun.rows)
  <2>1. at' = "idle" /\ row' = 0 /\ R + 1 = fun.rows
    BY <1>1, <1>2, <1>15 DEF Range0
  <2>2. 0 \in Range0(fun.rows) /\ 0 \in 0 .. fun.n
    BY <1>2, <2>1 DEF Range0
  <2> QED
    BY <1>1, <1>8, <1>13, <2>1, <2>2 DEF CpuInv
<1> QED
  BY <1>14, <1>15

-----------------------------------------------------------------------------
(* The quicksort: its ranges                                                *)

\* The m-th range on a stack, and how many there are.
InRange(st, m, p) == st[2 * m - 1] <= p /\ p <= st[2 * m]
Count(st) == Len(st) \div 2
Joined(st, p, q) == \E m \in 1 .. Count(st) : InRange(st, m, p) /\ InRange(st, m, q)

\* Ranges of 0 .. n - 1 of which no two meet.
StackOK(st, n) ==
  /\ st \in Seq(Int) /\ Len(st) = 2 * Count(st)
  /\ \A m \in 1 .. Count(st) : /\ 0 <= st[2 * m - 1] /\ st[2 * m - 1] <= st[2 * m]
                               /\ st[2 * m] < n
  /\ \A m, m2 \in 1 .. Count(st), p \in Int :
       InRange(st, m, p) /\ InRange(st, m2, p) => m = m2

\* A range meets none of those on the stack.
Alone(st, l, h) == \A p \in Int : l <= p /\ p <= h => ~Joined(st, p, p)

\* What st joins, st2 joins too, and so it does l .. h.
Adds(st2, st, l, h) ==
  \A p, q \in Int : Joined(st2, p, q)
                       <=> Joined(st, p, q) \/ (l <= p /\ p <= h /\ l <= q /\ q <= h)

Pushed(st2, st, l, h) == IF h > l THEN Adds(st2, st, l, h) ELSE st2 = st

LEMMA Half == \A x \in Int : (2 * x) \div 2 = x
OBVIOUS

LEMMA TopOfStack ==
  ASSUME NEW n \in Nat, NEW st, StackOK(st, n), st # <<>>,
         NEW rest, rest = SubSeq(st, 1, Len(st) - 2),
         NEW l, l = st[Len(st) - 1], NEW h, h = st[Len(st)]
  PROVE  /\ StackOK(rest, n)
         /\ l \in Int /\ h \in Int /\ 0 <= l /\ l <= h /\ h < n
         /\ Alone(rest, l, h) /\ Adds(st, rest, l, h)
<1> DEFINE c == Count(st)
           len == Len(st)
<1>1. st \in Seq(Int) /\ len \in Nat /\ c \in Nat /\ len = 2 * c /\ len # 0
  <2>1. st \in Seq(Int) /\ len \in Nat /\ len = 2 * c /\ len # 0
    BY DEF StackOK
  <2>2. c = len \div 2
    BY DEF Count
  <2> HIDE DEF c, len
  <2> QED
    BY <2>1, <2>2
<1>2. \A m \in 1 .. c : 2 * m - 1 \in 1 .. len /\ 2 * m \in 1 .. len
  <2> HIDE DEF c, len
  <2> QED
    BY <1>1
<1>3. \A i \in 1 .. len : st[i] \in Int
  BY <1>1
<1>4. /\ \A m \in 1 .. c : 0 <= st[2 * m - 1] /\ st[2 * m - 1] <= st[2 * m] /\ st[2 * m] < n
      /\ \A m, m2 \in 1 .. c, p \in Int : InRange(st, m, p) /\ InRange(st, m2, p) => m = m2
  BY DEF StackOK
<1> HIDE DEF c
<1>5. rest \in Seq(Int) /\ Len(rest) = len - 2 /\ \A i \in 1 .. len - 2 : rest[i] = st[i]
  <2>1. 1 \in 1 .. len + 1 /\ len - 2 \in 0 .. len /\ \A i \in 1 .. len - 2 : i \in 1 .. len
    BY <1>1
  <2> QED
    BY <1>1, <1>3, <2>1, SubSeqProperties
<1>6. Count(rest) = c - 1 /\ c - 1 \in Nat /\ Len(rest) = 2 * (c - 1)
  <2>1. Len(rest) = len - 2
    BY <1>5
  <2>2. len \in Nat /\ c \in Nat /\ len = 2 * c /\ len # 0
    BY <1>1
  <2> HIDE DEF len
  <2>3. c - 1 \in Nat /\ len - 2 = 2 * (c - 1)
    BY <2>2
  <2>4. (2 * (c - 1)) \div 2 = c - 1
    BY <2>3, Half
  <2> QED
    BY <2>1, <2>3, <2>4 DEF Count
<1> HIDE DEF len
<1>7. /\ \A m \in 1 .. c - 1 : m \in 1 .. c /\ rest[2 * m - 1] = st[2 * m - 1]
                                            /\ rest[2 * m] = st[2 * m]
      /\ c \in 1 .. c /\ 2 * c - 1 = len - 1 /\ 2 * c = len
      /\ \A m \in 1 .. c : m \in 1 .. c - 1 \/ m = c
  BY <1>1, <1>2, <1>5
<1>8. \A m \in 1 .. c - 1, p \in Int : InRange(rest, m, p) <=> InRange(st, m, p)
  BY <1>7 DEF InRange
<1>9. l = st[2 * c - 1] /\ h = st[2 * c] /\ l \in Int /\ h \in Int
  BY <1>2, <1>3, <1>7 DEF len
<1>10. \A p \in Int : InRange(st, c, p) <=> l <= p /\ p <= h
  BY <1>9 DEF InRange
<1>11. StackOK(rest, n)
  <2>1. \A m \in 1 .. c - 1 : /\ 0 <= rest[2 * m - 1] /\ rest[2 * m - 1] <= rest[2 * m]
                              /\ rest[2 * m] < n
    BY <1>4, <1>7
  <2>2. \A m, m2 \in 1 .. c - 1, p \in Int :
          InRange(rest, m, p) /\ InRange(rest, m2, p) => m = m2
    BY <1>4, <1>7, <1>8
  <2> QED
    BY <1>5, <1>6, <2>1, <2>2 DEF StackOK
<1>12. 0 <= l /\ l <= h /\ h < n
  BY <1>4, <1>7, <1>9
<1>13. \A p \in Int : l <= p /\ p <= h => ~Joined(rest, p, p)
  <2> SUFFICES ASSUME NEW p \in Int, l <= p /\ p <= h, NEW m \in 1 .. c - 1, InRange(rest, m, p)
               PROVE  FALSE
    BY <1>6 DEF Joined
  <2>1. m \in 1 .. c /\ InRange(st, m, p) /\ InRange(st, c, p) /\ m # c
    BY <1>1, <1>7, <1>8, <1>10
  <2> QED
    BY <1>4, <1>7, <2>1
<1>14. ASSUME NEW p \in Int, NEW q \in Int
       PROVE  Joined(st, p, q)
                <=> Joined(rest, p, q) \/ (l <= p /\ p <= h /\ l <= q /\ q <= h)
  <2>1. Joined(st, p, q) <=> \E m \in 1 .. c : InRange(st, m, p) /\ InRange(st, m, q)
    BY DEF Joined, c
  <2>2. Joined(rest, p, q) <=> \E m \in 1 .. c - 1 : InRange(st, m, p) /\ InRange(st, m, q)
    BY <1>6, <1>8 DEF Joined
  <2> QED
    BY <1>7, <1>10, <2>1, <2>2
<1> QED
  BY <1>9, <1>11, <1>12, <1>13, <1>14 DEF Alone, Adds

\* st2 is st with l and h after it.
Longer(st2, st, l, h) ==
  /\ st2 \in Seq(Int) /\ Len(st2) = Len(st) + 2
  /\ \A i \in 1 .. Len(st) : st2[i] = st[i]
  /\ st2[Len(st) + 1] = l /\ st2[Len(st) + 2] = h

LEMMA PairAppended ==
  ASSUME NEW st \in Seq(Int), NEW l \in Int, NEW h \in Int, NEW t, t = <<l, h>>,
         NEW st2, st2 = st \o t
  PROVE  Longer(st2, st, l, h)
<1> DEFINE len == Len(st)
<1>1. t \in Seq(Int) /\ Len(t) = 2 /\ t[1] = l /\ t[2] = h
  OBVIOUS
<1>2. /\ st2 \in Seq(Int) /\ Len(st2) = len + Len(t)
      /\ \A i \in 1 .. len + Len(t) : st2[i] = IF i <= len THEN st[i] ELSE t[i - len]
  BY <1>1, ConcatProperties
<1>3. len \in Nat
  OBVIOUS
<1> HIDE DEF len
<1>4. /\ \A i \in 1 .. len : i \in 1 .. len + 2 /\ i <= len
      /\ len + 1 \in 1 .. len + 2 /\ len + 2 \in 1 .. len + 2 /\ ~(len + 1 <= len)
      /\ ~(len + 2 <= len) /\ (len + 1) - len = 1 /\ (len + 2) - len = 2
  BY <1>3
<1>5. /\ st2 \in Seq(Int) /\ Len(st2) = len + 2
      /\ \A i \in 1 .. len : st2[i] = st[i]
      /\ st2[len + 1] = l /\ st2[len + 2] = h
  BY <1>1, <1>2, <1>4
<1> QED
  BY <1>5 DEF len, Longer

\* A range on top of those that it does not meet.
LEMMA RangePushed ==
  ASSUME NEW n \in Nat, NEW st, StackOK(st, n), NEW l \in Int, NEW h \in Int,
         0 <= l, l < h, h < n, Alone(st, l, h),
         NEW t, t = <<l, h>>, NEW st2, st2 = st \o t
  PROVE  StackOK(st2, n) /\ Adds(st2, st, l, h)
<1> DEFINE c == Count(st)
           len == Len(st)
<1>1. st \in Seq(Int) /\ len \in Nat /\ c \in Nat /\ len = 2 * c
  <2>1. st \in Seq(Int) /\ len \in Nat /\ len = 2 * c
    BY DEF StackOK
  <2>2. c = len \div 2
    BY DEF Count
  <2> HIDE DEF c, len
  <2> QED
    BY <2>1, <2>2
<1>2. /\ st2 \in Seq(Int) /\ Len(st2) = len + 2
      /\ \A i \in 1 .. len : st2[i] = st[i]
      /\ st2[len + 1] = l /\ st2[len + 2] = h
  <2>1. st \in Seq(Int)
    BY <1>1
  <2>2. Longer(st2, st, l, h)
    BY ONLY <2>1, l \in Int, h \in Int, t = <<l, h>>, st2 = st \o t, PairAppended, Zenon
  <2> QED
    BY <2>2 DEF Longer
<1>3. /\ \A m \in 1 .. c : 0 <= st[2 * m - 1] /\ st[2 * m - 1] <= st[2 * m] /\ st[2 * m] < n
      /\ \A m, m2 \in 1 .. c, p \in Int : InRange(st, m, p) /\ InRange(st, m2, p) => m = m2
  BY DEF StackOK
<1>4. \A p, q \in Int : Joined(st, p, q)
        <=> \E m \in 1 .. c : InRange(st, m, p) /\ InRange(st, m, q)
  BY DEF Joined
<1> HIDE DEF c, len
<1>5. Count(st2) = c + 1 /\ Len(st2) = 2 * (c + 1)
  <2>1. Len(st2) = 2 * (c + 1) /\ c + 1 \in Int
    BY <1>1, <1>2
  <2>2. (2 * (c + 1)) \div 2 = c + 1
    BY <2>1, Half
  <2> QED
    BY <2>1, <2>2 DEF Count
<1>6. /\ \A m \in 1 .. c : /\ m \in 1 .. c + 1 /\ st2[2 * m - 1] = st[2 * m - 1]
                           /\ st2[2 * m] = st[2 * m]
      /\ c + 1 \in 1 .. c + 1 /\ st2[2 * (c + 1) - 1] = l /\ st2[2 * (c + 1)] = h
      /\ \A m \in 1 .. c + 1 : m \in 1 .. c \/ m = c + 1
  <2>1. /\ \A m \in 1 .. c : 2 * m - 1 \in 1 .. len /\ 2 * m \in 1 .. len
        /\ 2 * (c + 1) - 1 = len + 1 /\ 2 * (c + 1) = len + 2
    BY <1>1
  <2>2. \A m \in 1 .. c : st2[2 * m - 1] = st[2 * m - 1] /\ st2[2 * m] = st[2 * m]
    BY <1>2, <2>1
  <2>3. st2[2 * (c + 1) - 1] = l /\ st2[2 * (c + 1)] = h
    BY <1>2, <2>1
  <2>4. /\ \A m \in 1 .. c : m \in 1 .. c + 1
        /\ c + 1 \in 1 .. c + 1 /\ \A m \in 1 .. c + 1 : m \in 1 .. c \/ m = c + 1
    BY <1>1
  <2> QED
    BY <2>2, <2>3, <2>4
<1>7. /\ \A m \in 1 .. c, p \in Int : InRange(st2, m, p) <=> InRange(st, m, p)
      /\ \A p \in Int : InRange(st2, c + 1, p) <=> l <= p /\ p <= h
  BY <1>6 DEF InRange
<1>8. \A m \in 1 .. c, p \in Int : ~(InRange(st2, m, p) /\ InRange(st2, c + 1, p))
  BY <1>4, <1>7 DEF Alone
<1>9. \A m, m2 \in 1 .. c + 1, p \in Int : InRange(st2, m, p) /\ InRange(st2, m2, p) => m = m2
  <2> SUFFICES ASSUME NEW m \in 1 .. c + 1, NEW m2 \in 1 .. c + 1, NEW p \in Int,
                      InRange(st2, m, p), InRange(st2, m2, p)
               PROVE  m = m2
    OBVIOUS
  <2>1. CASE m \in 1 .. c /\ m2 \in 1 .. c
    BY <1>3, <1>7, <2>1
  <2> QED
    BY <1>6, <1>8, <2>1
<1>10. StackOK(st2, n)
  <2>1. /\ \A m \in 1 .. c + 1 : /\ 0 <= st2[2 * m - 1] /\ st2[2 * m - 1] <= st2[2 * m]
                                 /\ st2[2 * m] < n
    <3>1. 0 <= l /\ l <= h /\ h < n
      BY <1>1
    <3> QED
      BY <1>3, <1>6, <3>1
  <2> QED
    BY <1>2, <1>5, <1>9, <2>1 DEF StackOK
<1>11. ASSUME NEW p \in Int, NEW q \in Int
       PROVE  Joined(st2, p, q)
                <=> Joined(st, p, q) \/ (l <= p /\ p <= h /\ l <= q /\ q <= h)
  <2>1. Joined(st2, p, q) <=> \E m \in 1 .. c + 1 : InRange(st2, m, p) /\ InRange(st2, m, q)
    BY <1>5 DEF Joined
  <2> QED
    BY <1>4, <1>6, <1>7, <2>1
<1> QED
  BY <1>10, <1>11 DEF Adds

\* The same, of a range that may have one element or none, which is not pushed.
LEMMA RangeOnTop ==
  ASSUME NEW n \in Nat, NEW st, StackOK(st, n), NEW l \in Int, NEW h \in Int,
         0 <= l, h < n, Alone(st, l, h),
         NEW t, t = (IF h > l THEN <<l, h>> ELSE <<>>), NEW st2, st2 = st \o t
  PROVE  StackOK(st2, n) /\ Pushed(st2, st, l, h)
<1>1. CASE ~(h > l)
  <2>1. st \in Seq(Int)
    BY DEF StackOK
  <2>2. st2 = st
    BY <1>1, <2>1
  <2> QED
    BY <1>1, <2>2 DEF Pushed
<1>2. CASE h > l
  <2>1. t = <<l, h>> /\ l < h
    BY <1>2
  <2> QED
    BY <1>2, <2>1, RangePushed DEF Pushed
<1> QED
  BY <1>1, <1>2

-----------------------------------------------------------------------------
(* The quicksort: partition                                                 *)

LEMMA Exchanged ==
  ASSUME NEW n, NEW f \in [Range0(n) -> Int], NEW a \in Range0(n), NEW b \in Range0(n),
         NEW g, g = Exchange(f, a, b)
  PROVE  /\ g \in [Range0(n) -> Int] /\ g[a] = f[b] /\ g[b] = f[a]
         /\ \A p \in Range0(n) : p # a /\ p # b => g[p] = f[p]
BY DEF Exchange

\* Where no range is left to sort, greater numbers stand before smaller ones;
\* l .. h is one more range.
Apart(n, st, l, h, f) ==
  \A p, q \in Range0(n) :
    p < q /\ ~Joined(st, p, q) /\ ~(l <= p /\ p <= h /\ l <= q /\ q <= h) => f[p] >= f[q]

\* l .. i is what partition has found not to be less than the last of the range,
\* i + 1 .. j - 1 what it has found to be less.
Sifted(f, l, h, i, j) ==
  /\ \A p \in l .. i : f[p] >= f[h]
  /\ \A p \in i + 1 .. j - 1 : f[p] <= f[h]

LEMMA JoinedItself ==
  ASSUME NEW st, NEW p, NEW q, Joined(st, p, q)
  PROVE  Joined(st, p, p) /\ Joined(st, q, q)
BY DEF Joined

LEMMA ExchangeInside ==
  ASSUME NEW n \in Nat, NEW st, NEW l \in Int, NEW h \in Int, 0 <= l, h < n,
         NEW f \in [Range0(n) -> Int], Apart(n, st, l, h, f), Alone(st, l, h),
         NEW a \in l .. h, NEW b \in l .. h, NEW g, g = Exchange(f, a, b)
  PROVE  Apart(n, st, l, h, g)
<1>1. l .. h \subseteq Range0(n) /\ a \in Range0(n) /\ b \in Range0(n)
  BY DEF Range0
<1>2. /\ g \in [Range0(n) -> Int] /\ g[a] = f[b] /\ g[b] = f[a]
      /\ \A p \in Range0(n) : p # a /\ p # b => g[p] = f[p]
  BY <1>1, Exchanged
<1>3. \A p \in l .. h : \E p2 \in l .. h : g[p] = f[p2]
  BY <1>1, <1>2
<1>4. \A p \in Range0(n) : p \notin l .. h => g[p] = f[p]
  BY <1>2
<1> SUFFICES ASSUME NEW p \in Range0(n), NEW q \in Range0(n), p < q, ~Joined(st, p, q),
                    ~(l <= p /\ p <= h /\ l <= q /\ q <= h)
             PROVE  g[p] >= g[q]
  BY DEF Apart
<1>5. p \in Int /\ q \in Int
  BY DEF Range0
<1>6. CASE p \in l .. h
  <2>1. PICK p2 \in l .. h : g[p] = f[p2]
    BY <1>3, <1>6
  <2>2. q \notin l .. h /\ p2 < q /\ p2 \in Range0(n)
    BY <1>1, <1>5, <1>6
  <2>3. ~Joined(st, p2, q)
    BY JoinedItself DEF Alone
  <2>4. f[p2] >= f[q]
    BY <1>5, <2>2, <2>3 DEF Apart
  <2> QED
    BY <1>4, <2>1, <2>2, <2>4
<1>7. CASE q \in l .. h
  <2>1. PICK q2 \in l .. h : g[q] = f[q2]
    BY <1>3, <1>7
  <2>2. p \notin l .. h /\ p < q2 /\ q2 \in Range0(n)
    BY <1>1, <1>5, <1>7
  <2>3. ~Joined(st, p, q2)
    BY JoinedItself DEF Alone
  <2>4. f[p] >= f[q2]
    BY <1>5, <2>2, <2>3 DEF Apart
  <2> QED
    BY <1>4, <2>1, <2>2, <2>4
<1>8. CASE p \notin l .. h /\ q \notin l .. h
  BY <1>4, <1>8 DEF Apart
<1> QED
  BY <1>6, <1>7, <1>8

LEMMA SiftExchanges ==
  ASSUME NEW n \in Nat, NEW l \in Int, NEW h \in Int, NEW i \in Int, NEW j \in Int,
         0 <= l, h < n, l - 1 <= i, i < j, j < h,
         NEW f \in [Range0(n) -> Int], Sifted(f, l, h, i, j), f[j] >= f[h],
         NEW g, g = Exchange(f, i + 1, j)
  PROVE  Sifted(g, l, h, i + 1, j + 1)
<1>1. i + 1 \in Range0(n) /\ j \in Range0(n) /\ h \in Range0(n) /\ h # i + 1 /\ h # j
  BY DEF Range0
<1>2. /\ g \in [Range0(n) -> Int] /\ g[i + 1] = f[j] /\ g[j] = f[i + 1]
      /\ \A p \in Range0(n) : p # i + 1 /\ p # j => g[p] = f[p]
  BY <1>1, Exchanged
<1>3. \A p \in Range0(n) : f[p] \in Int
  OBVIOUS
<1>4. g[h] = f[h] /\ f[h] \in Int
  BY <1>1, <1>2
<1>5. ASSUME NEW p \in l .. i + 1
      PROVE  g[p] >= g[h]
  <2>1. CASE p = i + 1
    BY <1>2, <1>4, <2>1
  <2>2. CASE p # i + 1
    <3>1. p \in l .. i /\ p \in Range0(n) /\ p # j
      BY <2>2 DEF Range0
    <3> QED
      BY <1>2, <1>4, <2>2, <3>1 DEF Sifted
  <2> QED
    BY <2>1, <2>2
<1>6. ASSUME NEW p \in (i + 1) + 1 .. (j + 1) - 1
      PROVE  g[p] <= g[h]
  <2>1. CASE p = j
    <3>1. i + 1 \in i + 1 .. j - 1
      BY <2>1
    <3> QED
      BY <1>2, <1>4, <2>1, <3>1 DEF Sifted
  <2>2. CASE p # j
    <3>1. p \in i + 1 .. j - 1 /\ p \in Range0(n) /\ p # i + 1
      BY <2>2 DEF Range0
    <3> QED
      BY <1>2, <1>4, <2>2, <3>1 DEF Sifted
  <2> QED
    BY <2>1, <2>2
<1> QED
  BY <1>5, <1>6 DEF Sifted

LEMMA SiftLeaves ==
  ASSUME NEW n \in Nat, NEW l \in Int, NEW h \in Int, NEW i \in Int, NEW j \in Int,
         0 <= l, h < n, l - 1 <= i, i < j, j < h,
         NEW f \in [Range0(n) -> Int], Sifted(f, l, h, i, j), ~(f[j] >= f[h])
  PROVE  Sifted(f, l, h, i, j + 1)
<1>1. j \in Range0(n) /\ h \in Range0(n) /\ f[j] \in Int /\ f[h] \in Int
  BY DEF Range0
<1>2. \A p \in i + 1 .. (j + 1) - 1 : p \in i + 1 .. j - 1 \/ p = j
  OBVIOUS
<1> QED
  BY <1>1, <1>2 DEF Sifted

\* The range falls into two, and the pivot between them.
LEMMA PivotSplits ==
  ASSUME NEW n \in Nat, NEW st, NEW l \in Int, NEW h \in Int, NEW i \in Int,
         0 <= l, h < n, l - 1 <= i, i < h, StackOK(st, n), Alone(st, l, h),
         NEW f \in [Range0(n) -> Int], Apart(n, st, l, h, f), Sifted(f, l, h, i, h),
         NEW p, p = i + 1, NEW g, g = Exchange(f, p, h),
         NEW t1, t1 = (IF p - 1 > l THEN <<l, p - 1>> ELSE <<>>),
         NEW t2, t2 = (IF p + 1 < h THEN <<p + 1, h>> ELSE <<>>),
         NEW st2, st2 = (st \o t1) \o t2
  PROVE  StackOK(st2, n) /\ \A a, b \in Range0(n) : a < b /\ ~Joined(st2, a, b) => g[a] >= g[b]
<1>1. p \in l .. h /\ h \in l .. h /\ p \in Range0(n) /\ h \in Range0(n) /\ p \in Int
  BY DEF Range0
<1>2. Apart(n, st, l, h, g)
  BY <1>1, ExchangeInside
<1>3. /\ g \in [Range0(n) -> Int] /\ g[p] = f[h] /\ g[h] = f[p]
      /\ \A a \in Range0(n) : a # p /\ a # h => g[a] = f[a]
  BY <1>1, Exchanged
<1>4. g \in [Range0(n) -> Int]
  BY <1>3
<1>5. ASSUME NEW a \in l .. p
      PROVE  g[a] >= g[p]
  <2>1. CASE a = p
    BY <1>1, <1>4, <2>1
  <2>2. CASE a # p
    <3>1. a \in l .. i /\ a # h /\ a \in Range0(n)
      BY <1>1, <2>2 DEF Range0
    <3> QED
      BY <1>3, <2>2, <3>1 DEF Sifted
  <2> QED
    BY <2>1, <2>2
<1>6. ASSUME NEW a \in p .. h
      PROVE  g[a] <= g[p]
  <2>1. CASE a = p
    BY <1>1, <1>4, <2>1
  <2>2. CASE a # p /\ a # h
    <3>1. a \in i + 1 .. h - 1 /\ a \in Range0(n)
      BY <1>1, <2>2 DEF Range0
    <3> QED
      BY <1>3, <2>2, <3>1 DEF Sifted
  <2>3. CASE a # p /\ a = h
    <3>1. p \in i + 1 .. h - 1
      BY <1>1, <2>3
    <3> QED
      BY <1>3, <2>3, <3>1 DEF Sifted
  <2> QED
    BY <2>1, <2>2, <2>3
<1> DEFINE st1 == st \o t1
           h1 == p - 1
           l2 == p + 1
<1>7. /\ h1 \in Int /\ h1 < n /\ h1 <= h /\ l2 \in Int /\ 0 <= l2 /\ l < l2
      /\ t1 = (IF h1 > l THEN <<l, h1>> ELSE <<>>) /\ t2 = (IF h > l2 THEN <<l2, h>> ELSE <<>>)
      /\ \A a \in Int : ~(a <= h1 /\ l2 <= a)
  BY <1>1
<1> HIDE DEF h1, l2
<1>8. StackOK(st1, n) /\ Pushed(st1, st, l, h1)
  <2>1. Alone(st, l, h1)
    BY <1>7 DEF Alone
  <2>2. StackOK(st1, n)
    BY <1>7, <2>1, RangeOnTop
  <2>3. Pushed(st1, st, l, h1)
    BY <1>7, <2>1, RangeOnTop
  <2> QED
    BY <2>2, <2>3
<1> HIDE DEF st1
<1>9. StackOK(st2, n) /\ Pushed(st2, st1, l2, h)
  <2>1. Alone(st1, l2, h)
    BY <1>7, <1>8 DEF Alone, Adds, Pushed
  <2>2. st2 = st1 \o t2
    BY DEF st1
  <2>3. StackOK(st2, n)
    BY <1>7, <1>8, <2>1, <2>2, RangeOnTop
  <2>4. Pushed(st2, st1, l2, h)
    BY <1>7, <1>8, <2>1, <2>2, RangeOnTop
  <2> QED
    BY <2>3, <2>4
<1>10. \A a, b \in Int :
         ~Joined(st2, a, b)
           => /\ ~Joined(st, a, b)
              /\ ~(l < p - 1 /\ l <= a /\ a <= p - 1 /\ l <= b /\ b <= p - 1)
              /\ ~(p + 1 < h /\ p + 1 <= a /\ a <= h /\ p + 1 <= b /\ b <= h)
  BY <1>8, <1>9 DEF Adds, Pushed, h1, l2
<1>11. ASSUME NEW a \in Range0(n), NEW b \in Range0(n), a < b, ~Joined(st2, a, b)
      PROVE  g[a] >= g[b]
  <2>0. a \in Int /\ b \in Int
    BY DEF Range0
  <2>1. /\ ~Joined(st, a, b)
        /\ ~(l < p - 1 /\ l <= a /\ a <= p - 1 /\ l <= b /\ b <= p - 1)
        /\ ~(p + 1 < h /\ p + 1 <= a /\ a <= h /\ p + 1 <= b /\ b <= h)
    BY <1>10, <1>11, <2>0
  <2>2. CASE ~(l <= a /\ a <= h /\ l <= b /\ b <= h)
    BY <1>2, <1>11, <2>1, <2>2 DEF Apart
  <2>3. CASE l <= a /\ a <= h /\ l <= b /\ b <= h
    <3>1. a \in l .. p /\ b \in p .. h
      BY <1>1, <1>11, <2>0, <2>1, <2>3
    <3>2. g[a] >= g[p] /\ g[b] <= g[p] /\ g[a] \in Int /\ g[b] \in Int /\ g[p] \in Int
      BY <1>1, <1>4, <1>5, <1>6, <3>1
    <3> QED
      BY <3>2
  <2> QED
    BY <2>2, <2>3
<1> QED
  BY <1>9, <1>11

-----------------------------------------------------------------------------
(* Sorted elements and their places are the top k                           *)

LEMMA InjectiveIsOnto ==
  ASSUME NEW n \in Nat, NEW f \in [Range0(n) -> Range0(n)],
         \A p, q \in Range0(n) : f[p] = f[q] => p = q
  PROVE  \A p \in Range0(n) : \E q \in Range0(n) : f[q] = p
<1>1. f \in Injection(Range0(n), Range0(n))
  BY DEF Injection, IsInjective
<1>2. f \in Surjection(Range0(n), Range0(n))
  BY <1>1, RangeSize, FS_Injection
<1> QED
  BY <1>2 DEF Surjection

\* The outputs become the first k of the sorted elements f, which stood at P.
LEMMA SortedIsTopK ==
  ASSUME FunOK, given \in Data, UNCHANGED <<fun, given>>,
         NEW P \in [Range0(fun.n) -> Range0(fun.n)],
         \A p, q \in Range0(fun.n) : P[p] = P[q] => p = q,
         NEW f, \A p \in Range0(fun.n) : f[p] = given[P[p]],
         \A p, q \in Range0(fun.n) : p < q => Number(f[p]) >= Number(f[q]),
         \A i \in Range0(fun.k) : values'[i] = f[i] /\ indices'[i] = P[i]
  PROVE  IsTopK(0)'
<1> DEFINE V(i) == values[0 * fun.k + i]
           Q(i) == indices[0 * fun.k + i]
           N(p) == Number(f[p])
           G(p) == given[0 * fun.n + p]
<1>1. fun.n \in Nat \ {0} /\ fun.k \in Nat \ {0} /\ fun.k <= fun.n /\ fun.rows \in Nat \ {0}
  BY DEF FunOK
<1>2. /\ \A i \in Range0(fun.k) : i \in Range0(fun.n) /\ 0 * fun.k + i = i /\ i \in Int
      /\ \A i \in Range0(fun.n) : 0 * fun.n + i = i /\ i \in Int
      /\ fun.k - 1 \in Range0(fun.k)
      /\ \A i \in 1 .. fun.k - 1 : i \in Range0(fun.k) /\ i - 1 \in Range0(fun.k) /\ i - 1 < i
  BY <1>1 DEF Range0
<1>3. \A i \in Range0(fun.k) : V(i)' = f[i] /\ Q(i)' = P[i]
  BY <1>2
<1>4. \A p \in Range0(fun.n) : G(p)' = given[p] /\ G(p) = given[p]
  BY <1>2
<1>5. \A p \in Range0(fun.n) : f[p] = G(P[p])
  BY <1>4
<1>6. \A p \in Range0(fun.n) : N(p) \in Int
  <2>1. fun.n \in Nat /\ fun.rows \in Nat /\ 0 \in Range0(fun.rows)
    BY <1>1 DEF Range0
  <2>2. \A p \in Range0(fun.n) : 0 * fun.n + P[p] \in Range0(fun.rows * fun.n)
    BY <2>1, CellOfRow
  <2>3. \A p \in Range0(fun.n) : f[p] \in Range0(Pow2[TotalBits])
    BY <1>5, <2>2 DEF Data
  <2> QED
    BY <2>3, NumberIsInt
<1>7. \A i, j \in Range0(fun.k) : Q(i)' = Q(j)' => i = j
  BY <1>2, <1>3
<1>8. \A i \in Range0(fun.k) : Q(i)' \in Range0(fun.n) /\ V(i)' = G(Q(i)')
  BY <1>2, <1>3, <1>5
<1>9. \A i \in 1 .. fun.k - 1 : Number(V(i - 1)') >= Number(V(i)')
  BY <1>2, <1>3
<1>10. ASSUME NEW p \in Range0(fun.n), \A i \in Range0(fun.k) : Q(i)' # p
       PROVE  Number(G(p)) <= Number(V(fun.k - 1)')
  <2>1. PICK q \in Range0(fun.n) : P[q] = p
    BY <1>1, InjectiveIsOnto
  <2>2. q \notin Range0(fun.k) /\ q \in Int
    BY <1>2, <1>3, <1>10, <2>1
  <2>3. fun.k - 1 \in Range0(fun.n) /\ fun.k - 1 < q
    BY <1>1, <2>2 DEF Range0
  <2>4. N(fun.k - 1) >= N(q) /\ N(fun.k - 1) \in Int /\ N(q) \in Int
    BY <1>6, <2>3
  <2>5. Number(G(p)) = N(q) /\ Number(V(fun.k - 1)') = N(fun.k - 1)
    BY <1>2, <1>3, <1>5, <2>1
  <2> QED
    BY <2>4, <2>5
<1> HIDE DEF N
<1> QED
  BY <1>4, <1>7, <1>8, <1>9, <1>10 DEF IsTopK, V, Q, G, Number, Negative

-----------------------------------------------------------------------------
(* The quicksort of one work item                                           *)

GpuOK ==
  gpu \in [keys : [1 .. 2 -> [Range0(fun.n) -> Nat]],
           places : [1 .. 2 -> [Range0(fun.n) -> Range0(fun.n)]], in : 1 .. 2,
           histo : [Range0(HistoSize) -> Int], sums : [Range0(Split) -> Int],
           local : [Range0(HistoSize) -> Int], first : Unset .. fun.n]

Nums == [p \in Range0(fun.n) |-> Number(input[p])]

\* Every element is one of those given, and the buffer of places says which.
Traced ==
  /\ \A p, q \in Range0(fun.n) : gpu.places[1][p] = gpu.places[1][q] => p = q
  /\ \A p \in Range0(fun.n) : input[p] = given[gpu.places[1][p]]

\* Out of order are only numbers of one range.
Partitioned(n, st, f) ==
  \A p, q \in Range0(n) : p < q /\ ~Joined(st, p, q) => f[p] >= f[q]

Partitioning(n, st, s, f) ==
  /\ s \in [l : Int, h : Int, i : Int, j : Int]
  /\ 0 <= s.l /\ s.h < n /\ s.l - 1 <= s.i /\ s.i < s.j /\ s.j <= s.h
  /\ Alone(st, s.l, s.h)
  /\ Apart(n, st, s.l, s.h, f)
  /\ Sifted(f, s.l, s.h, s.i, s.j)

SingleInv ==
  /\ at \in {"idle", "quicksort"}
  /\ GpuOK
  /\ at = "idle" => stack = <<>> /\ sort = <<>>
  /\ at = "quicksort" =>
       /\ input \in Data /\ Traced /\ StackOK(stack, fun.n)
       /\ sort = <<>> => Partitioned(fun.n, stack, Nums)
       /\ sort # <<>> => Partitioning(fun.n, stack, sort, Nums)

LEMMA RowInData ==
  ASSUME FunOK
  PROVE  fun.n \in Nat \ {0} /\ Range0(fun.n) \subseteq Range0(fun.rows * fun.n)
<1>1. fun.n \in Nat \ {0} /\ fun.rows \in Nat \ {0} /\ 0 \in Range0(fun.rows)
  BY DEF FunOK, Range0
<1>2. \A p \in Range0(fun.n) : 0 * fun.n + p = p
  BY <1>1 DEF Range0
<1>3. \A p \in Range0(fun.n) : 0 * fun.n + p \in Range0(fun.rows * fun.n)
  BY <1>1, CellOfRow
<1> QED
  BY <1>1, <1>2, <1>3

LEMMA NumsAreInts ==
  ASSUME FunOK, input \in Data
  PROVE  Nums \in [Range0(fun.n) -> Int]
BY RowInData, NumberIsInt DEF Nums, Data

\* What an exchange in the input and the places does.
LEMMA ExchangeKeeps ==
  ASSUME FunOK, GpuOK, input \in Data, Traced, UNCHANGED <<fun, given>>,
         NEW a \in Range0(fun.n), NEW b \in Range0(fun.n), input' = Exchange(input, a, b),
         gpu' = [gpu EXCEPT !.places[1] = Exchange(@, a, b)]
  PROVE  /\ GpuOK' /\ input' \in Data /\ Data' = Data /\ Traced'
         /\ Nums' = Exchange(Nums, a, b)
<1>1. /\ fun.n \in Nat \ {0} /\ Range0(fun.n) \subseteq Range0(fun.rows * fun.n)
      /\ a \in Range0(fun.rows * fun.n) /\ b \in Range0(fun.rows * fun.n)
  BY RowInData
<1>2. input' \in Data /\ Data' = Data
  BY <1>1 DEF Data, Exchange
<1>3. gpu.places[1] \in [Range0(fun.n) -> Range0(fun.n)]
  BY DEF GpuOK
<1>4. Exchange(gpu.places[1], a, b) \in [Range0(fun.n) -> Range0(fun.n)]
  BY <1>3 DEF Exchange
<1>5. gpu'.places[1] = Exchange(gpu.places[1], a, b)
  BY DEF GpuOK
<1>6. GpuOK'
  BY <1>4 DEF GpuOK, HistoSize, Split, Radix
<1> DEFINE P == gpu.places[1]
<1>7. P' \in [Range0(fun.n) -> Range0(fun.n)] /\ P'[a] = P[b] /\ P'[b] = P[a]
      /\ \A p \in Range0(fun.n) : p # a /\ p # b => P'[p] = P[p]
  BY <1>3, <1>4, <1>5 DEF Exchange
<1>8. input'[a] = input[b] /\ input'[b] = input[a]
      /\ \A p \in Range0(fun.n) : p # a /\ p # b => input'[p] = input[p]
  BY <1>1 DEF Data, Exchange
<1> HIDE DEF P
<1>9. /\ \A p, q \in Range0(fun.n) : P[p] = P[q] => p = q
      /\ \A p \in Range0(fun.n) : input[p] = given[P[p]]
  BY DEF Traced, P
<1>10. Traced'
  <2>1. \A p, q \in Range0(fun.n) : P'[p] = P'[q] => p = q
    BY <1>7, <1>9
  <2>2. \A p \in Range0(fun.n) : input'[p] = given[P'[p]]
    BY <1>7, <1>8, <1>9
  <2> QED
    BY <2>1, <2>2 DEF Traced, P
<1>11. Nums' = Exchange(Nums, a, b)
  <2>1. \A p \in Range0(fun.n) : Nums'[p] = Number(input'[p]) /\ Nums[p] = Number(input[p])
    BY DEF Nums, Number, Negative
  <2>2. \A p \in Range0(fun.n) : Exchange(Nums, a, b)[p]
          = IF p = b THEN Nums[a] ELSE IF p = a THEN Nums[b] ELSE Nums[p]
    BY DEF Exchange, Nums
  <2>3. \A p \in Range0(fun.n) : Nums'[p] = Exchange(Nums, a, b)[p]
    BY <1>8, <2>1, <2>2
  <2>4. Nums' = [p \in Range0(fun.n) |-> Number(input'[p])]
    BY DEF Nums, Number, Negative
  <2>5. Nums \in [Range0(fun.n) -> Int]
    BY NumsAreInts
  <2> HIDE DEF Nums
  <2>6. Exchange(Nums, a, b) = [p \in Range0(fun.n) |-> Exchange(Nums, a, b)[p]]
    BY <2>5 DEF Exchange
  <2> QED
    BY <2>1, <2>3, <2>4, <2>6
<1> QED
  BY <1>2, <1>6, <1>10, <1>11

LEMMA RunStartsSorting ==
  ASSUME FunOK, SingleInv, fun.mode = "GPU_SINGLE", Run
  PROVE  SingleInv'
<1>1. /\ at = "idle" /\ at' = "quicksort" /\ stack' = <<0, fun.n - 1>> /\ sort' = <<>>
      /\ fun' = fun /\ input' = given' /\ given' \in Data
      /\ gpu' = [gpu EXCEPT !.places[1] = [i \in DOMAIN @ |-> i]]
  BY InputsAssumption DEF Run, SingleInv, Data
<1>2. fun.n \in Nat \ {0} /\ Data' = Data
  BY <1>1 DEF FunOK, Data
<1> DEFINE P == [i \in Range0(fun.n) |-> i]
<1>3. P \in [Range0(fun.n) -> Range0(fun.n)] /\ \A p \in Range0(fun.n) : P[p] = p
  OBVIOUS
<1>4. GpuOK' /\ gpu'.places[1] = P
  <2>1. DOMAIN gpu.places[1] = Range0(fun.n)
    BY DEF SingleInv, GpuOK
  <2>2. gpu' = [gpu EXCEPT !.places[1] = P]
    BY <1>1, <2>1
  <2>3. P \in [Range0(fun.n) -> Range0(fun.n)] /\ GpuOK /\ fun' = fun
    BY <1>1, <1>3 DEF SingleInv
  <2> HIDE DEF P
  <2>4. gpu'.places[1] = P
    BY <2>2, <2>3 DEF GpuOK
  <2>5. GpuOK'
    BY <2>2, <2>3 DEF GpuOK, HistoSize, Split, Radix
  <2> QED
    BY <2>4, <2>5
<1>5. Traced'
  BY <1>1, <1>3, <1>4 DEF Traced
<1>6. stack' \in Seq(Int) /\ Len(stack') = 2 /\ stack'[1] = 0 /\ stack'[2] = fun.n - 1
  BY <1>1, <1>2
<1>7. Count(stack') = 1 /\ Len(stack') = 2 * Count(stack')
  <2>1. (2 * 1) \div 2 = 1
    BY Half
  <2> QED
    BY <1>6, <2>1 DEF Count
<1>8. \A m \in 1 .. 1, p \in Int : InRange(stack', m, p) <=> 0 <= p /\ p <= fun.n - 1
  BY <1>6 DEF InRange
<1>9. StackOK(stack', fun.n)
  BY <1>2, <1>6, <1>7, <1>8 DEF StackOK
<1>10. \A p, q \in Range0(fun.n) : Joined(stack', p, q)
  BY <1>2, <1>7, <1>8 DEF Joined, Range0
<1>11. Partitioned(fun.n, stack', Nums')
  BY <1>10 DEF Partitioned
<1> QED
  BY <1>1, <1>2, <1>4, <1>5, <1>9, <1>11 DEF SingleInv

LEMMA PopRangeKeeps ==
  ASSUME FunOK, SingleInv, PopRange
  PROVE  SingleInv'
<1>1. /\ at = "quicksort" /\ sort = <<>> /\ stack # <<>>
      /\ UNCHANGED <<fun, given, input, at, gpu>>
  BY DEF PopRange
<1>2. /\ GpuOK /\ input \in Data /\ Traced /\ StackOK(stack, fun.n)
      /\ Partitioned(fun.n, stack, Nums)
  BY <1>1 DEF SingleInv
<1>3. GpuOK' /\ Data' = Data /\ Traced' /\ Nums' = Nums
  BY <1>1, <1>2 DEF GpuOK, HistoSize, Split, Radix, Data, Traced, Nums, Number, Negative
<1> DEFINE l == stack[Len(stack) - 1]
           h == stack[Len(stack)]
           rest == SubSeq(stack, 1, Len(stack) - 2)
<1>4. sort' = [l |-> l, h |-> h, i |-> l - 1, j |-> l] /\ stack' = rest
  BY DEF PopRange
<1>5. fun.n \in Nat
  BY DEF FunOK
<1> HIDE DEF l, h, rest
<1>6. StackOK(rest, fun.n)
  BY <1>1, <1>2, <1>5, TopOfStack DEF l, h, rest
<1>7. l \in Int /\ h \in Int /\ 0 <= l /\ l <= h /\ h < fun.n
  BY <1>1, <1>2, <1>5, TopOfStack DEF l, h, rest
<1>8. Alone(rest, l, h) /\ Adds(stack, rest, l, h)
  BY <1>1, <1>2, <1>5, TopOfStack DEF l, h, rest
<1>9. Apart(fun.n, rest, l, h, Nums)
  BY <1>2, <1>8 DEF Apart, Partitioned, Adds, Range0
<1>10. Sifted(Nums, l, h, l - 1, l)
  BY <1>7 DEF Sifted
<1>11. /\ sort' \in [l : Int, h : Int, i : Int, j : Int] /\ sort'.l = l /\ sort'.h = h
       /\ sort'.i = l - 1 /\ sort'.j = l
  BY <1>4, <1>7
<1>12. Partitioning(fun.n, stack', sort', Nums')
  BY <1>3, <1>4, <1>7, <1>8, <1>9, <1>10, <1>11 DEF Partitioning
<1>13. sort' # <<>>
  BY <1>4
<1> QED
  BY <1>1, <1>2, <1>3, <1>4, <1>6, <1>12, <1>13 DEF SingleInv

LEMMA SiftKeeps ==
  ASSUME FunOK, SingleInv, UNCHANGED <<fun, given, at, stack>>, Sift
  PROVE  SingleInv'
<1> DEFINE l == sort.l
           h == sort.h
           i == sort.i
           j == sort.j
<1>1. at = "quicksort" /\ sort # <<>> /\ j < h
  BY DEF Sift
<1>2. /\ GpuOK /\ input \in Data /\ Traced /\ StackOK(stack, fun.n)
      /\ Partitioning(fun.n, stack, sort, Nums)
  BY <1>1 DEF SingleInv
<1>3. /\ sort \in [l : Int, h : Int, i : Int, j : Int]
      /\ l \in Int /\ h \in Int /\ i \in Int /\ j \in Int
      /\ 0 <= l /\ h < fun.n /\ l - 1 <= i /\ i < j /\ j <= h
      /\ Alone(stack, l, h) /\ Apart(fun.n, stack, l, h, Nums) /\ Sifted(Nums, l, h, i, j)
  BY <1>2 DEF Partitioning
<1>4. fun.n \in Nat /\ Nums \in [Range0(fun.n) -> Int]
  BY <1>2, NumsAreInts DEF FunOK
<1>0. sort = [l |-> l, h |-> h, i |-> i, j |-> j]
  BY <1>3
<1> HIDE DEF l, h, i, j
<1>5. /\ j \in Range0(fun.n) /\ h \in Range0(fun.n) /\ i + 1 \in Range0(fun.n)
      /\ i + 1 \in l .. h /\ j \in l .. h
  <2>1. /\ l \in Int /\ h \in Int /\ i \in Int /\ j \in Int /\ fun.n \in Nat
        /\ 0 <= l /\ h < fun.n /\ l - 1 <= i /\ i < j /\ j < h
    BY <1>1, <1>3, <1>4
  <2> QED
    BY ONLY <2>1 DEF Range0
<1>6. Nums[j] = Number(input[j]) /\ Nums[h] = Number(input[h])
  BY <1>5 DEF Nums
<1>7. CASE Nums[j] >= Nums[h]
  <2>1. /\ sort' = [sort EXCEPT !.i = @ + 1, !.j = @ + 1]
        /\ input' = Exchange(input, i + 1, j)
        /\ gpu' = [gpu EXCEPT !.places[1] = Exchange(@, i + 1, j)]
    BY <1>6, <1>7 DEF Sift, i, j, h
  <2>2. /\ GpuOK' /\ input' \in Data /\ Data' = Data /\ Traced'
        /\ Nums' = Exchange(Nums, i + 1, j)
    BY <1>2, <1>5, <2>1, ExchangeKeeps
  <2>3. Apart(fun.n, stack, l, h, Nums')
    BY <1>3, <1>4, <1>5, <2>2, ExchangeInside
  <2>4. Sifted(Nums', l, h, i + 1, j + 1)
    BY <1>1, <1>3, <1>4, <1>7, <2>2, SiftExchanges
  <2>5. sort' = [l |-> l, h |-> h, i |-> i + 1, j |-> j + 1]
    BY <1>0, <2>1
  <2>6. Partitioning(fun.n, stack, sort', Nums')
    BY <1>1, <1>3, <2>3, <2>4, <2>5 DEF Partitioning
  <2>7. sort' # <<>>
    BY <2>5
  <2> QED
    BY <1>1, <1>2, <2>2, <2>6, <2>7 DEF SingleInv
<1>8. CASE ~(Nums[j] >= Nums[h])
  <2>1. sort' = [sort EXCEPT !.j = @ + 1] /\ UNCHANGED <<input, gpu>>
    BY <1>6, <1>8 DEF Sift, j, h
  <2>2. GpuOK' /\ Data' = Data /\ Traced' /\ Nums' = Nums
    BY <1>2, <2>1 DEF GpuOK, HistoSize, Split, Radix, Data, Traced, Nums, Number, Negative
  <2>3. Sifted(Nums, l, h, i, j + 1)
    BY <1>1, <1>3, <1>4, <1>8, SiftLeaves
  <2>4. sort' = [l |-> l, h |-> h, i |-> i, j |-> j + 1]
    BY <1>0, <2>1
  <2>5. Partitioning(fun.n, stack, sort', Nums)
    BY <1>1, <1>3, <2>3, <2>4 DEF Partitioning
  <2>6. sort' # <<>>
    BY <2>4
  <2> QED
    BY <1>1, <1>2, <2>1, <2>2, <2>5, <2>6 DEF SingleInv
<1> QED
  BY <1>7, <1>8

LEMMA PushRangesKeeps ==
  ASSUME FunOK, SingleInv, UNCHANGED <<fun, given, at>>, PushRanges
  PROVE  SingleInv'
<1> DEFINE l == sort.l
           h == sort.h
           i == sort.i
           p == i + 1
<1>1. at = "quicksort" /\ sort # <<>> /\ sort.j = h /\ sort' = <<>>
  BY DEF PushRanges
<1>2. /\ GpuOK /\ input \in Data /\ Traced /\ StackOK(stack, fun.n)
      /\ Partitioning(fun.n, stack, sort, Nums)
  BY <1>1 DEF SingleInv
<1>3. /\ l \in Int /\ h \in Int /\ i \in Int
      /\ 0 <= l /\ h < fun.n /\ l - 1 <= i /\ i < h
      /\ Alone(stack, l, h) /\ Apart(fun.n, stack, l, h, Nums) /\ Sifted(Nums, l, h, i, h)
  BY <1>1, <1>2 DEF Partitioning
<1>4. fun.n \in Nat /\ Nums \in [Range0(fun.n) -> Int]
  BY <1>2, NumsAreInts DEF FunOK
<1> DEFINE t1 == IF p - 1 > l THEN <<l, p - 1>> ELSE <<>>
           t2 == IF p + 1 < h THEN <<p + 1, h>> ELSE <<>>
<1>5. /\ input' = Exchange(input, p, h)
      /\ gpu' = [gpu EXCEPT !.places[1] = Exchange(@, p, h)]
      /\ stack' = (stack \o t1) \o t2
  BY DEF PushRanges
<1> HIDE DEF l, h, i
<1>6. p \in Range0(fun.n) /\ h \in Range0(fun.n)
  BY <1>3, <1>4 DEF Range0
<1>7. /\ GpuOK' /\ input' \in Data /\ Data' = Data /\ Traced'
      /\ Nums' = Exchange(Nums, p, h)
  BY <1>2, <1>5, <1>6, ExchangeKeeps
<1> HIDE DEF p, t1, t2
<1>8. StackOK(stack', fun.n)
  BY <1>2, <1>3, <1>4, <1>5, <1>7, PivotSplits DEF p, t1, t2
<1>9. \A a, b \in Range0(fun.n) : a < b /\ ~Joined(stack', a, b) => Nums'[a] >= Nums'[b]
  BY <1>2, <1>3, <1>4, <1>5, <1>7, PivotSplits DEF p, t1, t2
<1>10. Partitioned(fun.n, stack', Nums')
  BY <1>9 DEF Partitioned
<1> QED
  BY <1>1, <1>7, <1>8, <1>10 DEF SingleInv

LEMMA ExtractKeeps ==
  ASSUME FunOK, OutputsOK, given \in Data, SingleInv, Extract
  PROVE  SingleInv' /\ OutputsOK' /\ at' = "idle" /\ IsTopK(0)'
<1>1. /\ at = "quicksort" /\ sort = <<>> /\ stack = <<>> /\ at' = "idle"
      /\ UNCHANGED <<fun, given, input, gpu, stack, sort>>
  BY DEF Extract
<1>2. GpuOK /\ input \in Data /\ Traced /\ Partitioned(fun.n, stack, Nums)
  BY <1>1 DEF SingleInv
<1>3. SingleInv'
  BY <1>1, <1>2 DEF SingleInv, GpuOK, HistoSize, Split, Radix
<1> DEFINE P == gpu.places[1]
<1>4. fun.n \in Nat \ {0} /\ fun.k \in Nat \ {0} /\ fun.rows \in Nat \ {0} /\ fun.k <= fun.n
  BY DEF FunOK
<1>5. P \in [Range0(fun.n) -> Range0(fun.n)] /\ \A p, q \in Range0(fun.n) : P[p] = P[q] => p = q
  BY <1>2 DEF GpuOK, Traced
<1>6. \A p \in Range0(fun.n) : input[p] = given[P[p]]
  BY <1>2 DEF Traced
<1>7. \A p, q \in Range0(fun.n) : p < q => Number(input[p]) >= Number(input[q])
  <2>1. \A p, q : ~Joined(stack, p, q)
    BY <1>1 DEF Joined, Count
  <2> QED
    BY <1>2, <2>1 DEF Partitioned, Nums
<1>8. DOMAIN values = Range0(fun.k * fun.rows) /\ DOMAIN indices = Range0(fun.k * fun.rows)
  BY DEF OutputsOK
<1>9. \A i \in Range0(fun.k) : i \in Range0(fun.k * fun.rows) /\ i < fun.k
  <2>1. 0 \in Range0(fun.rows)
    BY <1>4 DEF Range0
  <2>2. \A i \in Range0(fun.k) : 0 * fun.k + i \in Range0(fun.k * fun.rows)
    BY <1>4, <2>1, CellOfRow
  <2> QED
    BY <1>4, <2>2 DEF Range0
<1>10. \A i \in Range0(fun.k) : values'[i] = input[i] /\ indices'[i] = P[i]
  BY <1>8, <1>9 DEF Extract
<1>11. OutputsOK'
  BY <1>1, <1>8 DEF Extract, OutputsOK
<1> HIDE DEF P
<1>12. IsTopK(0)'
  BY <1>1, <1>5, <1>6, <1>7, <1>10, SortedIsTopK
<1> QED
  BY <1>1, <1>3, <1>11, <1>12

-----------------------------------------------------------------------------
(* How often two divides a number                                           *)

Twos(m) == CHOOSE x \in Nat : \E a \in Nat : m = Pow2[x] * (2 * a + 1)

LEMMA OddPart ==
  ASSUME NEW m \in Nat \ {0}
  PROVE  \E x \in Nat, a \in Nat : m = Pow2[x] * (2 * a + 1)
<1> DEFINE S == {k \in Nat \ {0} : ~\E x \in Nat, a \in Nat : k = Pow2[x] * (2 * a + 1)}
<1> SUFFICES ASSUME S # {}
             PROVE  FALSE
  OBVIOUS
<1>1. PICK k \in S : \A j \in S : k <= j
  <2>1. S \in SUBSET Nat
    OBVIOUS
  <2> HIDE DEF S
  <2> QED
    BY <2>1, Least
<1>2. k \in Nat \ {0} /\ ~\E x \in Nat, a \in Nat : k = Pow2[x] * (2 * a + 1)
  BY <1>1
<1>3. PICK b \in Nat : k = 2 * b \/ k = 2 * b + 1
  <2>1. k \div 2 \in Nat /\ (k = 2 * (k \div 2) \/ k = 2 * (k \div 2) + 1)
    BY <1>2
  <2> QED
    BY <2>1
<1>4. CASE k = 2 * b + 1
  <2>1. k = Pow2[0] * (2 * b + 1)
    BY <1>4, Pow2Def
  <2> QED
    BY <1>2, <2>1
<1>5. CASE k = 2 * b
  <2>1. b \in Nat \ {0} /\ b < k
    BY <1>2, <1>5
  <2>2. PICK x \in Nat, a \in Nat : b = Pow2[x] * (2 * a + 1)
    BY <1>1, <2>1
  <2>3. Pow2[x + 1] = 2 * Pow2[x] /\ Pow2[x] \in Nat /\ x + 1 \in Nat
    BY Pow2Def
  <2>4. k = Pow2[x + 1] * (2 * a + 1)
    BY <1>5, <2>2, <2>3
  <2> QED
    BY <1>2, <2>3, <2>4
<1> QED
  BY <1>3, <1>4, <1>5

LEMMA TwosOf ==
  ASSUME NEW x \in Nat, NEW a \in Nat, NEW m, m = Pow2[x] * (2 * a + 1)
  PROVE  Twos(m) = x
<1>1. ASSUME NEW i \in Nat, NEW j \in Nat, NEW b \in Nat, NEW c \in Nat, i < j
      PROVE  Pow2[i] * (2 * b + 1) # Pow2[j] * (2 * c + 1)
  <2>1. PICK u \in Nat \ {0} : Pow2[j] = Pow2[i] * (2 * u)
    BY <1>1, Pow2Divides
  <2> DEFINE P == Pow2[i]
             w == u * (2 * c + 1)
  <2>2. P \in Nat \ {0} /\ w \in Nat
    BY Pow2Positive
  <2>3. Pow2[j] * (2 * c + 1) = P * (2 * w)
    BY <2>1, <2>2
  <2> HIDE DEF P, w
  <2>4. 2 * b + 1 # 2 * w
    BY <2>2
  <2>5. P * (2 * b + 1) # P * (2 * w)
    BY <2>2, <2>4
  <2> QED
    BY <2>3, <2>5 DEF P
<1>2. \A y \in Nat, b \in Nat : m = Pow2[y] * (2 * b + 1) => y = x
  BY <1>1
<1> QED
  BY <1>2 DEF Twos

LEMMA TwosType ==
  ASSUME NEW m \in Nat \ {0}
  PROVE  Twos(m) \in Nat /\ \E a \in Nat : m = Pow2[Twos(m)] * (2 * a + 1)
BY OddPart DEF Twos

LEMMA TwosAtLeast ==
  ASSUME NEW m \in Nat \ {0}, NEW y \in Nat
  PROVE  Twos(m) >= y <=> \E b \in Nat \ {0} : m = Pow2[y] * b
<1>1. ASSUME Twos(m) >= y
      PROVE  \E b \in Nat \ {0} : m = Pow2[y] * b
  <2>1. PICK a \in Nat : m = Pow2[Twos(m)] * (2 * a + 1)
    BY TwosType
  <2>2. CASE Twos(m) = y
    BY <2>1, <2>2
  <2>3. CASE y < Twos(m)
    <3>1. PICK c \in Nat \ {0} : Pow2[Twos(m)] = Pow2[y] * (2 * c)
      BY <2>3, TwosType, Pow2Divides
    <3> DEFINE w == (2 * c) * (2 * a + 1)
               P == Pow2[y]
    <3>2. P \in Nat /\ w \in Nat \ {0}
      BY Pow2Positive
    <3>3. m = P * w
      BY <2>1, <3>1, <3>2
    <3> QED
      BY <3>2, <3>3
  <2> QED
    BY <1>1, <2>2, <2>3, TwosType
<1>2. ASSUME NEW b \in Nat \ {0}, m = Pow2[y] * b
      PROVE  Twos(m) >= y
  <2>1. PICK u \in Nat, a \in Nat : b = Pow2[u] * (2 * a + 1)
    BY OddPart
  <2>2. Pow2[y + u] = Pow2[y] * Pow2[u] /\ Pow2[y] \in Nat /\ Pow2[u] \in Nat /\ y + u \in Nat
    <3>1. Pow2[y] \in Nat /\ Pow2[u] \in Nat
      BY Pow2Positive
    <3> QED
      BY <3>1, Pow2Sum
  <2>3. m = Pow2[y + u] * (2 * a + 1)
    BY <1>2, <2>1, <2>2
  <2>4. Twos(m) = y + u
    BY <2>2, <2>3, TwosOf
  <2> QED
    BY <2>4
<1> QED
  BY <1>1, <1>2

LEMMA TwosBound ==
  ASSUME NEW lv \in Nat, NEW m \in 1 .. Pow2[lv]
  PROVE  Twos(m) \in 0 .. lv /\ (Twos(m) = lv => m = Pow2[lv])
<1>1. Pow2[lv] \in Nat \ {0} /\ m \in Nat \ {0} /\ Twos(m) \in Nat
  BY Pow2Positive, TwosType
<1>2. CASE Twos(m) >= lv
  <2>1. PICK b \in Nat \ {0} : m = Pow2[lv] * b
    BY <1>1, <1>2, TwosAtLeast
  <2> DEFINE P == Pow2[lv]
  <2>2. m = P * b /\ m <= P /\ P \in Nat \ {0}
    BY <1>1, <2>1
  <2> HIDE DEF P
  <2>3. b = 1
    <3> SUFFICES ASSUME b # 1 PROVE FALSE
      OBVIOUS
    <3> DEFINE e == b - 2
    <3>1. e \in Nat /\ b = 2 + e
      OBVIOUS
    <3> HIDE DEF e
    <3>2. P * b = 2 * P + P * e /\ P * e \in Nat
      BY <2>2, <3>1
    <3> QED
      BY <2>2, <3>2
  <2>4. m = Pow2[lv] * 1 /\ m = Pow2[lv]
    BY <2>2, <2>3 DEF P
  <2>5. Twos(m) = lv
    <3>1. m = Pow2[lv] * (2 * 0 + 1)
      BY <1>1, <2>4
    <3> QED
      BY <3>1, TwosOf
  <2> QED
    BY <2>4, <2>5
<1>3. CASE ~(Twos(m) >= lv)
  BY <1>1, <1>3
<1> QED
  BY <1>2, <1>3

-----------------------------------------------------------------------------
(* The parallel prefix sum of one group                                     *)

\* There are 2^lv cells, and T[c] is the sum of what the cells before c held.
\* A cell after t segments: the sum over as many cells up to it as two divides
\* its number, and on the way down the sum of all cells before those.
ScanValue(lv, T, t, c) ==
  LET v == Twos(c + 1)
      down == 2 * lv + 1 - t
  IN  IF t <= lv THEN T[c + 1] - T[c + 1 - Pow2[IF v < t - 1 THEN v ELSE t - 1]]
      ELSE IF v >= down THEN T[c + 1 - Pow2[down]]
      ELSE T[c + 1] - T[c + 1 - Pow2[v]]

\* In segment t an item works on two cells that are 2^ScanLevel apart.
ScanLevel(lv, t) ==
  IF t \in 1 .. lv THEN t - 1 ELSE IF t \in lv + 1 .. 2 * lv THEN 2 * lv - t ELSE 0
Owns(lv, t, it, c) ==
  \/ c + 1 = Pow2[ScanLevel(lv, t)] * (2 * it + 1)
  \/ c + 1 = Pow2[ScanLevel(lv, t)] * (2 * it + 2)

\* Some items have left segment t, the others are about to enter it.
Turned(lv, t, k, c) == \E it \in Range0(Pow2[lv - 1]) : Owns(lv, t, it, c) /\ k[it] = t + 1
ScanNow(lv, T, t, k, d) ==
  /\ \A it \in Range0(Pow2[lv - 1]) : k[it] \in {t, t + 1}
  /\ \A c \in Range0(Pow2[lv]) :
       /\ Turned(lv, t, k, c) => d[c] = ScanValue(lv, T, t + 1, c)
       /\ t > 0 /\ ~Turned(lv, t, k, c) => d[c] = ScanValue(lv, T, t, c)

LEMMA ScanLevelType ==
  ASSUME NEW lv \in Nat \ {0}, NEW t \in 0 .. 2 * lv
  PROVE  ScanLevel(lv, t) \in Range0(lv) /\ Pow2[ScanLevel(lv, t)] \in Nat \ {0}
<1>1. ScanLevel(lv, t) \in Range0(lv) /\ ScanLevel(lv, t) \in Nat
  BY DEF ScanLevel, Range0
<1> QED
  BY <1>1, Pow2Positive

LEMMA OneOwner ==
  ASSUME NEW lv \in Nat \ {0}, NEW t \in 0 .. 2 * lv, NEW it \in Nat, NEW it2 \in Nat,
         NEW c, Owns(lv, t, it, c), Owns(lv, t, it2, c)
  PROVE  it = it2
<1> DEFINE P == Pow2[ScanLevel(lv, t)]
<1>1. P \in Nat \ {0}
  BY ScanLevelType
<1> HIDE DEF P
<1>2. PICK m \in {2 * it + 1, 2 * it + 2} : c + 1 = P * m
  BY DEF Owns, P
<1>3. PICK m2 \in {2 * it2 + 1, 2 * it2 + 2} : c + 1 = P * m2
  BY DEF Owns, P
<1>4. m = m2
  BY <1>1, <1>2, <1>3
<1> QED
  BY <1>4

\* A cell that two divides often enough has an owner.
LEMMA OwnerExists ==
  ASSUME NEW lv \in Nat \ {0}, NEW t \in 0 .. 2 * lv, NEW c \in Range0(Pow2[lv]),
         Twos(c + 1) >= ScanLevel(lv, t)
  PROVE  \E it \in Range0(Pow2[lv - 1]) : Owns(lv, t, it, c)
<1> DEFINE y == ScanLevel(lv, t)
           P == Pow2[y]
           H == Pow2[lv - 1]
<1>1. y \in Nat /\ P \in Nat \ {0} /\ H \in Nat \ {0} /\ Pow2[lv] = 2 * H
  <2>1. lv - 1 \in Nat /\ lv = (lv - 1) + 1
    OBVIOUS
  <2> QED
    BY <2>1, ScanLevelType, Pow2Positive, Pow2Def DEF Range0
<1>2. c + 1 \in Nat \ {0} /\ c + 1 <= 2 * H
  BY <1>1 DEF Range0
<1>3. PICK b \in Nat \ {0} : c + 1 = P * b
  BY <1>1, <1>2, TwosAtLeast
<1> HIDE DEF P, H, y
<1> DEFINE it == (b - 1) \div 2
<1>4. it \in Nat /\ (b = 2 * it + 1 \/ b = 2 * it + 2)
  OBVIOUS
<1>5. b <= P * b
  <2>1. P * b = b + (P - 1) * b /\ P - 1 \in Nat
    BY <1>1
  <2>2. (P - 1) * b \in Nat
    BY <2>1
  <2> QED
    BY <1>1, <2>1, <2>2
<1>6. it \in Range0(H)
  <2>1. b <= 2 * H
    BY <1>1, <1>2, <1>3, <1>5
  <2> HIDE DEF it
  <2> QED
    BY <1>1, <1>4, <2>1 DEF Range0
<1> HIDE DEF it
<1>7. Owns(lv, t, it, c)
  BY <1>3, <1>4 DEF Owns, P, y
<1> QED
  BY <1>6, <1>7 DEF H

\* A cell that no item owns keeps its value.
LEMMA ScanValueStays ==
  ASSUME NEW lv \in Nat \ {0}, NEW T, NEW t \in 1 .. 2 * lv, NEW c \in Nat,
         Twos(c + 1) < ScanLevel(lv, t)
  PROVE  ScanValue(lv, T, t + 1, c) = ScanValue(lv, T, t, c)
<1> DEFINE v == Twos(c + 1)
<1>1. v \in Nat
  BY TwosType
<1> HIDE DEF v
<1>2. CASE t < lv
  <2>1. v < t - 1 /\ v < (t + 1) - 1 /\ t <= lv /\ t + 1 <= lv
    BY <1>1, <1>2 DEF ScanLevel, v
  <2> QED
    BY <2>1 DEF ScanValue, v
<1>3. CASE t = lv
  <2>1. v < t - 1 /\ ~(t + 1 <= lv) /\ ~(v >= 2 * lv + 1 - (t + 1))
    BY <1>1, <1>3 DEF ScanLevel, v
  <2> QED
    BY <1>3, <2>1 DEF ScanValue, v
<1>4. CASE t > lv
  <2>1. /\ ~(t <= lv) /\ ~(t + 1 <= lv) /\ ~(v >= 2 * lv + 1 - (t + 1))
        /\ ~(v >= 2 * lv + 1 - t)
    BY <1>1, <1>4 DEF ScanLevel, v
  <2> QED
    BY <2>1 DEF ScanValue, v
<1> QED
  BY <1>2, <1>3, <1>4

\* When all have left a segment the next one can begin.
LEMMA ScanTurns ==
  ASSUME NEW lv \in Nat \ {0}, NEW T, NEW t \in 0 .. 2 * lv, NEW k, NEW d,
         ScanNow(lv, T, t, k, d), \A it \in Range0(Pow2[lv - 1]) : k[it] = t + 1
  PROVE  \A c \in Range0(Pow2[lv]) : d[c] = ScanValue(lv, T, t + 1, c)
<1> SUFFICES ASSUME NEW c \in Range0(Pow2[lv])
             PROVE  d[c] = ScanValue(lv, T, t + 1, c)
  OBVIOUS
<1>1. c \in Nat /\ Twos(c + 1) \in Nat /\ ScanLevel(lv, t) \in Nat
  <2>1. Pow2[lv] \in Nat
    BY Pow2Positive
  <2>2. c \in Nat /\ c + 1 \in Nat \ {0}
    BY <2>1 DEF Range0
  <2> QED
    BY <2>2, TwosType, ScanLevelType DEF Range0
<1>2. CASE Twos(c + 1) >= ScanLevel(lv, t)
  <2>1. Turned(lv, t, k, c)
    BY <1>2, OwnerExists DEF Turned
  <2> QED
    BY <2>1 DEF ScanNow
<1>3. CASE Twos(c + 1) < ScanLevel(lv, t)
  <2>1. t \in 1 .. 2 * lv
    BY <1>1, <1>3 DEF ScanLevel
  <2>2. ScanValue(lv, T, t + 1, c) = ScanValue(lv, T, t, c)
    BY <1>1, <1>3, <2>1, ScanValueStays
  <2> QED
    BY <2>1, <2>2 DEF ScanNow
<1> QED
  BY <1>1, <1>2, <1>3

\* What an item finds in its cells.
LEMMA OwnCells ==
  ASSUME NEW lv \in Nat \ {0}, NEW T, NEW t \in 1 .. 2 * lv, NEW k, NEW d,
         ScanNow(lv, T, t, k, d), NEW it \in Range0(Pow2[lv - 1]), k[it] = t,
         NEW c \in Range0(Pow2[lv]), Owns(lv, t, it, c)
  PROVE  d[c] = ScanValue(lv, T, t, c)
<1>1. Range0(Pow2[lv - 1]) \subseteq Nat
  <2>1. Pow2[lv - 1] \in Nat
    BY Pow2Positive
  <2> QED
    BY <2>1 DEF Range0
<1>2. ~Turned(lv, t, k, c)
  <2> SUFFICES ASSUME NEW it2 \in Range0(Pow2[lv - 1]), Owns(lv, t, it2, c), k[it2] = t + 1
               PROVE  FALSE
    BY DEF Turned
  <2>1. it2 = it
    BY <1>1, OneOwner
  <2> QED
    BY <2>1
<1> QED
  BY <1>2 DEF ScanNow

\* An item leaves its segment.
Moves(lv, T, t, it, k, d, k2, d2) ==
  /\ lv \in Nat \ {0} /\ t \in 0 .. 2 * lv /\ it \in Range0(Pow2[lv - 1])
  /\ k[it] = t /\ k2[it] = t + 1
  /\ \A j \in Range0(Pow2[lv - 1]) : j # it => k2[j] = k[j]
  /\ \A c \in Range0(Pow2[lv]) :
       IF Owns(lv, t, it, c) THEN d2[c] = ScanValue(lv, T, t + 1, c) ELSE d2[c] = d[c]

LEMMA ScanMoves ==
  ASSUME NEW lv, NEW T, NEW t, NEW it, NEW k, NEW d, NEW k2, NEW d2,
         ScanNow(lv, T, t, k, d), Moves(lv, T, t, it, k, d, k2, d2)
  PROVE  ScanNow(lv, T, t, k2, d2)
<1>3. /\ lv \in Nat \ {0} /\ t \in 0 .. 2 * lv /\ it \in Range0(Pow2[lv - 1])
      /\ k[it] = t /\ k2[it] = t + 1
      /\ \A j \in Range0(Pow2[lv - 1]) : j # it => k2[j] = k[j]
  BY DEF Moves
<1>0. Range0(Pow2[lv - 1]) \subseteq Nat
  <2>1. Pow2[lv - 1] \in Nat
    BY <1>3, Pow2Positive
  <2> QED
    BY <2>1 DEF Range0
<1>1. \A j \in Range0(Pow2[lv - 1]) : k2[j] \in {t, t + 1}
  BY <1>3 DEF ScanNow
<1>2. ASSUME NEW c \in Range0(Pow2[lv])
      PROVE  /\ Turned(lv, t, k2, c) => d2[c] = ScanValue(lv, T, t + 1, c)
             /\ t > 0 /\ ~Turned(lv, t, k2, c) => d2[c] = ScanValue(lv, T, t, c)
  <2>1. CASE Owns(lv, t, it, c)
    <3>1. Turned(lv, t, k2, c)
      BY <1>3, <2>1 DEF Turned
    <3> QED
      BY <2>1, <3>1 DEF Moves
  <2>2. CASE ~Owns(lv, t, it, c)
    <3>1. Turned(lv, t, k2, c) <=> Turned(lv, t, k, c)
      BY <1>3, <2>2 DEF Turned
    <3> QED
      BY <2>2, <3>1 DEF ScanNow, Moves
  <2> QED
    BY <2>1, <2>2
<1> QED
  BY <1>1, <1>2 DEF ScanNow

\* The next segment begins where all have left the one before.
LEMMA ScanBegins ==
  ASSUME NEW lv, NEW T, NEW t \in Nat, NEW k, NEW d,
         \A it \in Range0(Pow2[lv - 1]) : k[it] = t,
         \A c \in Range0(Pow2[lv]) : t > 0 => d[c] = ScanValue(lv, T, t, c)
  PROVE  ScanNow(lv, T, t, k, d)
<1>1. \A c : ~Turned(lv, t, k, c)
  BY DEF Turned
<1> QED
  BY <1>1 DEF ScanNow

\* Two cells of an item, and how often two divides their numbers.
Apart2(P, low, high) ==
  low \in Nat /\ high \in Nat /\ P \in Nat /\ high = low + P /\ low + 1 - P \in Nat
AtLevel(y, low, high) ==
  Twos(low + 1) = y /\ Twos(high + 1) \in Nat /\ Twos(high + 1) >= y + 1

\* How often two divides the number of the cells of an item.
LEMMA TwosOfItem ==
  ASSUME NEW y \in Nat, NEW it \in Nat
  PROVE  Twos(Pow2[y] * (2 * it + 1)) = y /\ Twos(Pow2[y] * (2 * it + 2)) >= y + 1
<1>1. Twos(Pow2[y] * (2 * it + 1)) = y
  BY TwosOf
<1>2. Pow2[y] \in Nat \ {0} /\ Pow2[y + 1] = 2 * Pow2[y]
  BY Pow2Positive, Pow2Def
<1>3. Pow2[y] * (2 * it + 2) = Pow2[y + 1] * (it + 1) /\ Pow2[y] * (2 * it + 2) \in Nat \ {0}
  <2> DEFINE P == Pow2[y]
  <2>1. P \in Nat \ {0}
    BY <1>2
  <2>2. P * (2 * it + 2) = (2 * P) * (it + 1)
    BY <2>1
  <2>3. P * (2 * it + 2) = 2 * P + P * (2 * it) /\ P * (2 * it) \in Nat
    BY <2>1
  <2> QED
    BY <1>2, <2>1, <2>2, <2>3
<1>4. Twos(Pow2[y] * (2 * it + 2)) >= y + 1
  BY <1>3, TwosAtLeast
<1> QED
  BY <1>1, <1>4

\* Where the cells of an item are.
LEMMA CellsOfItem ==
  ASSUME NEW lv \in Nat \ {0}, NEW t \in 0 .. 2 * lv, NEW it \in Range0(Pow2[lv - 1]),
         NEW P, P = Pow2[ScanLevel(lv, t)], NEW low, low = P * (2 * it + 1) - 1,
         NEW high, high = P * (2 * it + 2) - 1
  PROVE  /\ it \in Nat /\ P \in Nat \ {0} /\ low \in Nat /\ high \in Nat /\ low < high
         /\ it * 2 * P < Pow2[lv] => low \in Range0(Pow2[lv]) /\ high \in Range0(Pow2[lv])
         /\ ~(it * 2 * P < Pow2[lv]) => low \notin Range0(Pow2[lv]) /\ high \notin Range0(Pow2[lv])
         /\ \A c \in Int : Owns(lv, t, it, c) <=> c = low \/ c = high
         /\ Apart2(P, low, high) /\ AtLevel(ScanLevel(lv, t), low, high)
<1> DEFINE y == ScanLevel(lv, t)
<1>1. y \in Nat /\ y < lv /\ P \in Nat \ {0} /\ Pow2[lv] \in Nat /\ it \in Nat
  <2>1. Pow2[lv - 1] \in Nat /\ Pow2[lv] \in Nat
    BY Pow2Positive
  <2> QED
    BY <2>1, ScanLevelType DEF Range0
<1>2. P * (2 * it + 1) = it * 2 * P + P /\ P * (2 * it + 2) = it * 2 * P + 2 * P
      /\ it * 2 * P \in Nat
  BY <1>1
<1>3. PICK w \in Nat \ {0} : Pow2[lv] = P * (2 * w)
  BY <1>1, Pow2Divides
<1>4. /\ it < w => it * 2 * P + 2 * P <= P * (2 * w)
      /\ ~(it < w) => it * 2 * P >= P * (2 * w)
  <2>1. CASE it < w
    <3> DEFINE e == w - it - 1
    <3>1. e \in Nat /\ w = it + 1 + e
      BY <1>1, <2>1
    <3> HIDE DEF e
    <3>2. P * (2 * w) = it * 2 * P + 2 * P + P * (2 * e) /\ P * (2 * e) \in Nat
      BY <1>1, <3>1
    <3>3. it * 2 * P + 2 * P \in Nat
      BY <1>1, <1>2
    <3>4. it * 2 * P + 2 * P <= P * (2 * w)
      BY <3>2, <3>3
    <3> QED
      BY <2>1, <3>4
  <2>2. CASE ~(it < w)
    <3> DEFINE e == it - w
    <3>1. e \in Nat /\ it = w + e
      BY <1>1, <2>2
    <3> HIDE DEF e
    <3>2. it * 2 * P = P * (2 * w) + P * (2 * e) /\ P * (2 * e) \in Nat /\ P * (2 * w) \in Nat
      BY <1>1, <3>1
    <3> QED
      BY <1>2, <2>2, <3>2
  <2> QED
    BY <2>1, <2>2
<1> DEFINE A == it * 2 * P
<1>5. /\ A \in Nat /\ low = A + P - 1 /\ high = A + 2 * P - 1
      /\ (A + 2 * P <= Pow2[lv] \/ A >= Pow2[lv])
  BY <1>1, <1>2, <1>3, <1>4
<1>6. \A c \in Int : Owns(lv, t, it, c) <=> c + 1 = A + P \/ c + 1 = A + 2 * P
  BY <1>2 DEF Owns
<1> HIDE DEF A
<1>7. \A c \in Int : Owns(lv, t, it, c) <=> c = low \/ c = high
  BY <1>1, <1>5, <1>6
<1>8. /\ low \in Nat /\ high \in Nat /\ low < high
      /\ A < Pow2[lv] => low \in Range0(Pow2[lv]) /\ high \in Range0(Pow2[lv])
      /\ ~(A < Pow2[lv]) => low \notin Range0(Pow2[lv]) /\ high \notin Range0(Pow2[lv])
  BY <1>1, <1>5 DEF Range0
<1>9. high = low + P /\ low + 1 - P \in Nat /\ high + 1 \in Nat \ {0}
  BY ONLY <1>1, <1>5
<1>10. low + 1 = P * (2 * it + 1) /\ high + 1 = P * (2 * it + 2)
  BY <1>1, <1>2
<1> HIDE DEF y
<1>11. Twos(low + 1) = y /\ Twos(high + 1) >= y + 1 /\ Twos(high + 1) \in Nat
  <2>1. P = Pow2[y]
    BY DEF y
  <2> QED
    BY <1>1, <1>9, <1>10, <2>1, TwosOfItem, TwosType
<1> QED
  BY <1>1, <1>7, <1>8, <1>9, <1>11 DEF A, y, Apart2, AtLevel

\* The first segment loads the cells.
LEMMA ScanLoads ==
  ASSUME NEW lv \in Nat \ {0}, NEW T, NEW c \in Nat
  PROVE  ScanValue(lv, T, 1, c) = T[c + 1] - T[c]
<1>1. Twos(c + 1) \in Nat
  BY TwosType
<1>2. ~(Twos(c + 1) < 0) /\ 1 <= lv
  BY <1>1
<1>3. 1 - 1 = 0 /\ Pow2[0] = 1 /\ c + 1 - 1 = c
  BY Pow2Def
<1> QED
  BY <1>1, <1>2, <1>3 DEF ScanValue

\* The values on the way up, and on the way down.
Rising(lv, t, e) ==
  lv \in Nat /\ t \in Nat /\ e \in Nat /\ t <= lv /\ e < t /\ t <= e + 1
Falling(lv, t, e) ==
  lv \in Nat /\ t \in Nat /\ e \in Nat /\ t > lv /\ e + t = 2 * lv + 1
Even(c, e) == Twos(c + 1) \in Nat /\ Twos(c + 1) >= e
Odd(c, e) == Twos(c + 1) \in Nat /\ Twos(c + 1) < e

LEMMA ScanRising ==
  ASSUME NEW lv, NEW T, NEW t, NEW e, NEW c, Rising(lv, t, e), Even(c, e)
  PROVE  ScanValue(lv, T, t, c) = T[c + 1] - T[c + 1 - Pow2[e]]
<1>1. e = t - 1 /\ ~(Twos(c + 1) < t - 1) /\ t <= lv
  BY DEF Rising, Even
<1> QED
  BY <1>1 DEF ScanValue

LEMMA ScanRisen ==
  ASSUME NEW lv, NEW T, NEW t, NEW e, NEW c, Rising(lv, t, e), Odd(c, e)
  PROVE  ScanValue(lv, T, t, c) = T[c + 1] - T[c + 1 - Pow2[Twos(c + 1)]]
<1>1. Twos(c + 1) < t - 1 /\ t <= lv
  BY DEF Rising, Odd
<1> QED
  BY <1>1 DEF ScanValue

LEMMA ScanTurnedDown ==
  ASSUME NEW lv, NEW T, NEW t, NEW e, NEW c, Falling(lv, t, e), Even(c, e)
  PROVE  ScanValue(lv, T, t, c) = T[c + 1 - Pow2[e]]
<1>1. e = 2 * lv + 1 - t /\ Twos(c + 1) >= e /\ ~(t <= lv)
  BY DEF Falling, Even
<1> QED
  BY <1>1 DEF ScanValue

LEMMA ScanSummed ==
  ASSUME NEW lv, NEW T, NEW t, NEW e, NEW c, Falling(lv, t, e), Odd(c, e)
  PROVE  ScanValue(lv, T, t, c) = T[c + 1] - T[c + 1 - Pow2[Twos(c + 1)]]
<1>1. e = 2 * lv + 1 - t /\ ~(Twos(c + 1) >= e) /\ ~(t <= lv)
  BY DEF Falling, Odd
<1> QED
  BY <1>1 DEF ScanValue

LEMMA CellsApart ==
  ASSUME NEW P, NEW low, NEW high, NEW size \in Nat, Apart2(P, low, high), high < size
  PROVE  /\ low \in Nat /\ high \in Nat /\ P \in Nat
         /\ low + 1 \in 0 .. size /\ low + 1 - P \in 0 .. size /\ high + 1 \in 0 .. size
         /\ high + 1 - P = low + 1 /\ high + 1 - 2 * P = low + 1 - P
BY DEF Apart2

\* What holds of the cells low and high of an item in segment t, at level y.
CellsAt(lv, size, T, t, y, P, low, high) ==
  /\ lv \in Nat /\ size \in Nat /\ T \in [0 .. size -> Int] /\ y \in Range0(lv) /\ t \in Nat
  /\ P = Pow2[y] /\ Pow2[y + 1] = 2 * P /\ size = Pow2[lv]
  /\ Apart2(P, low, high) /\ high < size /\ AtLevel(y, low, high)
Rises(lv, size, T, t, low, high) ==
  /\ ScanValue(lv, T, t + 1, low) = ScanValue(lv, T, t, low)
  /\ t < lv => ScanValue(lv, T, t + 1, high)
                 = ScanValue(lv, T, t, high) + ScanValue(lv, T, t, low)
  /\ t = lv => /\ high = size - 1 /\ ScanValue(lv, T, t + 1, high) = T[0]
               /\ ScanValue(lv, T, t, high) + ScanValue(lv, T, t, low) = T[size] - T[0]
Falls(lv, T, t, low, high) ==
  /\ ScanValue(lv, T, t + 1, low) = ScanValue(lv, T, t, high)
  /\ ScanValue(lv, T, t + 1, high) = ScanValue(lv, T, t, high) + ScanValue(lv, T, t, low)

\* What the two cells of an item become on the way up, at the level of y.
LEMMA ScanUp ==
  ASSUME NEW lv, NEW size, NEW T, NEW t, NEW y, NEW P, NEW low, NEW high,
         CellsAt(lv, size, T, t, y, P, low, high), y + 1 = t
  PROVE  Rises(lv, size, T, t, low, high)
<1>00. /\ lv \in Nat /\ size \in Nat /\ T \in [0 .. size -> Int] /\ y \in Range0(lv) /\ t \in Nat
       /\ P = Pow2[y] /\ Pow2[y + 1] = 2 * P /\ size = Pow2[lv]
       /\ Apart2(P, low, high) /\ high < size /\ AtLevel(y, low, high) /\ y + 1 = t
  BY DEF CellsAt
<1> DEFINE a == T[low + 1 - P]
           b == T[low + 1]
           c == T[high + 1]
           u == t + 1
           z == y + 1
<1>0. low \in Nat /\ high \in Nat /\ P \in Nat
  BY ONLY <1>00, CellsApart
<1>1. low + 1 \in 0 .. size /\ low + 1 - P \in 0 .. size /\ high + 1 \in 0 .. size
  BY ONLY <1>00, CellsApart
<1>2. high + 1 - P = low + 1 /\ high + 1 - 2 * P = low + 1 - P
  BY ONLY <1>00, CellsApart
<1>3. a \in Int /\ b \in Int /\ c \in Int
  BY <1>00, <1>1
<1>4. Rising(lv, t, y) /\ (t < lv => Rising(lv, u, z)) /\ (t = lv => Falling(lv, u, z))
  BY <1>00 DEF Range0, Rising, Falling
<1>5. /\ Even(low, y) /\ Even(high, y) /\ Odd(low, z) /\ Even(high, z) /\ Twos(low + 1) = y
      /\ (t < lv \/ t = lv) /\ (t = lv => z = lv)
  BY <1>00 DEF AtLevel, Range0, Even, Odd
<1>6. Pow2[z] = 2 * P /\ Pow2[y] = P
  BY <1>00
<1> HIDE DEF u, z
<1>7. ScanValue(lv, T, t, low) = b - a
  <2>1. ScanValue(lv, T, t, low) = T[low + 1] - T[low + 1 - Pow2[y]]
    BY ONLY <1>4, <1>5, ScanRising
  <2> QED
    BY <1>6, <2>1
<1>8. ScanValue(lv, T, t, high) = c - b
  <2>1. ScanValue(lv, T, t, high) = T[high + 1] - T[high + 1 - Pow2[y]]
    BY ONLY <1>4, <1>5, ScanRising
  <2> QED
    BY <1>2, <1>6, <2>1
<1>9. ScanValue(lv, T, u, low) = b - a
  <2>1. ScanValue(lv, T, u, low) = T[low + 1] - T[low + 1 - Pow2[Twos(low + 1)]]
    <3>1. CASE t < lv
      BY ONLY <1>4, <1>5, <3>1, ScanRisen
    <3>2. CASE t = lv
      BY ONLY <1>4, <1>5, <3>2, ScanSummed
    <3> QED
      BY <1>5, <3>1, <3>2
  <2> QED
    BY <1>5, <1>6, <2>1
<1>10. t < lv => ScanValue(lv, T, u, high) = c - a
  <2> SUFFICES ASSUME t < lv
               PROVE  ScanValue(lv, T, u, high) = c - a
    OBVIOUS
  <2>1. ScanValue(lv, T, u, high) = T[high + 1] - T[high + 1 - Pow2[z]]
    BY ONLY <1>4, <1>5, t < lv, ScanRising
  <2> QED
    BY <1>2, <1>6, <2>1
<1>11. t = lv => high + 1 = size /\ a = T[0] /\ ScanValue(lv, T, u, high) = T[0]
  <2> SUFFICES ASSUME t = lv
               PROVE  high + 1 = size /\ a = T[0] /\ ScanValue(lv, T, u, high) = T[0]
    OBVIOUS
  <2>1. size = 2 * P
    BY <1>00, <1>5, <1>6
  <2>2. low + 1 - P = 0 /\ high + 1 = size
    <3>1. Apart2(P, low, high) /\ high < size
      BY <1>00
    <3> QED
      BY ONLY <2>1, <3>1 DEF Apart2
  <2>3. ScanValue(lv, T, u, high) = T[high + 1 - Pow2[z]]
    BY ONLY <1>4, <1>5, t = lv, ScanTurnedDown
  <2> QED
    BY <1>2, <1>6, <2>2, <2>3
<1> HIDE DEF a, b, c
<1>12. c - a = (c - b) + (b - a)
  BY <1>3
<1>13. t = lv => T[size] = c /\ high = size - 1
  <2> SUFFICES ASSUME t = lv
               PROVE  T[size] = c /\ high = size - 1
    OBVIOUS
  <2>1. high + 1 = size
    BY ONLY <1>11, t = lv
  <2> QED
    BY ONLY <1>0, <1>00, <2>1 DEF c
<1> QED
  BY <1>7, <1>8, <1>9, <1>10, <1>11, <1>12, <1>13 DEF u, Rises

\* And on the way down, to the level of y.
LEMMA ScanDown ==
  ASSUME NEW lv, NEW size, NEW T, NEW t, NEW y, NEW P, NEW low, NEW high,
         CellsAt(lv, size, T, t, y, P, low, high), t + y = 2 * lv
  PROVE  Falls(lv, T, t, low, high)
<1>00. /\ lv \in Nat /\ size \in Nat /\ T \in [0 .. size -> Int] /\ y \in Range0(lv) /\ t \in Nat
       /\ P = Pow2[y] /\ Pow2[y + 1] = 2 * P
       /\ Apart2(P, low, high) /\ high < size /\ AtLevel(y, low, high) /\ t + y = 2 * lv
  BY DEF CellsAt
<1> DEFINE a == T[low + 1 - P]
           b == T[low + 1]
           u == t + 1
           z == y + 1
<1>1. low + 1 \in 0 .. size /\ low + 1 - P \in 0 .. size
  BY ONLY <1>00, CellsApart
<1>2. high + 1 - P = low + 1 /\ high + 1 - 2 * P = low + 1 - P
  BY ONLY <1>00, CellsApart
<1>3. a \in Int /\ b \in Int
  BY <1>00, <1>1
<1>4. Falling(lv, t, z) /\ Falling(lv, u, y)
  BY <1>00 DEF Range0, Falling
<1>5. Even(low, y) /\ Even(high, y) /\ Odd(low, z) /\ Even(high, z) /\ Twos(low + 1) = y
  BY <1>00 DEF AtLevel, Range0, Even, Odd
<1>6. Pow2[z] = 2 * P /\ Pow2[y] = P
  BY <1>00
<1> HIDE DEF u, z
<1>7. ScanValue(lv, T, t, low) = b - a
  <2>1. ScanValue(lv, T, t, low) = T[low + 1] - T[low + 1 - Pow2[Twos(low + 1)]]
    BY ONLY <1>4, <1>5, ScanSummed
  <2> QED
    BY <1>5, <1>6, <2>1
<1>8. ScanValue(lv, T, t, high) = a
  <2>1. ScanValue(lv, T, t, high) = T[high + 1 - Pow2[z]]
    BY ONLY <1>4, <1>5, ScanTurnedDown
  <2> QED
    BY <1>2, <1>6, <2>1
<1>9. ScanValue(lv, T, u, low) = a
  <2>1. ScanValue(lv, T, u, low) = T[low + 1 - Pow2[y]]
    BY ONLY <1>4, <1>5, ScanTurnedDown
  <2> QED
    BY <1>6, <2>1
<1>10. ScanValue(lv, T, u, high) = b
  <2>1. ScanValue(lv, T, u, high) = T[high + 1 - Pow2[y]]
    BY ONLY <1>4, <1>5, ScanTurnedDown
  <2> QED
    BY <1>2, <1>6, <2>1
<1> HIDE DEF a, b
<1> QED
  BY <1>3, <1>7, <1>8, <1>9, <1>10 DEF u, Falls

LEMMA ScanEnds ==
  ASSUME NEW lv \in Nat \ {0}, NEW T, NEW c \in Nat
  PROVE  ScanValue(lv, T, 2 * lv + 1, c) = T[c]
<1>1. Twos(c + 1) \in Nat
  BY TwosType
<1>2. Twos(c + 1) >= 2 * lv + 1 - (2 * lv + 1) /\ ~(2 * lv + 1 <= lv)
      /\ 2 * lv + 1 - (2 * lv + 1) = 0
  BY <1>1
<1>3. Pow2[0] = 1 /\ c + 1 - 1 = c
  BY Pow2Def
<1> QED
  BY <1>2, <1>3 DEF ScanValue

-----------------------------------------------------------------------------
(* The sizes of the kernels                                                 *)

LEMMA DivMod ==
  ASSUME NEW L \in Nat \ {0}, NEW x \in Nat
  PROVE  /\ x \div L \in Nat /\ x % L \in 0 .. L - 1
         /\ x = (x \div L) * L + (x % L)
OBVIOUS

LEMMA DivModOf ==
  ASSUME NEW L \in Nat \ {0}, NEW q \in Nat, NEW r \in 0 .. L - 1
  PROVE  (q * L + r) \div L = q /\ (q * L + r) % L = r
OBVIOUS

LEMMA DivProduct ==
  ASSUME NEW L \in Nat \ {0}, NEW q \in Nat
  PROVE  (L * q) \div L = q
OBVIOUS

\* Split is a power of two, of a level that is not zero.
Level == CHOOSE e \in Nat : Items * Groups = 4 * Pow2[e]

LEMMA Sizes ==
  /\ Level \in Nat /\ Groups * Items = 4 * Pow2[Level] /\ Groups * Items \in Nat \ {0}
  /\ Items * Groups = Groups * Items
  /\ Split = 2 * Pow2[Level] /\ Split = Pow2[Level + 1] /\ Split \in Nat \ {0}
  /\ Split \div 2 = Pow2[Level]
  /\ Bits \in Nat \ {0} /\ Radix = Pow2[Bits] /\ Radix \in Nat \ {0}
  /\ Pow2[Bits + 1] = 2 * Radix
  /\ HistoSize = Radix * (Groups * Items) /\ HistoSize = Split * Pow2[Bits + 1]
  /\ HistoSize \div 2 = Split * Radix /\ (HistoSize \div 2) \div Split = Radix
  /\ HistoSize \in Nat \ {0} /\ Groups * Items <= HistoSize /\ Split <= HistoSize
<1>1. Items \in Nat \ {0} /\ Groups \in Nat \ {0} /\ Bits \in Nat \ {0}
  BY GroupAssumption, BitsAssumption
<1>2. PICK e0 \in Range0(Items * Groups) : Items * Groups = 4 * Pow2[e0]
  BY GroupAssumption
<1>3. e0 \in Nat
  BY <1>1, <1>2 DEF Range0
<1>4. Level \in Nat /\ Items * Groups = 4 * Pow2[Level]
  BY <1>2, <1>3 DEF Level
<1> DEFINE H == Pow2[Level]
           G == Groups * Items
<1>5. H \in Nat \ {0} /\ Pow2[Level + 1] = 2 * H
  BY <1>4, Pow2Positive, Pow2Def
<1>6. G = Items * Groups
  BY <1>1
<1>7. G \in Nat \ {0} /\ G = 4 * H
  BY <1>4, <1>5, <1>6
<1>8. Radix = Pow2[Bits] /\ Radix \in Nat \ {0} /\ Pow2[Bits + 1] = 2 * Radix
  BY <1>1, Pow2Positive, Pow2Def DEF Radix
<1>9. HistoSize = Radix * G
  BY <1>1, <1>8 DEF HistoSize
<1>10. Split = G \div 2
  BY <1>6 DEF Split
<1> HIDE DEF H, G, Level
<1>11. Split = 2 * H /\ Split \div 2 = H
  BY <1>5, <1>7, <1>10
<1> DEFINE R == Radix
           S == Split
<1>12. R * G = S * (2 * R) /\ R * G = 2 * (S * R) /\ S * R \in Nat \ {0}
  <2>1. R \in Nat \ {0} /\ S \in Nat \ {0} /\ G = 2 * S
    BY <1>5, <1>7, <1>8, <1>11
  <2> HIDE DEF R, S
  <2> QED
    BY <2>1
<1>13. (2 * (S * R)) \div 2 = S * R
  BY <1>12
<1>14. (S * R) \div S = R
  BY <1>5, <1>8, <1>11, DivProduct
<1>15. G <= R * G /\ S <= R * G
  <2>1. R \in Nat \ {0} /\ G \in Nat \ {0} /\ S <= G /\ S \in Nat
    BY <1>5, <1>7, <1>8, <1>11
  <2> HIDE DEF R, S
  <2>2. R * G = G + (R - 1) * G /\ R - 1 \in Nat
    BY <2>1
  <2>3. (R - 1) * G \in Nat
    BY <2>1, <2>2
  <2> QED
    BY <2>1, <2>2, <2>3
<1>16. R * G \in Nat \ {0}
  BY <1>12
<1> QED
  BY <1>1, <1>4, <1>5, <1>6, <1>7, <1>8, <1>9, <1>11, <1>12, <1>13, <1>14, <1>15, <1>16
     DEF H, G

LEMMA ScanSizes ==
  /\ at = "scan" => /\ GlobalSize = Split * Pow2[Bits] /\ LocalSize = Pow2[Bits]
                    /\ Segments = 2 * (Bits + 1) + 2
  /\ at = "globalScan" => /\ GlobalSize = Pow2[Level] /\ LocalSize = Pow2[Level]
                          /\ Segments = 2 * (Level + 1) + 2
  /\ at = "paste" => GlobalSize = Split * Pow2[Bits] /\ LocalSize = Pow2[Bits] /\ Segments = 1
<1>1. ASSUME at = "scan"
      PROVE  /\ GlobalSize = Split * Pow2[Bits] /\ LocalSize = Pow2[Bits]
             /\ Segments = 2 * (Bits + 1) + 2
  <2>1. GlobalSize = Split * Pow2[Bits]
    BY <1>1, Sizes DEF GlobalSize
  <2>2. LocalSize = Pow2[Bits]
    BY <1>1, Sizes DEF GlobalSize, LocalSize
  <2>3. Log2(2 * LocalSize) = Bits + 1
    <3>1. 2 * LocalSize = Pow2[Bits + 1] /\ Bits + 1 \in Nat
      BY <2>2, Sizes
    <3> QED
      BY <3>1, Log2OfPower
  <2> QED
    BY <1>1, <2>1, <2>2, <2>3 DEF Segments
<1>2. ASSUME at = "globalScan"
      PROVE  /\ GlobalSize = Pow2[Level] /\ LocalSize = Pow2[Level]
             /\ Segments = 2 * (Level + 1) + 2
  <2>1. GlobalSize = Pow2[Level]
    BY <1>2, Sizes DEF GlobalSize
  <2>2. LocalSize = Pow2[Level]
    BY <1>2, <2>1 DEF LocalSize
  <2>3. Log2(2 * LocalSize) = Level + 1
    <3>1. 2 * LocalSize = Pow2[Level + 1] /\ Level + 1 \in Nat
      BY <2>2, Sizes
    <3> QED
      BY <3>1, Log2OfPower
  <2> QED
    BY <1>2, <2>1, <2>2, <2>3 DEF Segments
<1>3. at = "paste" => GlobalSize = Split * Pow2[Bits] /\ LocalSize = Pow2[Bits] /\ Segments = 1
  BY Sizes DEF GlobalSize, LocalSize, Segments
<1> QED
  BY <1>1, <1>2, <1>3

-----------------------------------------------------------------------------
(* A group scans its cells                                                  *)

\* Up to the last segment, which stores the cells of local memory.
Scanned(lv, T, k, d) ==
  /\ \A it \in Range0(Pow2[lv - 1]) : k[it] \in {2 * lv + 1, 2 * lv + 2}
  /\ \A c \in Range0(Pow2[lv]) : d[c] = T[c]
Scanning(lv, T, k, d) ==
  Scanned(lv, T, k, d) \/ \E t \in 0 .. 2 * lv : ScanNow(lv, T, t, k, d)

\* What the buffer holds: before that segment of the owner of a cell what the
\* cell adds, after it the sum of the cells before.
Stored(lv, T, k, b) ==
  \A it \in Range0(Pow2[lv - 1]) :
    \A c \in {2 * it, 2 * it + 1} : b[c] = IF k[it] = 2 * lv + 2 THEN T[c] ELSE T[c + 1] - T[c]

LowOf(lv, s, it) == Pow2[ScanLevel(lv, s)] * (2 * it + 1) - 1
HighOf(lv, s, it) == Pow2[ScanLevel(lv, s)] * (2 * it + 2) - 1

\* What an item does in segment s: d becomes d2 and b becomes b2.
GroupStep(lv, s, it, d, b, d2, b2) ==
  LET l == LowOf(lv, s, it)
      h == HighOf(lv, s, it)
  IN  /\ \A c \in Range0(Pow2[lv]) : ~Owns(lv, s, it, c) => d2[c] = d[c] /\ b2[c] = b[c]
      /\ s # 2 * lv + 1 => \A c \in Range0(Pow2[lv]) : b2[c] = b[c]
      /\ l \in Range0(Pow2[lv]) =>
           /\ s = 0 => d2[l] = b[l] /\ d2[h] = b[h]
           /\ s \in 1 .. lv => d2[l] = d[l]
           /\ s \in 1 .. lv - 1 => d2[h] = d[h] + d[l]
           /\ s = lv => d2[h] = 0
           /\ s \in lv + 1 .. 2 * lv => d2[l] = d[h] /\ d2[h] = d[h] + d[l]
           /\ s = 2 * lv + 1 => d2[l] = d[l] /\ d2[h] = d[h] /\ b2[l] = d[l] /\ b2[h] = d[h]

\* At a barrier the segment of the group is that of the item.
LEMMA ScanningNow ==
  ASSUME NEW lv \in Nat \ {0}, NEW T, NEW k, NEW d, Scanning(lv, T, k, d),
         NEW it \in Range0(Pow2[lv - 1]), \A j \in Range0(Pow2[lv - 1]) : k[j] >= k[it]
  PROVE  /\ k[it] \in 0 .. 2 * lv => ScanNow(lv, T, k[it], k, d)
         /\ k[it] = 2 * lv + 1 => Scanned(lv, T, k, d)
<1>1. CASE \E t \in 0 .. 2 * lv : ScanNow(lv, T, t, k, d)
  <2>1. PICK t \in 0 .. 2 * lv : ScanNow(lv, T, t, k, d)
    BY <1>1
  <2>2. \A j \in Range0(Pow2[lv - 1]) : k[j] \in {t, t + 1}
    BY <2>1 DEF ScanNow
  <2>3. CASE k[it] = t
    BY <2>1, <2>3
  <2>4. CASE k[it] = t + 1
    <3>1. \A j \in Range0(Pow2[lv - 1]) : k[j] = t + 1
      BY <2>2, <2>4
    <3>2. \A c \in Range0(Pow2[lv]) : d[c] = ScanValue(lv, T, t + 1, c)
      BY <2>1, <3>1, ScanTurns
    <3>3. ScanNow(lv, T, t + 1, k, d)
      <4>1. t + 1 \in Nat
        OBVIOUS
      <4> DEFINE u == t + 1
      <4>2. /\ u \in Nat /\ \A j \in Range0(Pow2[lv - 1]) : k[j] = u
            /\ \A c \in Range0(Pow2[lv]) : u > 0 => d[c] = ScanValue(lv, T, u, c)
        BY <3>1, <3>2, <4>1
      <4> HIDE DEF u
      <4>3. ScanNow(lv, T, u, k, d)
        BY <4>2, ScanBegins
      <4> QED
        BY <4>3 DEF u
    <3>4. t = 2 * lv => \A c \in Range0(Pow2[lv]) : d[c] = T[c]
      <4> SUFFICES ASSUME t = 2 * lv, NEW c \in Range0(Pow2[lv])
                   PROVE  d[c] = T[c]
        OBVIOUS
      <4>1. c \in Nat
        <5>1. Pow2[lv] \in Nat
          BY Pow2Positive
        <5> QED
          BY <5>1 DEF Range0
      <4> QED
        BY <3>2, <4>1, ScanEnds
    <3>5. t = 2 * lv => Scanned(lv, T, k, d)
      BY <3>1, <3>4 DEF Scanned
    <3> QED
      BY <2>4, <3>3, <3>5
  <2> QED
    BY <2>2, <2>3, <2>4
<1>2. CASE Scanned(lv, T, k, d)
  BY <1>2 DEF Scanned
<1> QED
  BY <1>1, <1>2 DEF Scanning

\* The cells of an item, in each segment.
LEMMA Cells ==
  ASSUME NEW lv \in Nat \ {0}, NEW s \in 0 .. 2 * lv + 1, NEW it \in Range0(Pow2[lv - 1])
  PROVE  /\ it \in Nat /\ 2 * it \in Range0(Pow2[lv]) /\ 2 * it + 1 \in Range0(Pow2[lv])
         /\ s = 0 \/ s = 2 * lv + 1 => LowOf(lv, s, it) = 2 * it /\ HighOf(lv, s, it) = 2 * it + 1
         /\ \A c \in Int : Owns(lv, s, it, c) <=> c = LowOf(lv, s, it) \/ c = HighOf(lv, s, it)
         /\ LowOf(lv, s, it) \in Nat /\ HighOf(lv, s, it) \in Nat
         /\ LowOf(lv, s, it) # HighOf(lv, s, it)
         /\ LowOf(lv, s, it) \in Range0(Pow2[lv]) <=> HighOf(lv, s, it) \in Range0(Pow2[lv])
         /\ LowOf(lv, s, it) \in Range0(Pow2[lv])
              <=> it * 2 * Pow2[ScanLevel(lv, s)] < Pow2[lv]
<1>1. /\ it \in Nat /\ it < Pow2[lv - 1] /\ Pow2[lv] = 2 * Pow2[lv - 1] /\ Pow2[lv - 1] \in Nat
      /\ Pow2[lv] \in Nat
  <2>1. lv - 1 \in Nat /\ lv = (lv - 1) + 1
    OBVIOUS
  <2> QED
    BY <2>1, Pow2Positive, Pow2Def DEF Range0
<1>2. 2 * it \in Range0(Pow2[lv]) /\ 2 * it + 1 \in Range0(Pow2[lv])
  BY <1>1 DEF Range0
<1>3. s = 0 \/ s = 2 * lv + 1 => ScanLevel(lv, s) = 0 /\ ScanLevel(lv, 0) = 0
  BY DEF ScanLevel
<1>4. s = 0 \/ s = 2 * lv + 1 => LowOf(lv, s, it) = 2 * it /\ HighOf(lv, s, it) = 2 * it + 1
  <2>1. s = 0 \/ s = 2 * lv + 1 => Pow2[ScanLevel(lv, s)] = 1
    BY <1>3, Pow2Def
  <2>2. 1 * (2 * it + 1) - 1 = 2 * it /\ 1 * (2 * it + 2) - 1 = 2 * it + 1
    BY <1>1
  <2> QED
    BY <2>1, <2>2 DEF LowOf, HighOf
<1> DEFINE t == IF s = 2 * lv + 1 THEN 0 ELSE s
           P == Pow2[ScanLevel(lv, t)]
           l == P * (2 * it + 1) - 1
           h == P * (2 * it + 2) - 1
<1>5. t \in 0 .. 2 * lv /\ ScanLevel(lv, t) = ScanLevel(lv, s)
  BY <1>3
<1> HIDE DEF t
<1>6. /\ \A c \in Int : Owns(lv, t, it, c) <=> c = l \/ c = h
      /\ l \in Nat /\ h \in Nat /\ l < h
      /\ it * 2 * P < Pow2[lv] => l \in Range0(Pow2[lv]) /\ h \in Range0(Pow2[lv])
      /\ ~(it * 2 * P < Pow2[lv]) => l \notin Range0(Pow2[lv]) /\ h \notin Range0(Pow2[lv])
  BY <1>5, CellsOfItem
<1>7. l = LowOf(lv, s, it) /\ h = HighOf(lv, s, it) /\ P = Pow2[ScanLevel(lv, s)]
      /\ \A c : Owns(lv, t, it, c) <=> Owns(lv, s, it, c)
  BY <1>5 DEF LowOf, HighOf, Owns
<1> HIDE DEF l, h, P
<1>8. /\ \A c \in Int : Owns(lv, s, it, c) <=> c = l \/ c = h
      /\ l \in Nat /\ h \in Nat /\ l # h
      /\ l \in Range0(Pow2[lv]) <=> h \in Range0(Pow2[lv])
      /\ l \in Range0(Pow2[lv]) <=> it * 2 * P < Pow2[lv]
  BY <1>6, <1>7
<1> QED
  BY <1>1, <1>2, <1>4, <1>7, <1>8

\* An item is about to go through segment s.
StepAt(lv, T, k, d, b, it, s, d2, b2) ==
  /\ lv \in Nat \ {0} /\ T \in [0 .. Pow2[lv] -> Int] /\ T[0] = 0
  /\ it \in Range0(Pow2[lv - 1]) /\ s \in 0 .. 2 * lv /\ k[it] = s
  /\ ScanNow(lv, T, s, k, d) /\ Stored(lv, T, k, b)
  /\ GroupStep(lv, s, it, d, b, d2, b2) /\ LowOf(lv, s, it) \in Range0(Pow2[lv])

\* An item leaves in its cells the values of the next segment.
StepTurned(lv, T, s, it, d2) ==
  /\ d2[LowOf(lv, s, it)] = ScanValue(lv, T, s + 1, LowOf(lv, s, it))
  /\ d2[HighOf(lv, s, it)] = ScanValue(lv, T, s + 1, HighOf(lv, s, it))
StepSummed(lv, T, s, it, d) ==
  /\ d[HighOf(lv, s, it)] + d[LowOf(lv, s, it)] = T[Pow2[lv]]
  /\ HighOf(lv, s, it) = Pow2[lv] - 1

LEMMA StepTurns ==
  ASSUME NEW lv, NEW T, NEW k, NEW d, NEW b, NEW it, NEW s, NEW d2, NEW b2,
         StepAt(lv, T, k, d, b, it, s, d2, b2)
  PROVE  StepTurned(lv, T, s, it, d2) /\ (s = lv => StepSummed(lv, T, s, it, d))
<1> SUFFICES ASSUME lv \in Nat \ {0}, T \in [0 .. Pow2[lv] -> Int], T[0] = 0,
                    it \in Range0(Pow2[lv - 1]), s \in 0 .. 2 * lv, k[it] = s,
                    ScanNow(lv, T, s, k, d), Stored(lv, T, k, b),
                    GroupStep(lv, s, it, d, b, d2, b2), LowOf(lv, s, it) \in Range0(Pow2[lv])
             PROVE  StepTurned(lv, T, s, it, d2) /\ (s = lv => StepSummed(lv, T, s, it, d))
  BY DEF StepAt
<1> DEFINE l == LowOf(lv, s, it)
           h == HighOf(lv, s, it)
           size == Pow2[lv]
           y == ScanLevel(lv, s)
           P == Pow2[y]
<1>1. /\ it \in Nat /\ l \in Range0(size) /\ h \in Range0(size) /\ l \in Nat /\ h \in Nat
      /\ Owns(lv, s, it, l) /\ Owns(lv, s, it, h)
  BY Cells
<1>2. size \in Nat /\ h < size
  BY <1>1, Pow2Positive DEF Range0
<1>3. y \in Range0(lv) /\ y \in Nat /\ P \in Nat /\ Pow2[y + 1] = 2 * P
  <2>1. y \in Range0(lv) /\ P \in Nat
    BY ScanLevelType
  <2>2. y \in Nat
    BY <2>1 DEF Range0
  <2> HIDE DEF y
  <2> QED
    BY <2>1, <2>2, Pow2Def
<1>4. Apart2(P, l, h) /\ AtLevel(y, l, h)
  BY CellsOfItem DEF LowOf, HighOf
<1>9. CellsAt(lv, size, T, s, y, P, l, h)
  <2>1. P = Pow2[y] /\ size = Pow2[lv] /\ s \in Nat /\ lv \in Nat /\ T \in [0 .. size -> Int]
    OBVIOUS
  <2> HIDE DEF l, h, size, y, P
  <2> QED
    BY ONLY <1>2, <1>3, <1>4, <2>1 DEF CellsAt
<1>5. s # 0 => d[l] = ScanValue(lv, T, s, l) /\ d[h] = ScanValue(lv, T, s, h)
  BY <1>1, OwnCells
<1>6. CASE s = 0
  <2>1. d2[l] = b[l] /\ d2[h] = b[h] /\ l = 2 * it /\ h = 2 * it + 1
    BY <1>1, <1>6, Cells DEF GroupStep
  <2>2. k[it] # 2 * lv + 2
    BY <1>6
  <2>3. b[l] = T[l + 1] - T[l] /\ b[h] = T[h + 1] - T[h]
    BY <2>1, <2>2 DEF Stored
  <2>4. ScanValue(lv, T, 1, l) = T[l + 1] - T[l] /\ ScanValue(lv, T, 1, h) = T[h + 1] - T[h]
    BY <1>1, ScanLoads
  <2> QED
    BY <1>6, <2>1, <2>3, <2>4 DEF StepTurned
<1>7. CASE s \in 1 .. lv
  <2>1. d2[l] = d[l] /\ (s < lv => d2[h] = d[h] + d[l]) /\ (s = lv => d2[h] = 0)
    BY <1>1, <1>7 DEF GroupStep
  <2>2. y + 1 = s
    BY <1>7 DEF ScanLevel
  <2> HIDE DEF l, h, size, y, P
  <2>3. Rises(lv, size, T, s, l, h)
    BY <1>9, <2>2, ScanUp
  <2>4. T[size] - T[0] = T[size]
    <3>1. T[size] \in Int
      BY <1>2 DEF size
    <3> QED
      BY <3>1
  <2> QED
    BY <1>5, <1>7, <2>1, <2>3, <2>4 DEF l, h, size, Rises, StepTurned, StepSummed
<1>8. CASE s \in lv + 1 .. 2 * lv
  <2>1. d2[l] = d[h] /\ d2[h] = d[h] + d[l]
    BY <1>1, <1>8 DEF GroupStep
  <2>2. s + y = 2 * lv
    BY <1>8 DEF ScanLevel
  <2> HIDE DEF l, h, size, y, P
  <2>3. Falls(lv, T, s, l, h)
    BY <1>9, <2>2, ScanDown
  <2> QED
    BY <1>5, <1>8, <2>1, <2>3 DEF l, h, Falls, StepTurned
<1> QED
  BY <1>6, <1>7, <1>8

\* What holds of a group, and what an item of the group does.
GroupAt(lv, T, k, d, b) ==
  /\ lv \in Nat \ {0} /\ T \in [0 .. Pow2[lv] -> Int] /\ T[0] = 0
  /\ Scanning(lv, T, k, d) /\ Stored(lv, T, k, b)
GroupMoves(lv, it, s, k, d, b, k2, d2, b2) ==
  /\ it \in Range0(Pow2[lv - 1]) /\ s \in 0 .. 2 * lv + 1 /\ k[it] = s
  /\ \A j \in Range0(Pow2[lv - 1]) : k[j] >= s
  /\ k2[it] = s + 1 /\ \A j \in Range0(Pow2[lv - 1]) : j # it => k2[j] = k[j]
  /\ GroupStep(lv, s, it, d, b, d2, b2)

LEMMA GroupStepKeeps ==
  ASSUME NEW lv, NEW T, NEW k, NEW d, NEW b, NEW it, NEW s, NEW k2, NEW d2, NEW b2,
         GroupAt(lv, T, k, d, b), GroupMoves(lv, it, s, k, d, b, k2, d2, b2)
  PROVE  /\ GroupAt(lv, T, k2, d2, b2)
         /\ s = lv /\ LowOf(lv, s, it) \in Range0(Pow2[lv]) => StepSummed(lv, T, s, it, d)
<1> SUFFICES ASSUME lv \in Nat \ {0}, T \in [0 .. Pow2[lv] -> Int], T[0] = 0,
                    Scanning(lv, T, k, d), Stored(lv, T, k, b), it \in Range0(Pow2[lv - 1]),
                    s \in 0 .. 2 * lv + 1, k[it] = s,
                    \A j \in Range0(Pow2[lv - 1]) : k[j] >= k[it], k2[it] = s + 1,
                    \A j \in Range0(Pow2[lv - 1]) : j # it => k2[j] = k[j],
                    GroupStep(lv, s, it, d, b, d2, b2)
             PROVE  /\ Scanning(lv, T, k2, d2) /\ Stored(lv, T, k2, b2)
                    /\ s = lv /\ LowOf(lv, s, it) \in Range0(Pow2[lv])
                         => StepSummed(lv, T, s, it, d)
  BY DEF GroupAt, GroupMoves
<1> DEFINE l == LowOf(lv, s, it)
           h == HighOf(lv, s, it)
<1>0. Range0(Pow2[lv]) \subseteq Nat /\ Range0(Pow2[lv - 1]) \subseteq Nat
  <2>1. Pow2[lv] \in Nat /\ Pow2[lv - 1] \in Nat
    BY Pow2Positive
  <2> QED
    BY <2>1 DEF Range0
<1>1. CASE s \in 0 .. 2 * lv
  <2>1. ScanNow(lv, T, s, k, d)
    BY <1>1, ScanningNow
  <2>2. l \in Range0(Pow2[lv]) =>
          d2[l] = ScanValue(lv, T, s + 1, l) /\ d2[h] = ScanValue(lv, T, s + 1, h)
    <3> SUFFICES ASSUME l \in Range0(Pow2[lv])
                 PROVE  d2[l] = ScanValue(lv, T, s + 1, l) /\ d2[h] = ScanValue(lv, T, s + 1, h)
      OBVIOUS
    <3>1. StepAt(lv, T, k, d, b, it, s, d2, b2)
      BY <1>1, <2>1 DEF StepAt
    <3>2. StepTurned(lv, T, s, it, d2)
      BY <3>1, StepTurns
    <3> QED
      BY <3>2 DEF StepTurned
  <2>3. \A c \in Range0(Pow2[lv]) : Owns(lv, s, it, c) => d2[c] = ScanValue(lv, T, s + 1, c)
    <3> SUFFICES ASSUME NEW c \in Range0(Pow2[lv]), Owns(lv, s, it, c)
                 PROVE  d2[c] = ScanValue(lv, T, s + 1, c)
      OBVIOUS
    <3>0. \A e \in Int : Owns(lv, s, it, e) <=> e = l \/ e = h
      BY <1>1, Cells
    <3>00. l \in Range0(Pow2[lv]) <=> h \in Range0(Pow2[lv])
      BY <1>1, Cells
    <3>1. (c = l \/ c = h) /\ (l \in Range0(Pow2[lv]) <=> h \in Range0(Pow2[lv]))
      BY <1>0, <3>0, <3>00
    <3> QED
      BY <2>2, <3>1
  <2>4. \A c \in Range0(Pow2[lv]) : ~Owns(lv, s, it, c) => d2[c] = d[c]
    BY DEF GroupStep
  <2>5. ScanNow(lv, T, s, k2, d2)
    <3>1. k[it] = s /\ k2[it] = s + 1 /\ \A j \in Range0(Pow2[lv - 1]) : j # it => k2[j] = k[j]
      OBVIOUS
    <3>2. lv \in Nat \ {0} /\ it \in Range0(Pow2[lv - 1])
      OBVIOUS
    <3>3. Moves(lv, T, s, it, k, d, k2, d2)
      BY <1>1, <2>3, <2>4, <3>1, <3>2 DEF Moves
    <3> QED
      BY ONLY <2>1, <3>3, ScanMoves
  <2>6. Stored(lv, T, k2, b2)
    <3>1. \A c \in Range0(Pow2[lv]) : b2[c] = b[c]
      BY <1>1 DEF GroupStep
    <3>2. ASSUME NEW j \in Range0(Pow2[lv - 1]), NEW c \in {2 * j, 2 * j + 1}
          PROVE  b2[c] = b[c]
      <4>1. c \in Range0(Pow2[lv])
        BY <1>1, Cells
      <4> QED
        BY <3>1, <4>1
    <3>3. \A j \in Range0(Pow2[lv - 1]) : k2[j] = 2 * lv + 2 <=> k[j] = 2 * lv + 2
      BY <1>1
    <3> SUFFICES ASSUME NEW j \in Range0(Pow2[lv - 1]), NEW c \in {2 * j, 2 * j + 1}
                 PROVE  b2[c] = IF k2[j] = 2 * lv + 2 THEN T[c] ELSE T[c + 1] - T[c]
      BY DEF Stored
    <3>4. b[c] = IF k[j] = 2 * lv + 2 THEN T[c] ELSE T[c + 1] - T[c]
      BY DEF Stored
    <3> QED
      BY <3>2, <3>3, <3>4
  <2>7. s = lv /\ l \in Range0(Pow2[lv]) => StepSummed(lv, T, s, it, d)
    <3> SUFFICES ASSUME s = lv, l \in Range0(Pow2[lv])
                 PROVE  StepSummed(lv, T, s, it, d)
      OBVIOUS
    <3>1. StepAt(lv, T, k, d, b, it, s, d2, b2)
      BY <1>1, <2>1 DEF StepAt
    <3> QED
      BY <3>1, StepTurns
  <2> QED
    BY <1>1, <2>5, <2>6, <2>7 DEF Scanning
<1>2. CASE s = 2 * lv + 1
  <2>1. /\ \A j \in Range0(Pow2[lv - 1]) : k[j] \in {2 * lv + 1, 2 * lv + 2}
        /\ \A c \in Range0(Pow2[lv]) : d[c] = T[c]
    <3>1. Scanned(lv, T, k, d)
      BY <1>2, ScanningNow
    <3> QED
      BY <3>1 DEF Scanned
  <2>2. l = 2 * it /\ h = 2 * it + 1 /\ l \in Range0(Pow2[lv]) /\ h \in Range0(Pow2[lv])
        /\ \A c \in Int : Owns(lv, s, it, c) <=> c = l \/ c = h
    BY <1>2, Cells
  <2>3. d2[l] = d[l] /\ d2[h] = d[h] /\ b2[l] = d[l] /\ b2[h] = d[h]
        /\ s \notin 0 .. lv
    BY <1>2, <2>2 DEF GroupStep
  <2>4. \A c \in Range0(Pow2[lv]) : c # l /\ c # h => d2[c] = d[c] /\ b2[c] = b[c]
    BY <1>0, <2>2 DEF GroupStep
  <2>5. \A c \in Range0(Pow2[lv]) : d2[c] = T[c]
    BY <2>1, <2>3, <2>4
  <2>6. \A j \in Range0(Pow2[lv - 1]) : k2[j] \in {2 * lv + 1, 2 * lv + 2}
    BY <1>2, <2>1
  <2>7. Stored(lv, T, k2, b2)
    <3> SUFFICES ASSUME NEW j \in Range0(Pow2[lv - 1]), NEW c \in {2 * j, 2 * j + 1}
                 PROVE  b2[c] = IF k2[j] = 2 * lv + 2 THEN T[c] ELSE T[c + 1] - T[c]
      BY DEF Stored
    <3>1. c \in Range0(Pow2[lv]) /\ c \in Nat
      BY <1>0, <1>2, Cells
    <3>2. CASE j = it
      <4>1. b2[c] = T[c] /\ k2[j] = 2 * lv + 2
        BY <1>2, <2>1, <2>2, <2>3, <3>2
      <4> QED
        BY <4>1
    <3>3. CASE j # it
      <4>1. c # l /\ c # h
        BY <1>0, <2>2, <3>3
      <4>2. b2[c] = b[c]
        BY <2>4, <3>1, <4>1
      <4>3. k2[j] = k[j]
        BY <3>3
      <4>4. b[c] = IF k[j] = 2 * lv + 2 THEN T[c] ELSE T[c + 1] - T[c]
        BY DEF Stored
      <4> QED
        BY ONLY <4>2, <4>3, <4>4
    <3> QED
      BY <3>2, <3>3
  <2> QED
    BY <1>2, <2>5, <2>6, <2>7 DEF Scanning, Scanned
<1> QED
  BY <1>1, <1>2

-----------------------------------------------------------------------------
(* All groups scan                                                          *)

GroupDone(lv, f, g) == [it \in Range0(Pow2[lv - 1]) |-> f[g * Pow2[lv - 1] + it]]
GroupCells(lv, f, g) == [c \in Range0(Pow2[lv]) |-> f[g * Pow2[lv] + c]]
GroupSums(lv, X, g) == [m \in 0 .. Pow2[lv] |-> X[g * Pow2[lv] + m] - X[g * Pow2[lv]]]

\* X[p] is the sum of what the first p cells of the buffer held.
GroupsAt(lv, groups, X, f, loc, buf) ==
  \A g \in Range0(groups) :
    GroupAt(lv, GroupSums(lv, X, g), GroupDone(lv, f, g), GroupCells(lv, loc, g),
            GroupCells(lv, buf, g))
SumsAt(lv, groups, X, f, sums) ==
  \A g \in Range0(groups) :
    f[g * Pow2[lv - 1]] > lv => sums[g] = X[(g + 1) * Pow2[lv]] - X[g * Pow2[lv]]

\* A work item goes through a segment; L is the size of its group.
ItemScans(lv, groups, L, i, f, loc, buf, f2, loc2, buf2) ==
  /\ lv \in Nat \ {0} /\ groups \in Nat \ {0} /\ L = Pow2[lv - 1]
  /\ i \in Range0(groups * L) /\ f[i] \in 0 .. 2 * lv + 1
  /\ \A j \in Range0(groups * L) : j \div L = i \div L => f[j] >= f[i]
  /\ f2[i] = f[i] + 1 /\ \A j \in Range0(groups * L) : j # i => f2[j] = f[j]
  /\ \A p \in Range0(groups * Pow2[lv]) :
       p \div Pow2[lv] # i \div L => loc2[p] = loc[p] /\ buf2[p] = buf[p]
  /\ GroupStep(lv, f[i], i % L, GroupCells(lv, loc, i \div L), GroupCells(lv, buf, i \div L),
               GroupCells(lv, loc2, i \div L), GroupCells(lv, buf2, i \div L))

\* Every number below a * b is q * b + r for one q below a and r below b.
LEMMA Places ==
  ASSUME NEW a \in Nat, NEW b \in Nat \ {0}, NEW p \in Range0(a * b)
  PROVE  p \div b \in Range0(a) /\ p % b \in Range0(b) /\ p = (p \div b) * b + (p % b)
<1>1. p \in Nat /\ p < a * b
  <2>1. a * b \in Nat
    OBVIOUS
  <2> QED
    BY <2>1 DEF Range0
<1> DEFINE q == p \div b
           r == p % b
<1>2. q \in Nat /\ r \in 0 .. b - 1 /\ p = q * b + r
  BY <1>1, DivMod
<1> HIDE DEF q, r
<1>3. q < a
  <2> SUFFICES ASSUME ~(q < a)
               PROVE  FALSE
    OBVIOUS
  <2> DEFINE e == q - a
  <2>1. e \in Nat /\ q = a + e
    BY <1>2
  <2> HIDE DEF e
  <2>2. q * b = a * b + e * b /\ e * b \in Nat /\ a * b \in Nat
    BY <2>1
  <2> QED
    BY <1>1, <1>2, <2>2
<1> QED
  BY <1>2, <1>3 DEF q, r, Range0

LEMMA Placed2 ==
  ASSUME NEW a \in Nat, NEW b \in Nat \ {0}, NEW q \in Range0(a), NEW r \in Range0(b)
  PROVE  q * b + r \in Range0(a * b) /\ (q * b + r) \div b = q /\ (q * b + r) % b = r
<1>1. q * b + r \in Range0(a * b)
  BY CellOfRow
<1>2. q \in Nat /\ r \in 0 .. b - 1
  BY DEF Range0
<1> QED
  BY <1>1, <1>2, DivModOf

LEMMA FirstPlaced ==
  ASSUME NEW a \in Nat, NEW b \in Nat \ {0}, NEW q \in Range0(a)
  PROVE  q * b \in Range0(a * b) /\ (q * b) \div b = q /\ (q * b) % b = 0
<1> DEFINE z == 0
<1>1. z \in Range0(b)
  BY DEF Range0
<1> HIDE DEF z
<1>2. q * b + z \in Range0(a * b) /\ (q * b + z) \div b = q /\ (q * b + z) % b = z
  BY <1>1, Placed2
<1>3. q * b + z = q * b
  BY DEF z, Range0
<1> QED
  BY <1>2, <1>3 DEF z

LEMMA ItemScansKeeps ==
  ASSUME NEW lv, NEW groups, NEW L, NEW i, NEW X, NEW f, NEW loc, NEW buf, NEW f2, NEW loc2,
         NEW buf2, ItemScans(lv, groups, L, i, f, loc, buf, f2, loc2, buf2),
         GroupsAt(lv, groups, X, f, loc, buf)
  PROVE  /\ GroupsAt(lv, groups, X, f2, loc2, buf2)
         /\ f[i] = lv /\ LowOf(lv, lv, i % L) \in Range0(Pow2[lv])
              => StepSummed(lv, GroupSums(lv, X, i \div L), lv, i % L,
                            GroupCells(lv, loc, i \div L))
<1> DEFINE size == Pow2[lv]
           g0 == i \div L
           it == i % L
<1>1. /\ lv \in Nat \ {0} /\ groups \in Nat \ {0} /\ L = Pow2[lv - 1]
      /\ i \in Range0(groups * L) /\ f[i] \in 0 .. 2 * lv + 1
      /\ \A j \in Range0(groups * L) : j \div L = g0 => f[j] >= f[i]
      /\ f2[i] = f[i] + 1 /\ \A j \in Range0(groups * L) : j # i => f2[j] = f[j]
      /\ \A p \in Range0(groups * size) :
           p \div size # g0 => loc2[p] = loc[p] /\ buf2[p] = buf[p]
      /\ GroupStep(lv, f[i], it, GroupCells(lv, loc, g0), GroupCells(lv, buf, g0),
                   GroupCells(lv, loc2, g0), GroupCells(lv, buf2, g0))
  BY DEF ItemScans
<1>2. L \in Nat \ {0} /\ size \in Nat \ {0}
  BY <1>1, Pow2Positive
<1>3. g0 \in Range0(groups) /\ it \in Range0(L) /\ i = g0 * L + it
  BY <1>1, <1>2, Places
<1> HIDE DEF g0, it, size
<1>4. \A g \in Range0(groups), j \in Range0(L) :
        g * L + j \in Range0(groups * L) /\ (g * L + j) \div L = g
  <2>1. L \in Nat \ {0} /\ groups \in Nat
    BY <1>1, <1>2
  <2> QED
    BY ONLY <2>1, Placed2
<1>5. \A g \in Range0(groups), c \in Range0(size) :
        g * size + c \in Range0(groups * size) /\ (g * size + c) \div size = g
  <2>1. size \in Nat \ {0} /\ groups \in Nat
    BY <1>1, <1>2
  <2> QED
    BY ONLY <2>1, Placed2
<1>6. \A g \in Range0(groups), j \in Range0(L) :
        /\ GroupDone(lv, f, g)[j] = f[g * L + j] /\ GroupDone(lv, f2, g)[j] = f2[g * L + j]
  BY <1>1 DEF GroupDone
<1>7. GroupMoves(lv, it, f[i], GroupDone(lv, f, g0), GroupCells(lv, loc, g0),
                 GroupCells(lv, buf, g0), GroupDone(lv, f2, g0), GroupCells(lv, loc2, g0),
                 GroupCells(lv, buf2, g0))
  <2>1. \A j \in Range0(L) : GroupDone(lv, f, g0)[j] >= f[i]
    BY <1>1, <1>3, <1>4, <1>6
  <2>2. GroupDone(lv, f, g0)[it] = f[i] /\ GroupDone(lv, f2, g0)[it] = f[i] + 1
    BY <1>1, <1>3, <1>6
  <2>3. \A j \in Range0(L) : j # it => GroupDone(lv, f2, g0)[j] = GroupDone(lv, f, g0)[j]
    <3> SUFFICES ASSUME NEW j \in Range0(L), j # it
                 PROVE  GroupDone(lv, f2, g0)[j] = GroupDone(lv, f, g0)[j]
      OBVIOUS
    <3>1. g0 * L + j # i
      <4>1. (g0 * L + j) % L = j /\ i % L = it
        BY <1>1, <1>2, <1>3, Placed2 DEF it
      <4> QED
        BY <4>1
    <3>2. f2[g0 * L + j] = f[g0 * L + j]
      BY <1>1, <1>3, <1>4, <3>1
    <3> QED
      BY <1>3, <1>6, <3>2
  <2> QED
    BY <1>1, <1>3, <2>1, <2>2, <2>3 DEF GroupMoves
<1>8. GroupAt(lv, GroupSums(lv, X, g0), GroupDone(lv, f, g0), GroupCells(lv, loc, g0),
              GroupCells(lv, buf, g0))
  BY <1>3 DEF GroupsAt
<1>9. GroupAt(lv, GroupSums(lv, X, g0), GroupDone(lv, f2, g0), GroupCells(lv, loc2, g0),
              GroupCells(lv, buf2, g0))
  BY <1>7, <1>8, GroupStepKeeps
<1>10. f[i] = lv /\ LowOf(lv, lv, it) \in Range0(size)
         => StepSummed(lv, GroupSums(lv, X, g0), lv, it, GroupCells(lv, loc, g0))
  <2> SUFFICES ASSUME f[i] = lv, LowOf(lv, lv, it) \in Range0(size)
               PROVE  StepSummed(lv, GroupSums(lv, X, g0), lv, it, GroupCells(lv, loc, g0))
    OBVIOUS
  <2>1. LowOf(lv, f[i], it) \in Range0(Pow2[lv])
    BY DEF size
  <2>2. StepSummed(lv, GroupSums(lv, X, g0), f[i], it, GroupCells(lv, loc, g0))
    BY <1>7, <1>8, <2>1, GroupStepKeeps
  <2> QED
    BY <2>2
<1>11. ASSUME NEW g \in Range0(groups), g # g0
       PROVE  /\ GroupDone(lv, f2, g) = GroupDone(lv, f, g)
              /\ GroupCells(lv, loc2, g) = GroupCells(lv, loc, g)
              /\ GroupCells(lv, buf2, g) = GroupCells(lv, buf, g)
  <2>1. \A j \in Range0(L) : f2[g * L + j] = f[g * L + j]
    <3> SUFFICES ASSUME NEW j \in Range0(L)
                 PROVE  f2[g * L + j] = f[g * L + j]
      OBVIOUS
    <3>1. g * L + j \in Range0(groups * L) /\ (g * L + j) \div L = g /\ i \div L = g0
      BY <1>4 DEF g0
    <3>2. g * L + j # i
      BY <1>11, <3>1
    <3> QED
      BY <1>1, <3>1, <3>2
  <2>2. \A c \in Range0(size) : loc2[g * size + c] = loc[g * size + c]
                               /\ buf2[g * size + c] = buf[g * size + c]
    BY <1>1, <1>5, <1>11
  <2> QED
    BY <1>1, <2>1, <2>2 DEF GroupDone, GroupCells, size
<1>12. ASSUME NEW g \in Range0(groups)
       PROVE  GroupAt(lv, GroupSums(lv, X, g), GroupDone(lv, f2, g), GroupCells(lv, loc2, g),
                      GroupCells(lv, buf2, g))
  <2>1. CASE g = g0
    BY <1>9, <2>1
  <2>2. CASE g # g0
    BY <1>11, <2>2 DEF GroupsAt
  <2> QED
    BY <2>1, <2>2
<1> QED
  BY <1>10, <1>12 DEF GroupsAt, g0, it, size

\* The sums of the groups, which the item with the last cell writes on the way up.
LEMMA SumsKeep ==
  ASSUME NEW lv, NEW groups, NEW L, NEW i, NEW X, NEW f, NEW loc, NEW buf, NEW f2, NEW loc2,
         NEW buf2, ItemScans(lv, groups, L, i, f, loc, buf, f2, loc2, buf2),
         GroupsAt(lv, groups, X, f, loc, buf),
         NEW sums, NEW sums2, SumsAt(lv, groups, X, f, sums),
         \A g \in Range0(groups) :
           IF g = i \div L /\ f[i] = lv /\ LowOf(lv, lv, i % L) \in Range0(Pow2[lv])
           THEN sums2[g] = loc[g * Pow2[lv] + HighOf(lv, lv, i % L)]
                             + loc[g * Pow2[lv] + LowOf(lv, lv, i % L)]
           ELSE sums2[g] = sums[g],
         X \in [0 .. groups * Pow2[lv] -> Int]
  PROVE  SumsAt(lv, groups, X, f2, sums2)
<1> DEFINE size == Pow2[lv]
           g0 == i \div L
           it == i % L
<1>1. /\ lv \in Nat \ {0} /\ groups \in Nat \ {0} /\ L = Pow2[lv - 1]
      /\ i \in Range0(groups * L) /\ f[i] \in 0 .. 2 * lv + 1
      /\ f2[i] = f[i] + 1 /\ \A j \in Range0(groups * L) : j # i => f2[j] = f[j]
  BY DEF ItemScans
<1>2. L \in Nat \ {0} /\ size \in Nat \ {0} /\ lv \in Nat /\ lv - 1 \in Nat
  BY <1>1, Pow2Positive
<1>3. g0 \in Range0(groups) /\ it \in Range0(L) /\ i = g0 * L + it
  BY <1>1, <1>2, Places
<1> SUFFICES ASSUME NEW g \in Range0(groups), f2[g * L] > lv
             PROVE  sums2[g] = X[(g + 1) * size] - X[g * size]
  BY <1>1 DEF SumsAt
<1>0. L \in Nat \ {0} /\ groups \in Nat
  BY <1>1, <1>2
<1>4. 0 \in Range0(L) /\ g \in Nat /\ g < groups /\ g * L + 0 = g * L
  BY ONLY <1>0, g \in Range0(groups) DEF Range0
<1>5. g * L \in Range0(groups * L) /\ (g * L) \div L = g /\ (g * L) % L = 0
  BY ONLY <1>0, g \in Range0(groups), FirstPlaced
<1>6. f[g * L] > lv => sums[g] = X[(g + 1) * size] - X[g * size]
  BY <1>1 DEF SumsAt
<1>7. CASE g = g0 /\ f[i] = lv /\ LowOf(lv, lv, it) \in Range0(size)
  <2> DEFINE T == GroupSums(lv, X, g)
             D == GroupCells(lv, loc, g)
             l == LowOf(lv, lv, it)
             h == HighOf(lv, lv, it)
  <2>1. StepSummed(lv, T, lv, it, D)
    BY <1>7, ItemScansKeeps
  <2>2. D[h] + D[l] = T[size] /\ h = size - 1
    BY <2>1 DEF StepSummed
  <2>3. T[size] = X[(g + 1) * size] - X[g * size]
    <3>1. (g + 1) * size = g * size + size
      BY <1>2, <1>4
    <3>2. size \in 0 .. size
      BY <1>2
    <3> QED
      BY <3>1, <3>2 DEF GroupSums
  <2>4. D[h] = loc[g * size + h] /\ D[l] = loc[g * size + l]
    <3>1. h \in Range0(size)
      BY <1>2, <2>2 DEF Range0
    <3> QED
      BY <1>7, <3>1 DEF GroupCells
  <2> HIDE DEF T, D, l, h, size, g0, it
  <2>5. sums2[g] = loc[g * size + h] + loc[g * size + l]
    BY <1>7 DEF l, h, size, g0, it
  <2> QED
    BY <2>2, <2>3, <2>4, <2>5
<1>8. CASE ~(g = g0 /\ f[i] = lv /\ LowOf(lv, lv, it) \in Range0(size))
  <2>1. sums2[g] = sums[g]
    BY <1>8
  <2>2. CASE g * L # i
    BY <1>1, <1>5, <1>6, <2>1, <2>2
  <2>3. CASE g * L = i
    <3>1. g0 = g /\ it = 0
      BY <1>5, <2>3
    <3>2. LowOf(lv, lv, 0) \in Range0(size)
      <4>1. ScanLevel(lv, lv) = lv - 1 /\ size = 2 * L
        <5>1. lv = (lv - 1) + 1
          BY <1>2
        <5> QED
          BY <1>1, <1>2, <5>1, Pow2Def DEF ScanLevel
      <4>2. LowOf(lv, lv, 0) = L - 1
        BY <1>1, <1>2, <4>1 DEF LowOf
      <4> QED
        BY <1>2, <4>1, <4>2 DEF Range0
    <3>3. f[i] # lv
      BY <1>8, <3>1, <3>2
    <3>4. f[g * L] > lv
      BY <1>1, <1>2, <2>3, <3>3
    <3> QED
      BY <1>6, <2>1, <3>4
  <2> QED
    BY <2>2, <2>3
<1> QED
  BY <1>7, <1>8

\* Before the first segment.
Starts(lv, groups, X, f, buf) ==
  /\ lv \in Nat \ {0} /\ groups \in Nat \ {0} /\ X \in [0 .. groups * Pow2[lv] -> Int]
  /\ \A j \in Range0(groups * Pow2[lv - 1]) : f[j] = 0
  /\ \A p \in Range0(groups * Pow2[lv]) : buf[p] = X[p + 1] - X[p]

LEMMA GroupsStart ==
  ASSUME NEW lv, NEW groups, NEW X, NEW f, NEW loc, NEW buf, NEW sums,
         Starts(lv, groups, X, f, buf)
  PROVE  GroupsAt(lv, groups, X, f, loc, buf) /\ SumsAt(lv, groups, X, f, sums)
<1> SUFFICES ASSUME lv \in Nat \ {0}, groups \in Nat \ {0}, X \in [0 .. groups * Pow2[lv] -> Int],
                    \A j \in Range0(groups * Pow2[lv - 1]) : f[j] = 0,
                    \A p \in Range0(groups * Pow2[lv]) : buf[p] = X[p + 1] - X[p]
             PROVE  GroupsAt(lv, groups, X, f, loc, buf) /\ SumsAt(lv, groups, X, f, sums)
  BY DEF Starts
<1> DEFINE size == Pow2[lv]
           L == Pow2[lv - 1]
<1>1. L \in Nat \ {0} /\ size \in Nat \ {0} /\ size = 2 * L
  <2>1. lv - 1 \in Nat /\ lv = (lv - 1) + 1
    OBVIOUS
  <2> QED
    BY <2>1, Pow2Positive, Pow2Def
<1> HIDE DEF L, size
<1> SUFFICES ASSUME NEW g \in Range0(groups)
             PROVE  /\ GroupAt(lv, GroupSums(lv, X, g), GroupDone(lv, f, g),
                               GroupCells(lv, loc, g), GroupCells(lv, buf, g))
                    /\ f[g * L] = 0
  BY <1>1 DEF GroupsAt, SumsAt, L
<1> DEFINE T == GroupSums(lv, X, g)
           K == GroupDone(lv, f, g)
           D == GroupCells(lv, loc, g)
           B == GroupCells(lv, buf, g)
<1>2. \A j \in Range0(L) : g * L + j \in Range0(groups * L)
  BY <1>1, Placed2
<1>3. \A c \in Range0(size) : g * size + c \in Range0(groups * size)
  BY <1>1, Placed2
<1>4. \A j \in Range0(L) : K[j] = 0
  BY <1>2 DEF GroupDone, L
<1>5. f[g * L] = 0
  <2>1. 0 \in Range0(L) /\ g * L + 0 = g * L
    BY <1>1 DEF Range0
  <2> QED
    BY <1>2, <2>1 DEF L
<1>6. \A m \in 0 .. size : g * size + m \in 0 .. groups * size
  <2>1. g \in Nat /\ g < groups
    BY DEF Range0
  <2>2. g * size + size <= groups * size /\ g * size \in Nat /\ groups * size \in Nat
    <3>1. g * size \in Nat /\ groups * size \in Nat
      BY <1>1, <2>1
    <3>2. size - 1 \in Range0(size)
      BY <1>1 DEF Range0
    <3>3. g * size + (size - 1) \in Range0(groups * size)
      BY <1>3, <3>2
    <3> QED
      BY <1>1, <3>1, <3>3 DEF Range0
  <2> QED
    BY <1>1, <2>2
<1>7. T \in [0 .. size -> Int] /\ T[0] = 0
  <2>1. 0 \in 0 .. size /\ g * size + 0 = g * size
    BY <1>1 DEF Range0
  <2>2. \A m \in 0 .. size : X[g * size + m] \in Int /\ X[g * size] \in Int
    <3>1. X \in [0 .. groups * size -> Int]
      BY DEF size
    <3> QED
      BY <1>6, <2>1, <3>1
  <2>3. \A m \in 0 .. size : T[m] = X[g * size + m] - X[g * size]
    BY DEF GroupSums, size
  <2>4. T = [m \in 0 .. size |-> T[m]]
    BY DEF GroupSums, size
  <2>5. X[g * size] - X[g * size] = 0
    BY <2>1, <2>2
  <2> HIDE DEF T
  <2> QED
    BY <2>1, <2>2, <2>3, <2>4, <2>5
<1>8. \A c \in Range0(size) : B[c] = T[c + 1] - T[c]
  <2> SUFFICES ASSUME NEW c \in Range0(size)
               PROVE  B[c] = T[c + 1] - T[c]
    OBVIOUS
  <2>1. c \in 0 .. size /\ c + 1 \in 0 .. size /\ 0 \in 0 .. size /\ g * size + 0 = g * size
        /\ g * size + (c + 1) = (g * size + c) + 1
    BY <1>1 DEF Range0
  <2>2. /\ T[c] = X[g * size + c] - X[g * size]
        /\ T[c + 1] = X[g * size + (c + 1)] - X[g * size]
    BY <2>1 DEF GroupSums, size
  <2>3. B[c] = X[(g * size + c) + 1] - X[g * size + c]
    BY <1>3 DEF GroupCells, size
  <2>4. X[g * size + c] \in Int /\ X[g * size + (c + 1)] \in Int /\ X[g * size] \in Int
    BY <1>6, <2>1 DEF size
  <2>5. X[g * size + (c + 1)] = X[(g * size + c) + 1]
    BY <2>1
  <2> HIDE DEF T, B
  <2> QED
    BY ONLY <2>2, <2>3, <2>4, <2>5
<1> HIDE DEF T, K, D, B
<1>9. ScanNow(lv, T, 0, K, D)
  BY <1>4, ScanBegins DEF L
<1>10. Stored(lv, T, K, B)
  <2> SUFFICES ASSUME NEW j \in Range0(L), NEW c \in {2 * j, 2 * j + 1}
               PROVE  B[c] = T[c + 1] - T[c] /\ K[j] # 2 * lv + 2
    BY DEF Stored, L
  <2>1. c \in Range0(size)
    BY <1>1 DEF Range0
  <2> QED
    BY <1>4, <1>8, <2>1
<1> QED
  BY <1>5, <1>7, <1>9, <1>10 DEF GroupAt, Scanning, size, T, K, D, B

\* After the last segment.
Ended(lv, groups, f) ==
  groups \in Nat \ {0} /\ \A j \in Range0(groups * Pow2[lv - 1]) : f[j] = 2 * lv + 2

LEMMA GroupsEnd ==
  ASSUME NEW lv, NEW groups, NEW X, NEW f, NEW loc, NEW buf, Ended(lv, groups, f),
         GroupsAt(lv, groups, X, f, loc, buf), NEW g \in Range0(groups),
         NEW c \in Range0(Pow2[lv])
  PROVE  buf[g * Pow2[lv] + c] = X[g * Pow2[lv] + c] - X[g * Pow2[lv]]
<1> SUFFICES ASSUME groups \in Nat \ {0},
                    \A j \in Range0(groups * Pow2[lv - 1]) : f[j] = 2 * lv + 2
             PROVE  buf[g * Pow2[lv] + c] = X[g * Pow2[lv] + c] - X[g * Pow2[lv]]
  BY DEF Ended
<1> DEFINE T == GroupSums(lv, X, g)
           K == GroupDone(lv, f, g)
           B == GroupCells(lv, buf, g)
           L == Pow2[lv - 1]
<1>1. lv \in Nat \ {0} /\ Stored(lv, T, K, B)
  BY DEF GroupsAt, GroupAt
<1>2. L \in Nat \ {0} /\ Pow2[lv] = 2 * L
  <2>1. lv - 1 \in Nat /\ lv = (lv - 1) + 1
    BY <1>1
  <2> QED
    BY <2>1, Pow2Positive, Pow2Def
<1> DEFINE j == c \div 2
<1>3. j \in Range0(L) /\ c \in {2 * j, 2 * j + 1} /\ c \in Nat
  <2>1. c \in Nat /\ c < 2 * L
    BY <1>2 DEF Range0
  <2> HIDE DEF L
  <2> QED
    BY <1>2, <2>1 DEF Range0
<1> HIDE DEF j
<1>4. K[j] = 2 * lv + 2
  <2>1. g * L + j \in Range0(groups * L)
    BY <1>2, <1>3, Placed2
  <2> QED
    BY <1>3, <2>1 DEF GroupDone
<1>5. B[c] = T[c]
  <2> HIDE DEF T, K, B
  <2> QED
    BY <1>1, <1>3, <1>4 DEF Stored
<1>6. c \in 0 .. Pow2[lv]
  BY <1>2 DEF Range0
<1> QED
  BY <1>5, <1>6 DEF GroupSums, GroupCells

-----------------------------------------------------------------------------
(* The kernels that scan                                                    *)

\* A group of 2^(lv - 1) items, and the item i.
GroupSize(lv) ==
  lv \in Nat \ {0} /\ LocalSize = Pow2[lv - 1] /\ Pow2[lv] = 2 * Pow2[lv - 1]
    /\ Pow2[lv - 1] \in Nat \ {0}
BaseOf(lv, i) == (i \div Pow2[lv - 1]) * Pow2[lv]
LowCell(lv, i) == BaseOf(lv, i) + LowOf(lv, done[i], i % Pow2[lv - 1])
HighCell(lv, i) == BaseOf(lv, i) + HighOf(lv, done[i], i % Pow2[lv - 1])
Works(lv, i) == (i % Pow2[lv - 1]) * 2 * Pow2[ScanLevel(lv, done[i])] < Pow2[lv]

\* What an item does to the buffers: it loads its cells, adds on the way up, writes the
\* sum of the group at the top, adds and moves on the way down, and stores its cells.
Loads(from, l, h, p, q) == [gpu EXCEPT !.local[l] = gpu[from][p], !.local[h] = gpu[from][q]]
LocalSum(l, h) == [gpu.local EXCEPT ![h] = @ + gpu.local[l]]
Raises(l, h) == [gpu EXCEPT !.local = LocalSum(l, h)]
Tops(to, g, l, h, last) ==
  [IF to = "none" THEN gpu ELSE [gpu EXCEPT !.sums[g] = LocalSum(l, h)[last]]
     EXCEPT !.local = [LocalSum(l, h) EXCEPT ![last] = 0]]
Lowers(l, h) == [gpu EXCEPT !.local[l] = gpu.local[h], !.local[h] = @ + gpu.local[l]]
Stores(from, l, h, p, q) == [gpu EXCEPT ![from][p] = gpu.local[l], ![from][q] = gpu.local[h]]

LEMMA ScanLevels ==
  ASSUME NEW lv, GroupSize(lv)
  PROVE  Log2(2 * LocalSize) = lv
<1>1. 2 * LocalSize = Pow2[lv] /\ lv \in Nat
  BY DEF GroupSize
<1> QED
  BY <1>1, Log2OfPower

LEMMA ItemOfGroup ==
  ASSUME NEW L \in Nat \ {0}, NEW i \in Nat
  PROVE  i % L \in Range0(L) /\ i % L \in Nat
BY DivMod DEF Range0

LEMMA ScanPlaces ==
  ASSUME NEW lv, GroupSize(lv), NEW i \in Nat
  PROVE  /\ i % LocalSize = i % Pow2[lv - 1] /\ Group(i) = i \div Pow2[lv - 1]
         /\ Group(i) * (2 * LocalSize) = BaseOf(lv, i)
         /\ i % Pow2[lv - 1] \in Range0(Pow2[lv - 1]) /\ i % Pow2[lv - 1] \in Nat
         /\ Log2(2 * LocalSize) = lv
<1>1. lv \in Nat \ {0} /\ LocalSize = Pow2[lv - 1] /\ Pow2[lv] = 2 * Pow2[lv - 1]
  BY DEF GroupSize
<1>2. Pow2[lv - 1] \in Nat \ {0}
  BY DEF GroupSize
<1>3. i % Pow2[lv - 1] \in Range0(Pow2[lv - 1]) /\ i % Pow2[lv - 1] \in Nat
  BY ONLY <1>2, i \in Nat, ItemOfGroup
<1> QED
  BY <1>1, <1>3, ScanLevels DEF BaseOf, Group

\* The first segment and the last.
LEMMA ScanPairs ==
  ASSUME NEW lv, GroupSize(lv), NEW i \in Nat, done[i] \in {0, 2 * lv + 1}
  PROVE  /\ LowCell(lv, i) = 2 * i /\ HighCell(lv, i) = 2 * i + 1
         /\ BaseOf(lv, i) + 2 * (i % Pow2[lv - 1]) = 2 * i
         /\ BaseOf(lv, i) + (2 * (i % Pow2[lv - 1]) + 1) = 2 * i + 1
<1> DEFINE L == Pow2[lv - 1]
           it == i % L
           base == BaseOf(lv, i)
<1>1. lv \in Nat \ {0} /\ Pow2[lv] = 2 * L /\ L \in Nat \ {0}
  BY DEF GroupSize
<1>2. it \in Range0(L) /\ it \in Nat
  BY ScanPlaces
<1>3. done[i] \in 0 .. 2 * lv + 1
  BY <1>1
<1>4. LowOf(lv, done[i], it) = 2 * it /\ HighOf(lv, done[i], it) = 2 * it + 1
  BY <1>1, <1>2, <1>3, Cells
<1>5. base + 2 * it = 2 * i /\ base + (2 * it + 1) = 2 * i + 1
  <2> DEFINE q == i \div L
  <2>1. i = q * L + it /\ q \in Nat /\ base = q * (2 * L)
    BY <1>1, DivMod DEF BaseOf
  <2> HIDE DEF q, L, base, it
  <2>2. q * (2 * L) = 2 * (q * L) /\ q * L \in Nat
    BY <1>1, <2>1
  <2> QED
    BY <1>2, <2>1, <2>2
<1> QED
  BY <1>4, <1>5 DEF LowCell, HighCell

LEMMA ScanLoadsPair ==
  ASSUME NEW lv, GroupSize(lv), NEW i \in Nat, done[i] = 0, NEW from, NEW to, Scan(i, from, to)
  PROVE  gpu' = Loads(from, LowCell(lv, i), HighCell(lv, i), LowCell(lv, i), HighCell(lv, i))
<1> DEFINE it == i % Pow2[lv - 1]
           base == BaseOf(lv, i)
<1>1. lv \in Nat \ {0}
  BY DEF GroupSize
<1>2. done[i] = 0 /\ 0 \notin 1 .. lv /\ 0 \notin 1 .. lv - 1 /\ 0 # lv
      /\ 0 \notin lv + 1 .. 2 * lv
  BY <1>1
<1>3. i % LocalSize = it /\ Group(i) * (2 * LocalSize) = base /\ Log2(2 * LocalSize) = lv
  BY ScanPlaces
<1> HIDE DEF it, base
<1>4. gpu' = Loads(from, base + 2 * it, base + (2 * it + 1), 2 * i, 2 * i + 1)
  BY <1>2, <1>3 DEF Scan, Loads
<1>5. base + 2 * it = LowCell(lv, i) /\ base + (2 * it + 1) = HighCell(lv, i)
      /\ 2 * i = LowCell(lv, i) /\ 2 * i + 1 = HighCell(lv, i)
  BY ScanPairs DEF it, base
<1> QED
  BY ONLY <1>4, <1>5

LEMMA ScanStoresPair ==
  ASSUME NEW lv, GroupSize(lv), NEW i \in Nat, done[i] = 2 * lv + 1, NEW from, NEW to,
         Scan(i, from, to)
  PROVE  gpu' = Stores(from, LowCell(lv, i), HighCell(lv, i), LowCell(lv, i), HighCell(lv, i))
<1> DEFINE it == i % Pow2[lv - 1]
           base == BaseOf(lv, i)
<1>1. lv \in Nat \ {0}
  BY DEF GroupSize
<1>2. done[i] # 0 /\ done[i] \notin 1 .. lv /\ done[i] \notin 1 .. lv - 1 /\ done[i] # lv
      /\ done[i] \notin lv + 1 .. 2 * lv
  BY <1>1
<1>3. i % LocalSize = it /\ Group(i) * (2 * LocalSize) = base /\ Log2(2 * LocalSize) = lv
  BY ScanPlaces
<1> HIDE DEF it, base
<1>4. gpu' = Stores(from, base + 2 * it, base + (2 * it + 1), 2 * i, 2 * i + 1)
  BY <1>2, <1>3 DEF Scan, Stores
<1>5. base + 2 * it = LowCell(lv, i) /\ base + (2 * it + 1) = HighCell(lv, i)
      /\ 2 * i = LowCell(lv, i) /\ 2 * i + 1 = HighCell(lv, i)
  BY ScanPairs DEF it, base
<1> QED
  BY ONLY <1>4, <1>5

\* The segments on the way up and on the way down.
LEMMA ScanWorks ==
  ASSUME NEW lv, GroupSize(lv), NEW i \in Nat, done[i] \in 1 .. 2 * lv
  PROVE  LET P == Pow2[ScanLevel(lv, done[i])]
             it == i % Pow2[lv - 1]
         IN  /\ Works(lv, i) <=> it * 2 * P < 2 * LocalSize
             /\ ~Works(lv, i) <=> it * 2 * P >= 2 * LocalSize
             /\ LowCell(lv, i) = BaseOf(lv, i) + (P * (2 * it + 1) - 1)
             /\ HighCell(lv, i) = BaseOf(lv, i) + (P * (2 * it + 2) - 1)
             /\ P \in Nat
<1> DEFINE P == Pow2[ScanLevel(lv, done[i])]
           it == i % Pow2[lv - 1]
<1>1. lv \in Nat \ {0} /\ 2 * LocalSize = Pow2[lv] /\ Pow2[lv] \in Nat
  BY DEF GroupSize
<1>2. P \in Nat
  BY <1>1, ScanLevelType
<1>3. it \in Nat
  BY ScanPlaces
<1>4. Works(lv, i) <=> it * 2 * P < 2 * LocalSize
  BY <1>1 DEF Works
<1>5. LowCell(lv, i) = BaseOf(lv, i) + (P * (2 * it + 1) - 1)
      /\ HighCell(lv, i) = BaseOf(lv, i) + (P * (2 * it + 2) - 1)
  BY DEF LowCell, HighCell, LowOf, HighOf
<1> HIDE DEF it, P
<1>6. ~(it * 2 * P < 2 * LocalSize) <=> it * 2 * P >= 2 * LocalSize
  <2>1. it * 2 * P \in Nat /\ 2 * LocalSize \in Nat
    BY <1>1, <1>2, <1>3
  <2> QED
    BY ONLY <2>1
<1> QED
  BY <1>2, <1>4, <1>5, <1>6 DEF it, P

LEMMA ScanRests ==
  ASSUME NEW lv, GroupSize(lv), NEW i \in Nat, done[i] \in 1 .. 2 * lv, ~Works(lv, i),
         NEW from, NEW to, Scan(i, from, to)
  PROVE  gpu' = gpu
<1> DEFINE it == i % Pow2[lv - 1]
           P == Pow2[ScanLevel(lv, done[i])]
<1>1. lv \in Nat \ {0}
  BY DEF GroupSize
<1>3. i % LocalSize = it /\ Log2(2 * LocalSize) = lv
  BY ScanPlaces
<1>4. it * 2 * P >= 2 * LocalSize /\ ~(it * 2 * P < 2 * LocalSize)
  BY ScanWorks
<1> HIDE DEF it
<1>5. CASE done[i] \in 1 .. lv
  <2>1. P = Pow2[done[i] - 1] /\ done[i] # 0 /\ done[i] \notin lv + 1 .. 2 * lv
    BY <1>1, <1>5 DEF ScanLevel
  <2>2. it * 2 * Pow2[done[i] - 1] >= 2 * LocalSize /\ ~(it * 2 * Pow2[done[i] - 1] < 2 * LocalSize)
    BY <1>4, <2>1
  <2> HIDE DEF P
  <2> QED
    BY <1>3, <1>5, <2>1, <2>2 DEF Scan
<1>6. CASE done[i] \in lv + 1 .. 2 * lv
  <2>1. P = Pow2[2 * lv - done[i]] /\ done[i] # 0 /\ done[i] \notin 1 .. lv /\ done[i] # lv
        /\ done[i] \notin 1 .. lv - 1
    BY <1>1, <1>6 DEF ScanLevel
  <2>2. it * 2 * Pow2[2 * lv - done[i]] >= 2 * LocalSize
        /\ ~(it * 2 * Pow2[2 * lv - done[i]] < 2 * LocalSize)
    BY <1>4, <2>1
  <2> HIDE DEF P
  <2> QED
    BY <1>3, <1>6, <2>1, <2>2 DEF Scan
<1> QED
  BY <1>1, <1>5, <1>6

LEMMA ScanRises ==
  ASSUME NEW lv, GroupSize(lv), NEW i \in Nat, done[i] \in 1 .. lv - 1, Works(lv, i),
         NEW from, NEW to, Scan(i, from, to)
  PROVE  gpu' = Raises(LowCell(lv, i), HighCell(lv, i))
<1> DEFINE it == i % Pow2[lv - 1]
           P == Pow2[ScanLevel(lv, done[i])]
           base == BaseOf(lv, i)
<1>1. lv \in Nat \ {0}
  BY DEF GroupSize
<1>2. done[i] \in 1 .. 2 * lv /\ done[i] # 0 /\ done[i] \in 1 .. lv /\ done[i] # lv
      /\ done[i] \notin lv + 1 .. 2 * lv
  BY <1>1
<1>3. i % LocalSize = it /\ Log2(2 * LocalSize) = lv /\ Group(i) * (2 * LocalSize) = base
  BY ScanPlaces
<1>4. it * 2 * P < 2 * LocalSize /\ ~(it * 2 * P >= 2 * LocalSize)
      /\ LowCell(lv, i) = base + (P * (2 * it + 1) - 1)
      /\ HighCell(lv, i) = base + (P * (2 * it + 2) - 1)
  BY <1>2, ScanWorks
<1>5. P = Pow2[done[i] - 1]
  BY <1>1, <1>2 DEF ScanLevel
<1> HIDE DEF it, P, base
<1>6. it * 2 * Pow2[done[i] - 1] < 2 * LocalSize /\ ~(it * 2 * Pow2[done[i] - 1] >= 2 * LocalSize)
  BY <1>4, <1>5
<1>7. gpu' = Raises(base + (Pow2[done[i] - 1] * (2 * it + 1) - 1),
                    base + (Pow2[done[i] - 1] * (2 * it + 2) - 1))
  BY <1>2, <1>3, <1>6 DEF Scan, Raises, LocalSum
<1> QED
  BY ONLY <1>4, <1>5, <1>7

LEMMA ScanTops ==
  ASSUME NEW lv, GroupSize(lv), NEW i \in Nat, done[i] = lv, Works(lv, i),
         NEW from, NEW to, Scan(i, from, to)
  PROVE  gpu' = Tops(to, i \div Pow2[lv - 1], LowCell(lv, i), HighCell(lv, i), HighCell(lv, i))
<1> DEFINE it == i % Pow2[lv - 1]
           L == Pow2[lv - 1]
           base == BaseOf(lv, i)
           g == i \div Pow2[lv - 1]
<1>1. lv \in Nat \ {0} /\ LocalSize = L /\ L \in Nat \ {0}
  BY DEF GroupSize
<1>2. done[i] \in 1 .. 2 * lv /\ done[i] # 0 /\ done[i] \in 1 .. lv /\ done[i] \notin 1 .. lv - 1
      /\ done[i] \notin lv + 1 .. 2 * lv
  BY <1>1
<1>3. i % LocalSize = it /\ Log2(2 * LocalSize) = lv /\ Group(i) * (2 * LocalSize) = base
      /\ Group(i) = g /\ it \in Nat
  BY ScanPlaces
<1>4. Pow2[ScanLevel(lv, done[i])] = L /\ Pow2[done[i] - 1] = L
  BY <1>1, <1>2 DEF ScanLevel
<1>5. it * 2 * L < 2 * LocalSize /\ ~(it * 2 * L >= 2 * LocalSize)
      /\ LowCell(lv, i) = base + (L * (2 * it + 1) - 1)
      /\ HighCell(lv, i) = base + (L * (2 * it + 2) - 1)
  BY <1>2, <1>4, ScanWorks
<1> HIDE DEF it, L, base, g
<1>6. it * 2 * Pow2[done[i] - 1] < 2 * LocalSize /\ ~(it * 2 * Pow2[done[i] - 1] >= 2 * LocalSize)
  BY <1>4, <1>5
<1>7. gpu' = Tops(to, g, base + (Pow2[done[i] - 1] * (2 * it + 1) - 1),
                  base + (Pow2[done[i] - 1] * (2 * it + 2) - 1), base + (2 * LocalSize - 1))
  BY <1>2, <1>3, <1>6 DEF Scan, Tops, LocalSum
<1>8. it = 0
  <2> SUFFICES ASSUME it # 0
               PROVE  FALSE
    OBVIOUS
  <2> DEFINE e == it - 1
  <2>1. e \in Nat /\ it = e + 1
    BY <1>3
  <2> HIDE DEF e
  <2>2. it * 2 * L = e * 2 * L + 2 * L /\ e * 2 * L \in Nat
    BY ONLY <1>1, <2>1
  <2>3. it * 2 * L < 2 * L
    BY ONLY <1>1, <1>5
  <2> QED
    BY ONLY <1>1, <2>2, <2>3
<1>9. L * (2 * it + 2) - 1 = 2 * LocalSize - 1
  BY ONLY <1>1, <1>8
<1>10. base + (2 * LocalSize - 1) = HighCell(lv, i)
  BY ONLY <1>5, <1>9
<1> QED
  BY ONLY <1>4, <1>5, <1>7, <1>10 DEF g

LEMMA ScanFalls ==
  ASSUME NEW lv, GroupSize(lv), NEW i \in Nat, done[i] \in lv + 1 .. 2 * lv, Works(lv, i),
         NEW from, NEW to, Scan(i, from, to)
  PROVE  gpu' = Lowers(LowCell(lv, i), HighCell(lv, i))
<1> DEFINE it == i % Pow2[lv - 1]
           P == Pow2[ScanLevel(lv, done[i])]
           base == BaseOf(lv, i)
<1>1. lv \in Nat \ {0}
  BY DEF GroupSize
<1>2. done[i] \in 1 .. 2 * lv /\ done[i] # 0 /\ done[i] \notin 1 .. lv /\ done[i] # lv
      /\ done[i] \notin 1 .. lv - 1
  BY <1>1
<1>3. i % LocalSize = it /\ Log2(2 * LocalSize) = lv /\ Group(i) * (2 * LocalSize) = base
  BY ScanPlaces
<1>4. it * 2 * P < 2 * LocalSize /\ ~(it * 2 * P >= 2 * LocalSize)
      /\ LowCell(lv, i) = base + (P * (2 * it + 1) - 1)
      /\ HighCell(lv, i) = base + (P * (2 * it + 2) - 1)
  BY <1>2, ScanWorks
<1>5. P = Pow2[2 * lv - done[i]]
  BY <1>1, <1>2 DEF ScanLevel
<1> HIDE DEF it, P, base
<1>6. it * 2 * Pow2[2 * lv - done[i]] < 2 * LocalSize
      /\ ~(it * 2 * Pow2[2 * lv - done[i]] >= 2 * LocalSize)
  BY <1>4, <1>5
<1>7. gpu' = Lowers(base + (Pow2[2 * lv - done[i]] * (2 * it + 1) - 1),
                    base + (Pow2[2 * lv - done[i]] * (2 * it + 2) - 1))
  BY <1>2, <1>3, <1>6 DEF Scan, Lowers
<1> QED
  BY ONLY <1>4, <1>5, <1>7

Sources == {"histo", "sums"}
SameKeys == gpu'.keys = gpu.keys /\ gpu'.places = gpu.places /\ gpu'.in = gpu.in
              /\ gpu'.first = gpu.first
SameBut(f, f2, D, l, h) == \A c \in D : c # l /\ c # h => f2[c] = f[c]

LEMMA LoadsMoves ==
  ASSUME GpuOK, fun' = fun, NEW from \in Sources, NEW l, NEW h, l # h,
         l \in Range0(HistoSize), h \in Range0(HistoSize), l \in DOMAIN gpu[from],
         h \in DOMAIN gpu[from], gpu' = Loads(from, l, h, l, h)
  PROVE  /\ GpuOK' /\ SameKeys /\ gpu'.histo = gpu.histo /\ gpu'.sums = gpu.sums
         /\ SameBut(gpu.local, gpu'.local, Range0(HistoSize), l, h)
         /\ gpu'.local[l] = gpu[from][l] /\ gpu'.local[h] = gpu[from][h]
<1>1. gpu[from][l] \in Int /\ gpu[from][h] \in Int
  BY DEF GpuOK, Sources
<1> QED
  BY <1>1 DEF GpuOK, Loads, SameKeys, SameBut, HistoSize, Split, Radix

LEMMA RaisesMoves ==
  ASSUME GpuOK, fun' = fun, NEW l, NEW h, l # h, l \in Range0(HistoSize), h \in Range0(HistoSize),
         gpu' = Raises(l, h)
  PROVE  /\ GpuOK' /\ SameKeys /\ gpu'.histo = gpu.histo /\ gpu'.sums = gpu.sums
         /\ SameBut(gpu.local, gpu'.local, Range0(HistoSize), l, h)
         /\ gpu'.local[l] = gpu.local[l] /\ gpu'.local[h] = gpu.local[h] + gpu.local[l]
<1>1. gpu.local[l] \in Int /\ gpu.local[h] \in Int /\ gpu.local[h] + gpu.local[l] \in Int
  BY DEF GpuOK
<1> QED
  BY <1>1 DEF GpuOK, Raises, LocalSum, SameKeys, SameBut, HistoSize, Split, Radix

LEMMA TopsMoves ==
  ASSUME GpuOK, fun' = fun, NEW to \in {"sums", "none"}, NEW g, NEW l, NEW h, l # h,
         l \in Range0(HistoSize), h \in Range0(HistoSize), to = "sums" => g \in Range0(Split),
         gpu' = Tops(to, g, l, h, h)
  PROVE  /\ GpuOK' /\ SameKeys /\ gpu'.histo = gpu.histo
         /\ \A q \in Range0(Split) :
              gpu'.sums[q] = IF to = "sums" /\ q = g THEN gpu.local[h] + gpu.local[l]
                             ELSE gpu.sums[q]
         /\ to = "none" => gpu'.sums = gpu.sums
         /\ SameBut(gpu.local, gpu'.local, Range0(HistoSize), l, h)
         /\ gpu'.local[l] = gpu.local[l] /\ gpu'.local[h] = 0
<1>1. gpu.local[l] \in Int /\ gpu.local[h] \in Int /\ gpu.local[h] + gpu.local[l] \in Int
  BY DEF GpuOK
<1> DEFINE A == LocalSum(l, h)
<1>2. A \in [Range0(HistoSize) -> Int] /\ A[h] = gpu.local[h] + gpu.local[l] /\ A[l] = gpu.local[l]
      /\ \A c \in Range0(HistoSize) : c # h => A[c] = gpu.local[c]
  BY <1>1 DEF GpuOK, LocalSum
<1> DEFINE base == IF to = "none" THEN gpu ELSE [gpu EXCEPT !.sums[g] = A[h]]
<1>3. gpu' = [base EXCEPT !.local = [A EXCEPT ![h] = 0]]
  BY DEF Tops
<1> HIDE DEF A
<1> DEFINE M == [A EXCEPT ![h] = 0]
<1>4. M \in [Range0(HistoSize) -> Int] /\ M[h] = 0
      /\ \A c \in Range0(HistoSize) : c # h => M[c] = A[c]
  BY <1>2
<1> HIDE DEF M
<1>5. gpu' = [base EXCEPT !.local = M]
  BY <1>3 DEF M
<1>6. CASE to = "none"
  <2>1. gpu' = [gpu EXCEPT !.local = M]
    BY <1>5, <1>6
  <2> HIDE DEF base
  <2>2. GpuOK' /\ SameKeys /\ gpu'.histo = gpu.histo /\ gpu'.sums = gpu.sums /\ gpu'.local = M
    BY <1>4, <2>1 DEF GpuOK, SameKeys, HistoSize, Split, Radix
  <2> QED
    BY <1>2, <1>4, <1>6, <2>2 DEF SameBut
<1>7. CASE to = "sums"
  <2>1. base = [gpu EXCEPT !.sums[g] = A[h]] /\ A[h] \in Int
    BY <1>1, <1>2, <1>7
  <2> HIDE DEF base
  <2>2. /\ base \in [keys : [1 .. 2 -> [Range0(fun.n) -> Nat]],
                     places : [1 .. 2 -> [Range0(fun.n) -> Range0(fun.n)]], in : 1 .. 2,
                     histo : [Range0(HistoSize) -> Int], sums : [Range0(Split) -> Int],
                     local : [Range0(HistoSize) -> Int], first : Unset .. fun.n]
        /\ base.keys = gpu.keys /\ base.places = gpu.places /\ base.in = gpu.in
        /\ base.first = gpu.first /\ base.histo = gpu.histo
        /\ base.sums = [gpu.sums EXCEPT ![g] = A[h]]
    BY <2>1 DEF GpuOK
  <2>3. /\ GpuOK' /\ SameKeys /\ gpu'.histo = gpu.histo /\ gpu'.local = M
        /\ gpu'.sums = [gpu.sums EXCEPT ![g] = A[h]]
    BY <1>4, <1>5, <2>1, <2>2 DEF GpuOK, SameKeys, HistoSize, Split, Radix
  <2>4. \A q \in Range0(Split) : gpu'.sums[q] = IF q = g THEN A[h] ELSE gpu.sums[q]
    BY <1>7, <2>3 DEF GpuOK
  <2> QED
    BY <1>2, <1>4, <1>7, <2>3, <2>4 DEF SameBut
<1> QED
  BY <1>6, <1>7

LEMMA LowersMoves ==
  ASSUME GpuOK, fun' = fun, NEW l, NEW h, l # h, l \in Range0(HistoSize), h \in Range0(HistoSize),
         gpu' = Lowers(l, h)
  PROVE  /\ GpuOK' /\ SameKeys /\ gpu'.histo = gpu.histo /\ gpu'.sums = gpu.sums
         /\ SameBut(gpu.local, gpu'.local, Range0(HistoSize), l, h)
         /\ gpu'.local[l] = gpu.local[h] /\ gpu'.local[h] = gpu.local[h] + gpu.local[l]
<1>1. gpu.local[l] \in Int /\ gpu.local[h] \in Int /\ gpu.local[h] + gpu.local[l] \in Int
  BY DEF GpuOK
<1> QED
  BY <1>1 DEF GpuOK, Lowers, SameKeys, SameBut, HistoSize, Split, Radix

LEMMA StoresMoves ==
  ASSUME GpuOK, fun' = fun, NEW from \in Sources, NEW l, NEW h, l # h,
         l \in Range0(HistoSize), h \in Range0(HistoSize), l \in DOMAIN gpu[from],
         h \in DOMAIN gpu[from], gpu' = Stores(from, l, h, l, h)
  PROVE  /\ GpuOK' /\ SameKeys /\ gpu'.local = gpu.local
         /\ from = "sums" => gpu'.histo = gpu.histo
         /\ from = "histo" => gpu'.sums = gpu.sums
         /\ SameBut(gpu[from], gpu'[from], DOMAIN gpu[from], l, h)
         /\ gpu'[from][l] = gpu.local[l] /\ gpu'[from][h] = gpu.local[h]
<1>1. gpu.local[l] \in Int /\ gpu.local[h] \in Int
  BY DEF GpuOK
<1>2. CASE from = "histo"
  BY <1>1, <1>2 DEF GpuOK, Stores, SameKeys, SameBut, HistoSize, Split, Radix
<1>3. CASE from = "sums"
  BY <1>1, <1>3 DEF GpuOK, Stores, SameKeys, SameBut, HistoSize, Split, Radix
<1> QED
  BY <1>2, <1>3 DEF Sources

\* What an item of a scan does in the segment it is in.
ScanEffect(lv, i, from, to) ==
  LET s == done[i]
      l == LowCell(lv, i)
      h == HighCell(lv, i)
  IN  /\ GpuOK' /\ SameKeys
      /\ from = "sums" => gpu'.histo = gpu.histo
      /\ from = "histo" => \A q \in Range0(Split) :
            gpu'.sums[q] = IF to = "sums" /\ s = lv /\ Works(lv, i) /\ q = i \div Pow2[lv - 1]
                           THEN gpu.local[h] + gpu.local[l] ELSE gpu.sums[q]
      /\ s # 2 * lv + 1 \/ ~Works(lv, i) => gpu'[from] = gpu[from]
      /\ s = 2 * lv + 1 \/ ~Works(lv, i) => gpu'.local = gpu.local
      /\ SameBut(gpu.local, gpu'.local, Range0(HistoSize), l, h)
      /\ SameBut(gpu[from], gpu'[from], DOMAIN gpu[from], l, h)
      /\ Works(lv, i) =>
           /\ s = 0 => gpu'.local[l] = gpu[from][l] /\ gpu'.local[h] = gpu[from][h]
           /\ s \in 1 .. lv => gpu'.local[l] = gpu.local[l]
           /\ s \in 1 .. lv - 1 => gpu'.local[h] = gpu.local[h] + gpu.local[l]
           /\ s = lv => gpu'.local[h] = 0
           /\ s \in lv + 1 .. 2 * lv =>
                gpu'.local[l] = gpu.local[h] /\ gpu'.local[h] = gpu.local[h] + gpu.local[l]
           /\ s = 2 * lv + 1 =>
                gpu'[from][l] = gpu.local[l] /\ gpu'[from][h] = gpu.local[h]

\* A buffer and where the sums of the groups go.
Scans(from, to, groups, lv) ==
  /\ \/ from = "histo" /\ to = "sums" /\ groups = Split
     \/ from = "sums" /\ to = "none"
  /\ groups \in Nat \ {0} /\ groups * Pow2[lv] <= HistoSize
  /\ DOMAIN gpu[from] = Range0(groups * Pow2[lv])

\* Where the cells of an item that works are.
LEMMA ScanCells ==
  ASSUME NEW lv, GroupSize(lv), NEW groups \in Nat \ {0}, NEW i \in Range0(groups * Pow2[lv - 1]),
         done[i] \in 0 .. 2 * lv + 1
  PROVE  /\ i \in Nat /\ i \div Pow2[lv - 1] \in Range0(groups)
         /\ i % Pow2[lv - 1] \in Range0(Pow2[lv - 1])
         /\ Works(lv, i) <=> LowOf(lv, done[i], i % Pow2[lv - 1]) \in Range0(Pow2[lv])
         /\ Works(lv, i) <=> HighOf(lv, done[i], i % Pow2[lv - 1]) \in Range0(Pow2[lv])
         /\ LowCell(lv, i) # HighCell(lv, i)
         /\ done[i] \in {0, 2 * lv + 1} => Works(lv, i)
         /\ Works(lv, i) =>
              /\ LowCell(lv, i) \in Range0(groups * Pow2[lv])
              /\ HighCell(lv, i) \in Range0(groups * Pow2[lv])
              /\ LowCell(lv, i) \div Pow2[lv] = i \div Pow2[lv - 1]
              /\ HighCell(lv, i) \div Pow2[lv] = i \div Pow2[lv - 1]
<1> DEFINE L == Pow2[lv - 1]
           size == Pow2[lv]
           g == i \div L
           it == i % L
           s == done[i]
           lo == LowOf(lv, s, it)
           hi == HighOf(lv, s, it)
<1>1. lv \in Nat \ {0} /\ L \in Nat \ {0} /\ size = 2 * L /\ size \in Nat \ {0}
  BY DEF GroupSize
<1>2. g \in Range0(groups) /\ it \in Range0(L) /\ i = g * L + it
  <2>1. i \in Range0(groups * L)
    OBVIOUS
  <2> HIDE DEF L
  <2> QED
    BY <1>1, <2>1, Places
<1>3. g \in Nat /\ i \in Nat
  <2>1. groups * L \in Nat
    BY <1>1
  <2> HIDE DEF g, L
  <2> QED
    BY <1>2, <2>1 DEF Range0
<1>4. /\ it \in Nat /\ 2 * it \in Range0(size) /\ 2 * it + 1 \in Range0(size)
      /\ s = 0 \/ s = 2 * lv + 1 => lo = 2 * it /\ hi = 2 * it + 1
      /\ lo \in Nat /\ hi \in Nat /\ lo # hi
      /\ lo \in Range0(size) <=> hi \in Range0(size)
      /\ lo \in Range0(size) <=> it * 2 * Pow2[ScanLevel(lv, s)] < size
  BY <1>1, <1>2, Cells
<1>5. Works(lv, i) <=> lo \in Range0(size)
  BY <1>4 DEF Works
<1>6. LowCell(lv, i) = g * size + lo /\ HighCell(lv, i) = g * size + hi
  BY DEF LowCell, HighCell, BaseOf
<1> HIDE DEF lo, hi, it, g, s, size, L
<1>7. g * size + lo # g * size + hi
  <2>1. g * size \in Nat
    BY <1>1, <1>3
  <2> QED
    BY <1>4, <2>1
<1>8. s \in {0, 2 * lv + 1} => Works(lv, i)
  BY <1>4, <1>5
<1>9. Works(lv, i) =>
        /\ g * size + lo \in Range0(groups * size) /\ (g * size + lo) \div size = g
        /\ g * size + hi \in Range0(groups * size) /\ (g * size + hi) \div size = g
  BY <1>1, <1>2, <1>4, <1>5, Placed2
<1> QED
  BY <1>2, <1>3, <1>4, <1>5, <1>6, <1>7, <1>8, <1>9 DEF lo, hi, it, g, s, size, L

LEMMA ScanHasEffect ==
  ASSUME NEW lv, GroupSize(lv), NEW groups, NEW from, NEW to, Scans(from, to, groups, lv),
         NEW i \in Range0(groups * Pow2[lv - 1]), done[i] \in 0 .. 2 * lv + 1,
         GpuOK, fun' = fun, Scan(i, from, to)
  PROVE  ScanEffect(lv, i, from, to)
<1> DEFINE l == LowCell(lv, i)
           h == HighCell(lv, i)
           g == i \div Pow2[lv - 1]
<1>1. /\ lv \in Nat \ {0} /\ groups \in Nat \ {0} /\ groups * Pow2[lv] <= HistoSize
      /\ DOMAIN gpu[from] = Range0(groups * Pow2[lv]) /\ Pow2[lv] \in Nat
      /\ HistoSize \in Nat
  BY Sizes DEF Scans, GroupSize
<1>2. i \in Nat /\ l # h /\ g \in Range0(groups)
      /\ (done[i] \in {0, 2 * lv + 1} => Works(lv, i))
  BY <1>1, ScanCells
<1>3. Works(lv, i) => l \in Range0(HistoSize) /\ h \in Range0(HistoSize)
                       /\ l \in DOMAIN gpu[from] /\ h \in DOMAIN gpu[from]
  <2>1. Works(lv, i) => l \in Range0(groups * Pow2[lv]) /\ h \in Range0(groups * Pow2[lv])
    BY <1>1, ScanCells
  <2>2. Range0(groups * Pow2[lv]) \subseteq Range0(HistoSize)
    <3>1. groups * Pow2[lv] \in Nat
      BY <1>1
    <3> QED
      BY <1>1, <3>1 DEF Range0
  <2> QED
    BY <1>1, <2>1, <2>2
<1>4. /\ from \in Sources /\ to \in {"sums", "none"}
      /\ from = "histo" => to = "sums" /\ groups = Split
      /\ (from = "sums" => to = "none")
  BY DEF Scans, Sources
<1>5. CASE ~Works(lv, i)
  <2>1. done[i] \in 1 .. 2 * lv
    BY <1>1, <1>2, <1>5
  <2>2. gpu' = gpu
    BY <1>2, <1>5, <2>1, ScanRests
  <2> QED
    BY <1>5, <2>2 DEF ScanEffect, SameKeys, SameBut, GpuOK, HistoSize, Split, Radix
<1>6. CASE Works(lv, i) /\ done[i] = 0
  <2>1. gpu' = Loads(from, l, h, l, h)
    BY <1>2, <1>6, ScanLoadsPair
  <2> HIDE DEF l, h, g
  <2>2. /\ GpuOK' /\ SameKeys /\ gpu'.histo = gpu.histo /\ gpu'.sums = gpu.sums
        /\ SameBut(gpu.local, gpu'.local, Range0(HistoSize), l, h)
        /\ gpu'.local[l] = gpu[from][l] /\ gpu'.local[h] = gpu[from][h]
    BY <1>2, <1>3, <1>4, <1>6, <2>1, LoadsMoves
  <2> QED
    BY <1>1, <1>4, <1>6, <2>2 DEF ScanEffect, SameBut, Sources, l, h
<1>7. CASE Works(lv, i) /\ done[i] \in 1 .. lv - 1
  <2>1. gpu' = Raises(l, h)
    BY <1>2, <1>7, ScanRises
  <2> HIDE DEF l, h, g
  <2>2. /\ GpuOK' /\ SameKeys /\ gpu'.histo = gpu.histo /\ gpu'.sums = gpu.sums
        /\ SameBut(gpu.local, gpu'.local, Range0(HistoSize), l, h)
        /\ gpu'.local[l] = gpu.local[l] /\ gpu'.local[h] = gpu.local[h] + gpu.local[l]
    BY <1>2, <1>3, <1>4, <1>7, <2>1, RaisesMoves
  <2> QED
    BY <1>1, <1>4, <1>7, <2>2 DEF ScanEffect, SameBut, Sources, l, h
<1>8. CASE Works(lv, i) /\ done[i] = lv
  <2>1. gpu' = Tops(to, g, l, h, h)
    BY <1>2, <1>8, ScanTops
  <2>0. to = "sums" => g \in Range0(Split)
    BY <1>2, <1>4 DEF Sources
  <2> HIDE DEF l, h, g
  <2>2. /\ GpuOK' /\ SameKeys /\ gpu'.histo = gpu.histo
        /\ \A q \in Range0(Split) :
              gpu'.sums[q] = IF to = "sums" /\ q = g THEN gpu.local[h] + gpu.local[l]
                             ELSE gpu.sums[q]
        /\ to = "none" => gpu'.sums = gpu.sums
        /\ SameBut(gpu.local, gpu'.local, Range0(HistoSize), l, h)
        /\ gpu'.local[l] = gpu.local[l] /\ gpu'.local[h] = 0
    BY <1>2, <1>3, <1>4, <1>8, <2>0, <2>1, TopsMoves
  <2> QED
    BY <1>1, <1>4, <1>8, <2>2 DEF ScanEffect, SameBut, Sources, l, h, g
<1>9. CASE Works(lv, i) /\ done[i] \in lv + 1 .. 2 * lv
  <2>1. gpu' = Lowers(l, h)
    BY <1>2, <1>9, ScanFalls
  <2> HIDE DEF l, h, g
  <2>2. /\ GpuOK' /\ SameKeys /\ gpu'.histo = gpu.histo /\ gpu'.sums = gpu.sums
        /\ SameBut(gpu.local, gpu'.local, Range0(HistoSize), l, h)
        /\ gpu'.local[l] = gpu.local[h] /\ gpu'.local[h] = gpu.local[h] + gpu.local[l]
    BY <1>2, <1>3, <1>4, <1>9, <2>1, LowersMoves
  <2> QED
    BY <1>1, <1>4, <1>9, <2>2 DEF ScanEffect, SameBut, Sources, l, h
<1>10. CASE Works(lv, i) /\ done[i] = 2 * lv + 1
  <2>1. gpu' = Stores(from, l, h, l, h)
    BY <1>2, <1>10, ScanStoresPair
  <2> HIDE DEF l, h, g
  <2>2. /\ GpuOK' /\ SameKeys /\ gpu'.local = gpu.local
        /\ from = "sums" => gpu'.histo = gpu.histo
        /\ from = "histo" => gpu'.sums = gpu.sums
        /\ SameBut(gpu[from], gpu'[from], DOMAIN gpu[from], l, h)
        /\ gpu'[from][l] = gpu.local[l] /\ gpu'[from][h] = gpu.local[h]
    BY <1>2, <1>3, <1>4, <1>10, <2>1, StoresMoves
  <2> QED
    BY <1>1, <1>4, <1>10, <2>2 DEF ScanEffect, SameBut, Sources, l, h
<1> QED
  BY <1>1, <1>5, <1>6, <1>7, <1>8, <1>9, <1>10

\* An item of a scan goes through its segment.
LEMMA ScanGroupStep ==
  ASSUME NEW lv, GroupSize(lv), NEW groups, NEW from, NEW to, Scans(from, to, groups, lv),
         NEW i \in Range0(groups * Pow2[lv - 1]), done[i] \in 0 .. 2 * lv + 1,
         ScanEffect(lv, i, from, to)
  PROVE  GroupStep(lv, done[i], i % Pow2[lv - 1], GroupCells(lv, gpu.local, i \div Pow2[lv - 1]),
                   GroupCells(lv, gpu[from], i \div Pow2[lv - 1]),
                   GroupCells(lv, gpu'.local, i \div Pow2[lv - 1]),
                   GroupCells(lv, gpu'[from], i \div Pow2[lv - 1]))
<1> DEFINE size == Pow2[lv]
           g == i \div Pow2[lv - 1]
           it == i % Pow2[lv - 1]
           s == done[i]
           lo == LowOf(lv, s, it)
           hi == HighOf(lv, s, it)
           W == Works(lv, i)
           cell(c) == g * size + c
           D == GroupCells(lv, gpu.local, g)
           B == GroupCells(lv, gpu[from], g)
           D2 == GroupCells(lv, gpu'.local, g)
           B2 == GroupCells(lv, gpu'[from], g)
<1>1. /\ lv \in Nat \ {0} /\ groups \in Nat \ {0} /\ groups * size <= HistoSize
      /\ DOMAIN gpu[from] = Range0(groups * size) /\ size \in Nat \ {0} /\ HistoSize \in Nat
  BY Sizes DEF Scans, GroupSize
<1>2. /\ i \in Nat /\ g \in Range0(groups) /\ it \in Range0(Pow2[lv - 1])
      /\ W <=> lo \in Range0(size)
      /\ W <=> hi \in Range0(size)
  <2>1. /\ i \in Nat /\ i \div Pow2[lv - 1] \in Range0(groups)
        /\ i % Pow2[lv - 1] \in Range0(Pow2[lv - 1])
    BY <1>1, ScanCells
  <2>2. /\ Works(lv, i) <=> LowOf(lv, done[i], i % Pow2[lv - 1]) \in Range0(Pow2[lv])
        /\ Works(lv, i) <=> HighOf(lv, done[i], i % Pow2[lv - 1]) \in Range0(Pow2[lv])
    BY <1>1, ScanCells
  <2> QED
    BY <2>1, <2>2
<1>3. LowCell(lv, i) = cell(lo) /\ HighCell(lv, i) = cell(hi)
  BY DEF LowCell, HighCell, BaseOf
<1>4. /\ \A c \in Int : Owns(lv, s, it, c) <=> c = lo \/ c = hi
      /\ lo \in Nat /\ hi \in Nat
  <2>1. s \in 0 .. 2 * lv + 1 /\ lv \in Nat \ {0} /\ it \in Range0(Pow2[lv - 1])
    BY <1>1, <1>2
  <2> HIDE DEF s, it
  <2> QED
    BY ONLY <2>1, Cells DEF lo, hi
<1>5. \A c \in Range0(size) :
        /\ D[c] = gpu.local[cell(c)] /\ D2[c] = gpu'.local[cell(c)]
        /\ B[c] = gpu[from][cell(c)] /\ B2[c] = gpu'[from][cell(c)]
  BY DEF GroupCells
<1>6. \A c \in Range0(size) :
        c \in Nat /\ cell(c) \in Range0(HistoSize) /\ cell(c) \in DOMAIN gpu[from]
  <2>1. \A c \in Range0(size) : cell(c) \in Range0(groups * size)
    <3> HIDE DEF g, size
    <3> QED
      BY <1>1, <1>2, Placed2
  <2>2. Range0(groups * size) \subseteq Range0(HistoSize)
    <3> HIDE DEF size
    <3>1. groups * size \in Nat
      BY <1>1
    <3> QED
      BY <1>1, <3>1 DEF Range0
  <2>3. \A c \in Range0(size) : c \in Nat
    BY <1>1 DEF Range0
  <2> QED
    BY <1>1, <2>1, <2>2, <2>3
<1>7. \A c \in Nat : (cell(c) = cell(lo) => c = lo) /\ (cell(c) = cell(hi) => c = hi)
  <2>1. g * size \in Nat
    <3>1. g \in Nat
      BY <1>1, <1>2 DEF Range0
    <3> HIDE DEF g, size
    <3> QED
      BY <1>1, <3>1
  <2> HIDE DEF g, size, lo, hi
  <2> QED
    BY ONLY <1>4, <2>1 DEF cell
<1>8. /\ s # 2 * lv + 1 \/ ~W => gpu'[from] = gpu[from]
      /\ s = 2 * lv + 1 \/ ~W => gpu'.local = gpu.local
      /\ \A p \in Range0(HistoSize) : p # cell(lo) /\ p # cell(hi) => gpu'.local[p] = gpu.local[p]
      /\ \A p \in DOMAIN gpu[from] : p # cell(lo) /\ p # cell(hi) => gpu'[from][p] = gpu[from][p]
  <2> HIDE DEF lo, hi, g, it, size
  <2> QED
    BY ONLY <1>3, ScanEffect(lv, i, from, to) DEF ScanEffect, SameBut, W, s
<1>9. W =>
           /\ s = 0 => gpu'.local[cell(lo)] = gpu[from][cell(lo)]
                       /\ gpu'.local[cell(hi)] = gpu[from][cell(hi)]
           /\ s \in 1 .. lv => gpu'.local[cell(lo)] = gpu.local[cell(lo)]
           /\ s \in 1 .. lv - 1 =>
                gpu'.local[cell(hi)] = gpu.local[cell(hi)] + gpu.local[cell(lo)]
           /\ s = lv => gpu'.local[cell(hi)] = 0
           /\ s \in lv + 1 .. 2 * lv =>
                gpu'.local[cell(lo)] = gpu.local[cell(hi)]
                  /\ gpu'.local[cell(hi)] = gpu.local[cell(hi)] + gpu.local[cell(lo)]
           /\ s = 2 * lv + 1 =>
                gpu'[from][cell(lo)] = gpu.local[cell(lo)]
                  /\ gpu'[from][cell(hi)] = gpu.local[cell(hi)]
  <2> HIDE DEF lo, hi, g, it, size
  <2> QED
    BY ONLY <1>3, ScanEffect(lv, i, from, to) DEF ScanEffect, W, s
<1> HIDE DEF D, B, D2, B2, cell, lo, hi, W, s, it, g, size
<1>10. \A c \in Range0(size) : ~Owns(lv, s, it, c) => D2[c] = D[c] /\ B2[c] = B[c]
  <2> SUFFICES ASSUME NEW c \in Range0(size), ~Owns(lv, s, it, c)
               PROVE  D2[c] = D[c] /\ B2[c] = B[c]
    OBVIOUS
  <2>1. c # lo /\ c # hi /\ c \in Nat
    BY <1>4, <1>6
  <2>2. cell(c) # cell(lo) /\ cell(c) # cell(hi)
    BY <1>7, <2>1
  <2> QED
    BY <1>5, <1>6, <1>8, <2>2
<1>11. s # 2 * lv + 1 => \A c \in Range0(size) : B2[c] = B[c]
  BY <1>5, <1>8
<1>12. ASSUME lo \in Range0(size)
       PROVE  /\ s = 0 => D2[lo] = B[lo] /\ D2[hi] = B[hi]
              /\ s \in 1 .. lv => D2[lo] = D[lo]
              /\ s \in 1 .. lv - 1 => D2[hi] = D[hi] + D[lo]
              /\ s = lv => D2[hi] = 0
              /\ s \in lv + 1 .. 2 * lv => D2[lo] = D[hi] /\ D2[hi] = D[hi] + D[lo]
              /\ s = 2 * lv + 1 =>
                   D2[lo] = D[lo] /\ D2[hi] = D[hi] /\ B2[lo] = D[lo] /\ B2[hi] = D[hi]
  <2>1. W /\ hi \in Range0(size)
    BY <1>2, <1>12
  <2>2. /\ D[lo] = gpu.local[cell(lo)] /\ D2[lo] = gpu'.local[cell(lo)]
        /\ B[lo] = gpu[from][cell(lo)] /\ B2[lo] = gpu'[from][cell(lo)]
        /\ D[hi] = gpu.local[cell(hi)] /\ D2[hi] = gpu'.local[cell(hi)]
        /\ B[hi] = gpu[from][cell(hi)] /\ B2[hi] = gpu'[from][cell(hi)]
    <3>1. /\ D[lo] = gpu.local[cell(lo)] /\ D2[lo] = gpu'.local[cell(lo)]
          /\ B[lo] = gpu[from][cell(lo)] /\ B2[lo] = gpu'[from][cell(lo)]
      BY ONLY <1>5, <1>12
    <3>2. /\ D[hi] = gpu.local[cell(hi)] /\ D2[hi] = gpu'.local[cell(hi)]
          /\ B[hi] = gpu[from][cell(hi)] /\ B2[hi] = gpu'[from][cell(hi)]
      BY ONLY <1>5, <2>1
    <3> QED
      BY ONLY <3>1, <3>2
  <2>3. s = 0 => D2[lo] = B[lo] /\ D2[hi] = B[hi]
    BY ONLY <1>9, <2>1, <2>2
  <2>4. s \in 1 .. lv => D2[lo] = D[lo]
    BY ONLY <1>9, <2>1, <2>2
  <2>5. ASSUME s \in 1 .. lv - 1
        PROVE  D2[hi] = D[hi] + D[lo]
    <3>1. gpu'.local[cell(hi)] = gpu.local[cell(hi)] + gpu.local[cell(lo)]
      BY ONLY <1>9, <2>1, <2>5
    <3> QED
      BY ONLY <2>2, <3>1
  <2>6. s = lv => D2[hi] = 0
    BY ONLY <1>9, <2>1, <2>2
  <2>7. s \in lv + 1 .. 2 * lv => D2[lo] = D[hi] /\ D2[hi] = D[hi] + D[lo]
    BY ONLY <1>9, <2>1, <2>2
  <2>8. s = 2 * lv + 1 =>
          D2[lo] = D[lo] /\ D2[hi] = D[hi] /\ B2[lo] = D[lo] /\ B2[hi] = D[hi]
    BY ONLY <1>8, <1>9, <2>1, <2>2
  <2> QED
    BY ONLY <2>3, <2>4, <2>5, <2>6, <2>7, <2>8
<1> QED
  BY <1>10, <1>11, <1>12 DEF GroupStep, D, B, D2, B2, lo, hi, s, it, g, size

LEMMA ScanItem ==
  ASSUME NEW lv, GroupSize(lv), NEW groups, NEW from, NEW to, Scans(from, to, groups, lv),
         NEW i \in Range0(groups * Pow2[lv - 1]), done[i] \in 0 .. 2 * lv + 1,
         ScanEffect(lv, i, from, to), GlobalSize = groups * Pow2[lv - 1], AtBarrier(i),
         Range0(groups * Pow2[lv - 1]) \subseteq DOMAIN done, done' = [done EXCEPT ![i] = @ + 1]
  PROVE  ItemScans(lv, groups, Pow2[lv - 1], i, done, gpu.local, gpu[from], done', gpu'.local,
                   gpu'[from])
<1> DEFINE size == Pow2[lv]
           L == Pow2[lv - 1]
           g == i \div L
<1>1. /\ lv \in Nat \ {0} /\ groups \in Nat \ {0} /\ groups * size <= HistoSize
      /\ DOMAIN gpu[from] = Range0(groups * size) /\ size \in Nat \ {0} /\ HistoSize \in Nat
      /\ LocalSize = L
  BY Sizes DEF Scans, GroupSize
<1>2. \A j \in Range0(groups * L) : j \div L = i \div L => done[j] >= done[i]
  BY <1>1 DEF AtBarrier, Group
<1>3. done'[i] = done[i] + 1 /\ \A j \in Range0(groups * L) : j # i => done'[j] = done[j]
  OBVIOUS
<1>4. \A p \in Range0(groups * size) :
        p \div size # g => gpu'.local[p] = gpu.local[p] /\ gpu'[from][p] = gpu[from][p]
  <2> SUFFICES ASSUME NEW p \in Range0(groups * size), p \div size # g
               PROVE  gpu'.local[p] = gpu.local[p] /\ gpu'[from][p] = gpu[from][p]
    OBVIOUS
  <2>1. p \in Range0(HistoSize) /\ p \in DOMAIN gpu[from]
    <3>1. Range0(groups * size) \subseteq Range0(HistoSize)
      <4>1. groups * size \in Nat
        BY <1>1
      <4> HIDE DEF size
      <4> QED
        BY <1>1, <4>1 DEF Range0
    <3> QED
      BY <1>1, <3>1
  <2>2. CASE ~Works(lv, i)
    BY <2>2 DEF ScanEffect
  <2>3. CASE Works(lv, i)
    <3>1. LowCell(lv, i) \div size = g /\ HighCell(lv, i) \div size = g
      BY <1>1, <2>3, ScanCells
    <3>2. p # LowCell(lv, i) /\ p # HighCell(lv, i)
      BY <3>1
    <3> QED
      BY <2>1, <3>2 DEF ScanEffect, SameBut
  <2> QED
    BY <2>2, <2>3
<1>5. GroupStep(lv, done[i], i % L, GroupCells(lv, gpu.local, g), GroupCells(lv, gpu[from], g),
                GroupCells(lv, gpu'.local, g), GroupCells(lv, gpu'[from], g))
  BY ScanGroupStep
<1> HIDE DEF L, g, size
<1> QED
  BY <1>1, <1>2, <1>3, <1>4, <1>5 DEF ItemScans, L, g, size

-----------------------------------------------------------------------------
(* Counting the keys                                                        *)

Parts == Groups * Items
DigitOf(e, K, q) == (K[q] \div Pow2[e * Bits]) % Radix
PartOf(n, q) == q \div (n \div Parts)

\* The cell of the histogram in which the key at q is counted.
ColOf(n, e, K, q) == DigitOf(e, K, q) * Parts + PartOf(n, q)
CountBelow(n, e, K, m) == Cardinality({q \in Range0(n) : ColOf(n, e, K, q) < m})
Before(n, e, K) == [m \in 0 .. HistoSize |-> CountBelow(n, e, K, m)]

\* By the digit, and among those with the same digit as they stand.
KeyOrder(n, e, K) ==
  {p \in Range0(n) \X Range0(n) :
     \/ DigitOf(e, K, p[1]) < DigitOf(e, K, p[2])
     \/ DigitOf(e, K, p[1]) = DigitOf(e, K, p[2]) /\ p[1] < p[2]}

KeysOK(n, e, K) ==
  n \in Nat \ {0} /\ n % Parts = 0 /\ e \in Nat /\ K \in [Range0(n) -> Nat]

LEMMA PartSizes ==
  ASSUME NEW n \in Nat \ {0}, n % Parts = 0
  PROVE  n \div Parts \in Nat \ {0} /\ n = Parts * (n \div Parts) /\ Parts \in Nat \ {0}
<1>1. Parts \in Nat \ {0}
  BY Sizes DEF Parts
<1> HIDE DEF Parts
<1> DEFINE s == n \div Parts
<1>2. s \in Nat /\ n = s * Parts
  <2>1. n \div Parts \in Nat /\ n = (n \div Parts) * Parts + (n % Parts)
    BY <1>1, DivMod
  <2>2. (n \div Parts) * Parts \in Nat
    BY <1>1, <2>1
  <2> HIDE DEF s
  <2> QED
    BY <2>1, <2>2 DEF s
<1> HIDE DEF s
<1>3. s # 0
  BY <1>1, <1>2
<1>4. s * Parts = Parts * s
  BY <1>1, <1>2
<1> QED
  BY <1>1, <1>2, <1>3, <1>4 DEF s

LEMMA ColType ==
  ASSUME NEW n, NEW e, NEW K, KeysOK(n, e, K), NEW q \in Range0(n)
  PROVE  /\ PartOf(n, q) \in Range0(Parts) /\ DigitOf(e, K, q) \in Range0(Radix)
         /\ PartOf(n, q) \in Nat /\ DigitOf(e, K, q) \in Nat
         /\ ColOf(n, e, K, q) \in Range0(HistoSize) /\ ColOf(n, e, K, q) \in Nat
         /\ ColOf(n, e, K, q) % Parts = PartOf(n, q)
<1>1. n \in Nat \ {0} /\ n % Parts = 0 /\ e \in Nat /\ K \in [Range0(n) -> Nat]
  BY DEF KeysOK
<1> DEFINE s == n \div Parts
<1>2. s \in Nat \ {0} /\ n = Parts * s /\ Parts \in Nat \ {0}
  BY <1>1, PartSizes
<1>3. PartOf(n, q) \in Range0(Parts)
  <2> HIDE DEF s
  <2>1. q \in Range0(Parts * s)
    BY <1>2
  <2>2. q \div s \in Range0(Parts)
    BY ONLY <1>2, <2>1, Places
  <2> QED
    BY <2>2 DEF PartOf, s
<1>4. Radix \in Nat \ {0} /\ HistoSize = Radix * Parts
  BY Sizes DEF Parts
<1>5. DigitOf(e, K, q) \in Range0(Radix)
  <2> DEFINE d == Pow2[e * Bits]
             x == K[q] \div d
  <2>1. d \in Nat \ {0}
    <3>1. e * Bits \in Nat
      BY <1>1, BitsAssumption
    <3> QED
      BY <3>1, Pow2Positive
  <2> HIDE DEF d
  <2>2. x \in Nat
    BY <1>1, <2>1, DivMod
  <2> HIDE DEF x
  <2>3. x % Radix \in 0 .. Radix - 1
    BY <1>4, <2>2, DivMod
  <2> QED
    BY <2>3 DEF DigitOf, Range0, x, d
<1> DEFINE dg == DigitOf(e, K, q)
           pt == PartOf(n, q)
<1> HIDE DEF dg, pt
<1>6. dg * Parts + pt \in Range0(Radix * Parts) /\ (dg * Parts + pt) % Parts = pt
  BY <1>2, <1>3, <1>4, <1>5, Placed2 DEF dg, pt
<1>7. pt \in Nat /\ dg \in Nat
  BY <1>2, <1>3, <1>4, <1>5 DEF Range0, pt, dg
<1>8. dg * Parts + pt \in Nat
  BY <1>2, <1>7
<1> QED
  BY <1>3, <1>4, <1>5, <1>6, <1>7, <1>8 DEF ColOf, dg, pt

LEMMA PartIs ==
  ASSUME NEW n, NEW e, NEW K, KeysOK(n, e, K), NEW i \in Range0(Parts)
  PROVE  i * (n \div Parts) .. (i + 1) * (n \div Parts) - 1 = {q \in Range0(n) : PartOf(n, q) = i}
<1>1. n \in Nat \ {0} /\ n % Parts = 0
  BY DEF KeysOK
<1> DEFINE s == n \div Parts
<1>2. s \in Nat \ {0} /\ n = Parts * s /\ Parts \in Nat \ {0}
  BY <1>1, PartSizes
<1>3. i \in Nat
  BY <1>2 DEF Range0
<1> HIDE DEF s
<1>4. (i + 1) * s = i * s + s /\ i * s \in Nat
  BY <1>2, <1>3
<1>5. ASSUME NEW q \in i * s .. (i + 1) * s - 1
      PROVE  q \in Range0(n) /\ q \div s = i
  <2> DEFINE r == q - i * s
  <2>1. r \in Range0(s) /\ q = i * s + r
    BY <1>2, <1>4, <1>5 DEF Range0
  <2> HIDE DEF r
  <2>2. i * s + r \in Range0(Parts * s) /\ (i * s + r) \div s = i
    BY <1>2, <2>1, Placed2
  <2> QED
    BY <1>2, <2>1, <2>2
<1>6. ASSUME NEW q \in Range0(n), q \div s = i
      PROVE  q \in i * s .. (i + 1) * s - 1
  <2>1. q \in Nat
    BY <1>2, <1>1 DEF Range0
  <2>2. q % s \in 0 .. s - 1 /\ q = (q \div s) * s + (q % s)
    BY <1>2, <2>1, DivMod
  <2> QED
    BY <1>2, <1>4, <1>6, <2>1, <2>2
<1> QED
  BY <1>5, <1>6 DEF PartOf, s

\* A set of elements of a row is finite, and a part of it is not larger.
LEMMA Counted ==
  ASSUME NEW n \in Nat, NEW S \in SUBSET Range0(n)
  PROVE  IsFiniteSet(S) /\ Cardinality(S) \in Nat /\ Cardinality(S) <= n
<1>1. IsFiniteSet(Range0(n)) /\ Cardinality(Range0(n)) = n
  BY RangeSize
<1> QED
  BY <1>1, FS_Subset, FS_CardinalityType

LEMMA CountedApart ==
  ASSUME NEW n \in Nat, NEW S \in SUBSET Range0(n), NEW T \in SUBSET Range0(n), S \cap T = {}
  PROVE  Cardinality(S \cup T) = Cardinality(S) + Cardinality(T)
<1>1. IsFiniteSet(S) /\ IsFiniteSet(T) /\ Cardinality(S) \in Nat /\ Cardinality(T) \in Nat
  BY Counted
<1>2. Cardinality(S \cap T) = 0
  BY FS_EmptySet
<1>3. Cardinality(S \cup T) = Cardinality(S) + Cardinality(T) - Cardinality(S \cap T)
  BY <1>1, FS_Union
<1> QED
  BY <1>1, <1>2, <1>3

LEMMA BeforeIsSum ==
  ASSUME NEW n, NEW e, NEW K, KeysOK(n, e, K)
  PROVE  /\ Before(n, e, K) \in [0 .. HistoSize -> Nat]
         /\ Before(n, e, K) \in [0 .. HistoSize -> Int]
         /\ Before(n, e, K)[0] = 0
         /\ \A p \in Range0(HistoSize) :
              Cardinality({q \in Range0(n) : ColOf(n, e, K, q) = p})
                = Before(n, e, K)[p + 1] - Before(n, e, K)[p]
<1>1. n \in Nat /\ HistoSize \in Nat
  BY Sizes DEF KeysOK
<1>2. \A m : CountBelow(n, e, K, m) \in Nat
  <2> TAKE m
  <2> DEFINE S == {q \in Range0(n) : ColOf(n, e, K, q) < m}
  <2>1. S \in SUBSET Range0(n)
    OBVIOUS
  <2> HIDE DEF S
  <2> QED
    BY <1>1, <2>1, Counted DEF CountBelow, S
<1>3. Before(n, e, K) \in [0 .. HistoSize -> Nat]
  BY <1>2 DEF Before
<1>4. Before(n, e, K)[0] = 0
  <2>1. {q \in Range0(n) : ColOf(n, e, K, q) < 0} = {}
    BY ColType
  <2> QED
    BY <1>1, <2>1, FS_EmptySet DEF Before, CountBelow
<1>5. ASSUME NEW p \in Range0(HistoSize)
      PROVE  Cardinality({q \in Range0(n) : ColOf(n, e, K, q) = p})
                = Before(n, e, K)[p + 1] - Before(n, e, K)[p]
  <2> DEFINE E == {q \in Range0(n) : ColOf(n, e, K, q) = p}
             S == {q \in Range0(n) : ColOf(n, e, K, q) < p}
             T == {q \in Range0(n) : ColOf(n, e, K, q) < p + 1}
  <2>1. p \in Nat /\ p \in 0 .. HistoSize /\ p + 1 \in 0 .. HistoSize
    BY <1>1 DEF Range0
  <2>2. T = S \cup E
    <3>1. \A x \in Range0(n) : ColOf(n, e, K, x) \in Nat
      BY ColType
    <3>2. \A c \in Nat : c < p + 1 <=> c < p \/ c = p
      BY <2>1
    <3> QED
      BY ONLY <3>1, <3>2 DEF T, S, E
  <2>3. S \cap E = {} /\ S \in SUBSET Range0(n) /\ E \in SUBSET Range0(n)
    <3>1. S \in SUBSET Range0(n) /\ E \in SUBSET Range0(n)
      OBVIOUS
    <3>2. ASSUME NEW x \in S \cap E
          PROVE  FALSE
      <4>1. ColOf(n, e, K, x) = p /\ ColOf(n, e, K, x) < p
        OBVIOUS
      <4> QED
        BY <2>1, <4>1
    <3> QED
      BY <3>1, <3>2
  <2> HIDE DEF S, E, T
  <2>4. Cardinality(T) = Cardinality(S) + Cardinality(E)
    BY <1>1, <2>2, <2>3, CountedApart
  <2>5. Cardinality(S) \in Nat /\ Cardinality(E) \in Nat
    BY <1>1, <2>3, Counted
  <2>6. Before(n, e, K)[p + 1] = Cardinality(T) /\ Before(n, e, K)[p] = Cardinality(S)
    BY <2>1 DEF Before, CountBelow, S, T
  <2>7. Cardinality(E) = Cardinality(T) - Cardinality(S)
    BY <2>4, <2>5
  <2> QED
    BY <2>6, <2>7 DEF E
<1> QED
  BY <1>3, <1>4, <1>5

LEMMA KeyOrders ==
  ASSUME NEW n, NEW e, NEW K, KeysOK(n, e, K)
  PROVE  Orders(KeyOrder(n, e, K), Range0(n)) /\ IsFiniteSet(Range0(n))
           /\ Cardinality(Range0(n)) = n
<1> DEFINE R == KeyOrder(n, e, K)
           d(x) == DigitOf(e, K, x)
<1>1. n \in Nat /\ Range0(n) \subseteq Nat
  BY DEF KeysOK, Range0
<1>2. \A x, y \in Range0(n) : <<x, y>> \in R <=> d(x) < d(y) \/ (d(x) = d(y) /\ x < y)
  BY DEF KeyOrder
<1>3. \A x \in Range0(n) : d(x) \in Nat /\ x \in Nat
  BY <1>1, ColType
<1> HIDE DEF R, d
<1>4. \A x \in Range0(n) : <<x, x>> \notin R
  BY <1>2, <1>3
<1>5. \A x, y \in Range0(n) : x # y => <<x, y>> \in R \/ <<y, x>> \in R
  BY <1>2, <1>3
<1>6. \A x, y, z \in Range0(n) : <<x, y>> \in R /\ <<y, z>> \in R => <<x, z>> \in R
  <2> SUFFICES ASSUME NEW x \in Range0(n), NEW y \in Range0(n), NEW z \in Range0(n),
                      <<x, y>> \in R, <<y, z>> \in R
               PROVE  <<x, z>> \in R
    OBVIOUS
  <2>1. d(x) \in Nat /\ d(y) \in Nat /\ d(z) \in Nat /\ x \in Nat /\ y \in Nat /\ z \in Nat
    BY <1>3
  <2>2. d(x) < d(y) \/ (d(x) = d(y) /\ x < y)
    BY <1>2
  <2>3. d(y) < d(z) \/ (d(y) = d(z) /\ y < z)
    BY <1>2
  <2>4. d(x) < d(z) \/ (d(x) = d(z) /\ x < z)
    BY <2>1, <2>2, <2>3
  <2> QED
    BY <1>2, <2>4
<1> QED
  BY <1>1, <1>4, <1>5, <1>6, RangeSize DEF Orders, R

\* In the columns the keys stand in that order, but for those of one cell.
LEMMA ColumnsInOrder ==
  ASSUME NEW n, NEW e, NEW K, KeysOK(n, e, K), NEW p \in Range0(n), NEW q \in Range0(n)
  PROVE  <<p, q>> \in KeyOrder(n, e, K)
           <=> \/ ColOf(n, e, K, p) < ColOf(n, e, K, q)
               \/ /\ PartOf(n, p) = PartOf(n, q) /\ p < q
                  /\ DigitOf(e, K, p) = DigitOf(e, K, q)
<1> DEFINE d == DigitOf(e, K, p)
           f == DigitOf(e, K, q)
           a == PartOf(n, p)
           b == PartOf(n, q)
<1>1. d \in Nat /\ f \in Nat /\ a \in Range0(Parts) /\ b \in Range0(Parts)
  BY ColType
<1>2. n \in Nat \ {0} /\ Parts \in Nat \ {0} /\ n \div Parts \in Nat \ {0}
  BY PartSizes DEF KeysOK
<1>3. a \in Nat /\ b \in Nat /\ a < Parts /\ b < Parts /\ p \in Nat /\ q \in Nat
  BY <1>1, <1>2 DEF Range0
<1>4. (a < b => p < q) /\ (p < q => a <= b)
  <2> DEFINE s == n \div Parts
  <2>1. s \in Nat \ {0} /\ a = p \div s /\ b = q \div s
    BY <1>2 DEF PartOf
  <2>2. p % s \in 0 .. s - 1 /\ p = (p \div s) * s + (p % s)
        /\ q % s \in 0 .. s - 1 /\ q = (q \div s) * s + (q % s)
    BY <1>3, <2>1, DivMod
  <2> DEFINE r == p % s
             t == q % s
  <2>3. r \in 0 .. s - 1 /\ t \in 0 .. s - 1 /\ p = a * s + r /\ q = b * s + t
    BY <2>1, <2>2
  <2> HIDE DEF s, a, b, r, t
  <2>4. ASSUME NEW x \in Nat, NEW y \in Nat, x < y
        PROVE  x * s + s <= y * s /\ x * s \in Nat /\ y * s \in Nat
    <3> DEFINE z == y - x - 1
    <3>1. z \in Nat /\ y = x + 1 + z
      BY <2>4
    <3> HIDE DEF z
    <3>2. y * s = x * s + s + z * s /\ z * s \in Nat /\ x * s \in Nat
      BY <2>1, <3>1
    <3> QED
      BY <2>1, <3>2
  <2>5. a < b => p < q
    <3> SUFFICES ASSUME a < b
                 PROVE  p < q
      OBVIOUS
    <3>1. a * s + s <= b * s /\ a * s \in Nat /\ b * s \in Nat
      BY <1>3, <2>4
    <3> QED
      BY <2>1, <2>3, <3>1
  <2>6. b < a => q < p
    <3> SUFFICES ASSUME b < a
                 PROVE  q < p
      OBVIOUS
    <3>1. b * s + s <= a * s /\ a * s \in Nat /\ b * s \in Nat
      BY <1>3, <2>4
    <3> QED
      BY <2>1, <2>3, <3>1
  <2> QED
    BY <1>3, <2>5, <2>6
<1>5. <<p, q>> \in KeyOrder(n, e, K) <=> d < f \/ (d = f /\ p < q)
  BY DEF KeyOrder
<1>6. ColOf(n, e, K, p) = d * Parts + a /\ ColOf(n, e, K, q) = f * Parts + b
  BY DEF ColOf
<1> HIDE DEF a, b, d, f
<1>7. ASSUME NEW x \in Nat, NEW y \in Nat, x < y
      PROVE  x * Parts + Parts <= y * Parts /\ x * Parts \in Nat /\ y * Parts \in Nat
  <2> DEFINE z == y - x - 1
  <2>1. z \in Nat /\ y = x + 1 + z
    BY <1>7
  <2> HIDE DEF z
  <2>2. y * Parts = x * Parts + Parts + z * Parts /\ z * Parts \in Nat /\ x * Parts \in Nat
    BY <1>2, <2>1
  <2> QED
    BY <1>2, <2>2
<1>8. CASE d < f
  <2>1. d * Parts + Parts <= f * Parts /\ d * Parts \in Nat /\ f * Parts \in Nat
    BY <1>1, <1>7, <1>8
  <2>2. d * Parts + a < f * Parts + b
    BY <1>2, <1>3, <2>1
  <2> QED
    BY <1>5, <1>6, <1>8, <2>2
<1>9. CASE f < d
  <2>1. f * Parts + Parts <= d * Parts /\ d * Parts \in Nat /\ f * Parts \in Nat
    BY <1>1, <1>7, <1>9
  <2>2. ~(d * Parts + a < f * Parts + b)
    BY <1>2, <1>3, <2>1
  <2>3. ~(d < f) /\ d # f
    BY <1>1, <1>9
  <2> QED
    BY <1>5, <1>6, <2>2, <2>3 DEF a, b, d, f
<1>10. CASE d = f
  <2>1. d * Parts \in Nat
    BY <1>1, <1>2
  <2>2. d * Parts + a < f * Parts + b <=> a < b
    BY <1>3, <1>10, <2>1
  <2>3. ~(d < f)
    BY <1>1, <1>10
  <2>4. p < q <=> a < b \/ (a = b /\ p < q)
    BY <1>3, <1>4
  <2> QED
    BY <1>5, <1>6, <1>10, <2>2, <2>3, <2>4 DEF a, b, d, f
<1> QED
  BY <1>1, <1>8, <1>9, <1>10

\* The keys in the cells before, and those before it in its part, come before a key.
LEMMA RankOfKey ==
  ASSUME NEW n, NEW e, NEW K, KeysOK(n, e, K), NEW q \in Range0(n)
  PROVE  Before(n, e, K)[ColOf(n, e, K, q)]
           + Cardinality({p \in Range0(n) : /\ PartOf(n, p) = PartOf(n, q) /\ p < q
                                            /\ DigitOf(e, K, p) = DigitOf(e, K, q)})
         = Rank(KeyOrder(n, e, K), Range0(n), q)
<1> DEFINE c == ColOf(n, e, K, q)
           S == {p \in Range0(n) : ColOf(n, e, K, p) < c}
           T == {p \in Range0(n) : /\ PartOf(n, p) = PartOf(n, q) /\ p < q
                                   /\ DigitOf(e, K, p) = DigitOf(e, K, q)}
           U == {p \in Range0(n) : <<p, q>> \in KeyOrder(n, e, K)}
<1>1. n \in Nat /\ HistoSize \in Nat
  BY Sizes DEF KeysOK
<1>2. U = S \cup T
  BY ColumnsInOrder
<1>3. S \in SUBSET Range0(n) /\ T \in SUBSET Range0(n)
  OBVIOUS
<1>4. S \cap T = {}
  <2> SUFFICES ASSUME NEW p \in S, p \in T
               PROVE  FALSE
    OBVIOUS
  <2>1. ColOf(n, e, K, p) = ColOf(n, e, K, q)
    BY DEF ColOf
  <2>2. ColOf(n, e, K, p) < ColOf(n, e, K, q) /\ ColOf(n, e, K, q) \in Nat
    BY ColType
  <2> QED
    BY <2>1, <2>2
<1>5. c \in 0 .. HistoSize
  BY <1>1, ColType DEF Range0
<1>6. Before(n, e, K)[c] = Cardinality(S)
  BY <1>5 DEF Before, CountBelow
<1> HIDE DEF S, T, U
<1>7. Cardinality(U) = Cardinality(S) + Cardinality(T)
  BY <1>1, <1>2, <1>3, <1>4, CountedApart
<1> QED
  BY <1>6, <1>7 DEF Rank, U, T

-----------------------------------------------------------------------------
(* The kernels of a pass                                                    *)

RadixOK ==
  /\ fun.mode = "GPU" /\ GpuOK
  /\ done \in [Range0(fun.n + HistoSize) -> Nat]
  /\ pass \in Nat /\ gpu.in = 1 + (pass % 2)

\* The keys are those given, in the order of their last e digits.
SortedBy(e, K, P) ==
  /\ \A p, q \in Range0(fun.n) : P[p] = P[q] => p = q
  /\ \A p \in Range0(fun.n) : K[p] = given[P[p]]
  /\ \A p, q \in Range0(fun.n) : p < q => K[p] % Pow2[e * Bits] <= K[q] % Pow2[e * Bits]

KeyPlaces == gpu.places[gpu.in]
PassOK == pass < Passes /\ SortedBy(pass, KeyBuffer, KeyPlaces)
PassStays ==
  /\ UNCHANGED <<fun, given, pass>> /\ gpu'.in = gpu.in
  /\ KeyBuffer' = KeyBuffer /\ KeyPlaces' = KeyPlaces

\* How many keys are counted in the cells before.
Sums == Before(fun.n, pass, KeyBuffer)

InitInv ==
  /\ pass = 0 /\ input = given
  /\ \A i \in Range0(fun.n) : done[i] = 1 =>
       gpu.keys[1][i] = given[i] /\ gpu.places[1][i] = i
HistogramInv ==
  \A p \in Range0(HistoSize) : done[p % Parts] = 1 => gpu.histo[p] = Sums[p + 1] - Sums[p]

LEMMA PassesEven ==
  /\ Passes \in Nat \ {0} /\ Passes * Bits = TotalBits
  /\ \E c \in Nat : Passes = 2 * c
<1> DEFINE b == 2 * Bits
           c == TotalBits \div b
           y == 2 * c
<1>1. Bits \in Nat \ {0} /\ TotalBits \in Nat \ {0} /\ TotalBits % b = 0 /\ b \in Nat \ {0}
  BY BitsAssumption
<1>2. c \in Nat /\ TotalBits = c * b
  <2> HIDE DEF b
  <2>1. c \in Nat /\ TotalBits = c * b + (TotalBits % b)
    BY <1>1, DivMod
  <2> HIDE DEF c
  <2>2. c * b \in Nat
    BY <1>1, <2>1
  <2> QED
    BY <1>1, <2>1, <2>2
<1> HIDE DEF c
<1>3. TotalBits = Bits * y /\ y \in Nat
  <2>1. c * (2 * Bits) = Bits * (2 * c)
    BY <1>1, <1>2
  <2> QED
    BY <1>2, <2>1
<1> HIDE DEF y
<1>4. (Bits * y) \div Bits = y
  BY <1>1, <1>3, DivProduct
<1>5. Passes = y
  BY ONLY <1>3, <1>4 DEF Passes
<1>6. y * Bits = TotalBits
  BY ONLY <1>1, <1>3
<1>7. y # 0
  BY ONLY <1>1, <1>3
<1>8. y = 2 * c
  BY DEF y
<1> QED
  BY <1>2, <1>3, <1>5, <1>6, <1>7, <1>8

LEMMA ItemDone ==
  ASSUME FunOK, RadixOK, NEW i \in Range0(GlobalSize), ItemStep(i)
  PROVE  /\ Range0(GlobalSize) \subseteq DOMAIN done /\ i \in Nat
         /\ done[i] \in Nat /\ done[i] < Segments
         /\ done' = [done EXCEPT ![i] = @ + 1] /\ done'[i] = done[i] + 1
         /\ done' \in [Range0(fun.n + HistoSize) -> Nat]
         /\ \A j \in Range0(GlobalSize) : j # i => done'[j] = done[j]
         /\ UNCHANGED <<fun, given, input, at, pass>>
<1>1. fun.n \in Nat /\ fun.k \in Nat /\ fun.k <= fun.n /\ HistoSize \in Nat
  BY Sizes DEF FunOK
<1>2. GlobalSize \in Nat /\ GlobalSize <= fun.n + HistoSize
  <2>1. CASE at \in {"init", "findNegative", "reorderNegatives", "store"}
    BY <1>1, <2>1 DEF GlobalSize
  <2>2. CASE at \in {"histogram", "reorder"}
    <3>1. GlobalSize = Groups * Items
      BY <2>2 DEF GlobalSize
    <3> QED
      BY <1>1, <3>1, Sizes
  <2>3. CASE at \in {"scan", "paste"}
    <3>1. GlobalSize = HistoSize \div 2
      BY <2>3 DEF GlobalSize
    <3> QED
      BY <1>1, <3>1
  <2>4. CASE at = "globalScan"
    <3>1. GlobalSize = Split \div 2 /\ Split \in Nat /\ Split <= HistoSize
      BY <2>4, Sizes DEF GlobalSize
    <3> QED
      BY <1>1, <3>1
  <2>5. CASE at \notin {"init", "findNegative", "reorderNegatives", "store", "histogram",
                        "reorder", "scan", "paste", "globalScan"}
    <3>1. GlobalSize = 0
      BY <2>5 DEF GlobalSize
    <3> QED
      BY <1>1, <3>1
  <2> QED
    BY <2>1, <2>2, <2>3, <2>4, <2>5
<1>3. Range0(GlobalSize) \subseteq Range0(fun.n + HistoSize) /\ i \in Nat
  BY <1>1, <1>2 DEF Range0
<1>4. /\ done[i] < Segments /\ done' = [done EXCEPT ![i] = @ + 1]
      /\ UNCHANGED <<fun, given, input, at, pass>>
  BY DEF ItemStep
<1>5. done \in [Range0(fun.n + HistoSize) -> Nat] /\ done[i] \in Nat
  BY <1>3 DEF RadixOK
<1> HIDE DEF GlobalSize, Segments
<1>6. done'[i] = done[i] + 1 /\ done' \in [Range0(fun.n + HistoSize) -> Nat]
      /\ \A j \in Range0(GlobalSize) : j # i => done'[j] = done[j]
  BY <1>3, <1>4, <1>5
<1> QED
  BY <1>3, <1>4, <1>5, <1>6

LEMMA KernelDone ==
  ASSUME FunOK, RadixOK, EndKernel
  PROVE  /\ done' \in [Range0(fun.n + HistoSize) -> Nat]
         /\ \A i \in Range0(fun.n + HistoSize) : done'[i] = 0
         /\ \A i \in Range0(GlobalSize) : done[i] = Segments
         /\ at' = NextKernel /\ UNCHANGED <<fun, given, input>>
         /\ at # "reorder" => pass' = pass
         /\ at \notin {"reorder", "findNegative"} => gpu' = gpu
<1>1. done' = Fresh
  BY DEF EndKernel
<1>2. Fresh = [i \in Range0(fun.n + HistoSize) |-> 0]
  BY DEF Fresh
<1> QED
  BY <1>1, <1>2 DEF EndKernel

LEMMA RadixKeys ==
  ASSUME FunOK, RadixOK
  PROVE  KeysOK(fun.n, pass, KeyBuffer) /\ KeyPlaces \in [Range0(fun.n) -> Range0(fun.n)]
<1>1. fun.n \in Nat \ {0} /\ fun.n % Parts = 0
  BY Sizes DEF FunOK, RadixOK, Parts
<1> QED
  BY <1>1 DEF RadixOK, GpuOK, KeysOK, KeyBuffer, KeyPlaces

LEMMA PassStaysOK ==
  ASSUME PassOK, PassStays
  PROVE  PassOK' /\ Sums' = Sums
BY DEF PassOK, PassStays, SortedBy, Passes, Sums

\* A kernel writes keys and places.
Rewrites(b, K, P) == gpu' = [gpu EXCEPT !.keys[b] = K, !.places[b] = P]

LEMMA WritesKeys ==
  ASSUME GpuOK, fun' = fun, NEW b \in 1 .. 2, NEW K \in [Range0(fun.n) -> Nat],
         NEW P \in [Range0(fun.n) -> Range0(fun.n)],
         Rewrites(b, K, P)
  PROVE  /\ GpuOK' /\ gpu'.keys[b] = K /\ gpu'.places[b] = P
         /\ \A c \in 1 .. 2 : c # b =>
              gpu'.keys[c] = gpu.keys[c] /\ gpu'.places[c] = gpu.places[c]
         /\ gpu'.in = gpu.in /\ gpu'.histo = gpu.histo /\ gpu'.sums = gpu.sums
         /\ gpu'.local = gpu.local /\ gpu'.first = gpu.first
BY DEF GpuOK, Rewrites, HistoSize, Split, Radix

\* Loading the keys.
LEMMA InitKeeps ==
  ASSUME FunOK, RadixOK, given \in Data, at = "init", InitInv, NEW i \in Range0(GlobalSize),
         ItemStep(i)
  PROVE  RadixOK' /\ InitInv' /\ UNCHANGED <<fun, given, input>>
<1>1. /\ GlobalSize = fun.n /\ Segments = 1
  BY DEF GlobalSize, Segments
<1>2. /\ done[i] \in Nat /\ done[i] < Segments
      /\ done'[i] = done[i] + 1 /\ done' \in [Range0(fun.n + HistoSize) -> Nat]
      /\ \A j \in Range0(GlobalSize) : j # i => done'[j] = done[j]
      /\ UNCHANGED <<fun, given, input, at, pass>>
  BY ItemDone
<1>3. InitKeys(i)
  BY DEF ItemStep
<1>4. input[i] = given[i] /\ given[i] \in Nat /\ i \in Range0(fun.n)
  <2>1. i \in Range0(fun.rows * fun.n)
    BY <1>1, RowInData
  <2> QED
    BY <1>1, <2>1, NumberIsInt DEF Data, InitInv
<1>5. GpuOK /\ pass \in Nat /\ gpu.in = 1 + (pass % 2)
  BY DEF RadixOK
<1>6. GpuOK' /\ gpu'.keys[1] = [gpu.keys[1] EXCEPT ![i] = input[i]]
      /\ gpu'.places[1] = [gpu.places[1] EXCEPT ![i] = i] /\ gpu'.in = gpu.in
  <2> DEFINE K == [gpu.keys[1] EXCEPT ![i] = input[i]]
             P == [gpu.places[1] EXCEPT ![i] = i]
  <2>1. Rewrites(1, K, P)
    BY <1>3 DEF InitKeys, Rewrites
  <2>2. K \in [Range0(fun.n) -> Nat] /\ P \in [Range0(fun.n) -> Range0(fun.n)]
    BY <1>4, <1>5 DEF GpuOK
  <2>3. 1 \in 1 .. 2 /\ fun' = fun /\ GpuOK
    BY <1>2, <1>5
  <2> HIDE DEF K, P
  <2>4. GpuOK' /\ gpu'.keys[1] = K /\ gpu'.places[1] = P /\ gpu'.in = gpu.in
    BY <2>1, <2>2, <2>3, WritesKeys
  <2> QED
    BY <2>4 DEF K, P
<1>7. RadixOK'
  BY <1>2, <1>5, <1>6 DEF RadixOK, HistoSize, Radix
<1>8. gpu.keys[1] \in [Range0(fun.n) -> Nat] /\ gpu.places[1] \in [Range0(fun.n) -> Range0(fun.n)]
  BY <1>5 DEF GpuOK
<1>9. InitInv'
  BY <1>1, <1>2, <1>4, <1>6, <1>8 DEF InitInv
<1> QED
  BY <1>2, <1>7, <1>9

LEMMA InitEnds ==
  ASSUME FunOK, RadixOK, given \in Data, at = "init", InitInv, EndKernel
  PROVE  RadixOK' /\ PassOK' /\ HistogramInv' /\ at' = "histogram" /\ UNCHANGED <<fun, given>>
<1>1. /\ done' \in [Range0(fun.n + HistoSize) -> Nat]
      /\ \A i \in Range0(fun.n + HistoSize) : done'[i] = 0
      /\ \A i \in Range0(fun.n) : done[i] = 1
      /\ at' = "histogram" /\ UNCHANGED <<fun, given, input, pass, gpu>>
  <2>1. GlobalSize = fun.n /\ Segments = 1 /\ NextKernel = "histogram"
    BY DEF GlobalSize, Segments, NextKernel
  <2> QED
    BY <2>1, KernelDone
<1>2. pass = 0 /\ gpu.in = 1
  BY DEF InitInv, RadixOK
<1>3. RadixOK'
  BY <1>1 DEF RadixOK, GpuOK, HistoSize, Split, Radix
<1>4. HistogramInv'
  <2> SUFFICES ASSUME NEW p \in Range0(HistoSize)
               PROVE  done'[p % Parts] = 0
    BY DEF HistogramInv, HistoSize, Radix
  <2>1. Parts \in Nat \ {0} /\ Parts <= HistoSize /\ HistoSize \in Nat /\ fun.n \in Nat
    BY Sizes DEF Parts, FunOK
  <2>2. p \in Nat
    BY <2>1 DEF Range0
  <2>3. p % Parts \in 0 .. Parts - 1
    BY <2>1, <2>2, DivMod
  <2>4. p % Parts \in Range0(fun.n + HistoSize)
    BY <2>1, <2>3 DEF Range0
  <2> QED
    BY <1>1, <2>4
<1>5. 0 < Passes
  BY PassesEven
<1>6. PassOK'
  <2> DEFINE K == KeyBuffer
             P == KeyPlaces
  <2>1. \A q \in Range0(fun.n) : K[q] = given[q] /\ P[q] = q
    BY <1>1, <1>2 DEF InitInv, KeyBuffer, KeyPlaces
  <2>2. \A p \in Range0(fun.n) : K[p] % Pow2[0 * Bits] = 0
    <3>1. Pow2[0 * Bits] = 1
      BY Pow2Def, BitsAssumption
    <3>2. \A p \in Range0(fun.n) : K[p] \in Nat
      BY RadixKeys DEF KeysOK
    <3> QED
      BY <3>1, <3>2
  <2>3. K' = K /\ P' = P
    BY <1>1 DEF KeyBuffer, KeyPlaces
  <2> HIDE DEF K, P
  <2>4. SortedBy(0, K, P)
    BY <2>1, <2>2 DEF SortedBy
  <2>5. SortedBy(0, K, P)'
    BY <1>1, <2>3, <2>4 DEF SortedBy
  <2> QED
    BY <1>1, <1>2, <1>5, <2>5 DEF PassOK, K, P, Passes
<1> QED
  BY <1>1, <1>3, <1>4, <1>6

ScanInv ==
  /\ GroupsAt(Bits + 1, Split, Sums, done, gpu.local, gpu.histo)
  /\ SumsAt(Bits + 1, Split, Sums, done, gpu.sums)

\* What the code calls the part, the digit and the column of a key.
LEMMA KeyNames ==
  ASSUME FunOK, RadixOK
  PROVE  /\ \A i \in Range0(Parts) : Part(i) = {q \in Range0(fun.n) : PartOf(fun.n, q) = i}
         /\ \A q \in Range0(fun.n) : Digit(KeyBuffer[q]) = DigitOf(pass, KeyBuffer, q)
         /\ \A q \in Range0(fun.n) :
              Column(PartOf(fun.n, q), Digit(KeyBuffer[q])) = ColOf(fun.n, pass, KeyBuffer, q)
         /\ Parts = Groups * Items
<1>1. KeysOK(fun.n, pass, KeyBuffer)
  BY RadixKeys
<1>2. Groups \in Nat /\ Items \in Nat /\ Parts = Groups * Items
  BY GroupAssumption DEF Parts
<1>3. \A i \in Range0(Parts) : Part(i) = {q \in Range0(fun.n) : PartOf(fun.n, q) = i}
  <2> TAKE i \in Range0(Parts)
  <2>1. i * (fun.n \div Parts) .. (i + 1) * (fun.n \div Parts) - 1
          = {q \in Range0(fun.n) : PartOf(fun.n, q) = i}
    BY <1>1, PartIs
  <2>2. PartSize = fun.n \div Parts
    BY <1>2 DEF PartSize
  <2> QED
    BY <2>1, <2>2 DEF Part
<1>4. \A q \in Range0(fun.n) : Digit(KeyBuffer[q]) = DigitOf(pass, KeyBuffer, q)
  BY DEF Digit, DigitOf
<1>5. ASSUME NEW q \in Range0(fun.n)
      PROVE  Column(PartOf(fun.n, q), Digit(KeyBuffer[q])) = ColOf(fun.n, pass, KeyBuffer, q)
  <2> DEFINE d == DigitOf(pass, KeyBuffer, q)
  <2>1. d \in Nat /\ Digit(KeyBuffer[q]) = d
    BY <1>1, <1>4, ColType
  <2> HIDE DEF d
  <2>2. d * Groups * Items = d * (Groups * Items)
    BY <1>2, <2>1
  <2>3. Column(PartOf(fun.n, q), d) = d * Parts + PartOf(fun.n, q)
    BY <1>2, <2>2 DEF Column
  <2> QED
    BY <2>1, <2>3 DEF ColOf, d
<1> QED
  BY <1>2, <1>3, <1>4, <1>5

LEMMA SumsType ==
  ASSUME FunOK, RadixOK
  PROVE  /\ Sums \in [0 .. HistoSize -> Nat] /\ Sums \in [0 .. HistoSize -> Int] /\ Sums[0] = 0
         /\ \A p \in Range0(HistoSize) :
              Cardinality({q \in Range0(fun.n) : ColOf(fun.n, pass, KeyBuffer, q) = p})
                = Sums[p + 1] - Sums[p]
<1>1. KeysOK(fun.n, pass, KeyBuffer)
  BY RadixKeys
<1> QED
  BY <1>1, BeforeIsSum DEF Sums

LEMMA HistogramKeeps ==
  ASSUME FunOK, RadixOK, at = "histogram", HistogramInv, NEW i \in Range0(GlobalSize),
         ItemStep(i)
  PROVE  RadixOK' /\ PassStays /\ HistogramInv' /\ UNCHANGED at
<1>1. GlobalSize = Parts /\ Segments = 1
  BY DEF GlobalSize, Segments, Parts
<1>2. /\ done[i] \in Nat /\ done[i] < Segments
      /\ done'[i] = done[i] + 1 /\ done' \in [Range0(fun.n + HistoSize) -> Nat]
      /\ \A j \in Range0(GlobalSize) : j # i => done'[j] = done[j]
      /\ UNCHANGED <<fun, given, input, at, pass>>
  BY ItemDone
<1>3. Histogram(i) /\ i \in Range0(Parts)
  BY <1>1 DEF ItemStep
<1> DEFINE H == [p \in Range0(HistoSize) |->
                   IF p % Parts # i THEN gpu.histo[p]
                   ELSE Cardinality({q \in Part(i) : Column(i, Digit(KeyBuffer[q])) = p})]
<1>4. GpuOK /\ pass \in Nat /\ gpu.in = 1 + (pass % 2)
  BY DEF RadixOK
<1>5. gpu' = [gpu EXCEPT !.histo = H]
  <2>1. DOMAIN gpu.histo = Range0(HistoSize)
    BY <1>4 DEF GpuOK
  <2> QED
    BY <1>3, <2>1 DEF Histogram, Parts
<1>6. ASSUME NEW p \in Range0(HistoSize), p % Parts = i
      PROVE  H[p] = Sums[p + 1] - Sums[p]
  <2> DEFINE S == {q \in Part(i) : Column(i, Digit(KeyBuffer[q])) = p}
             T == {q \in Range0(fun.n) : ColOf(fun.n, pass, KeyBuffer, q) = p}
  <2>1. S = T
    <3>1. ASSUME NEW q \in Range0(fun.n)
          PROVE  q \in S <=> q \in T
      <4>1. q \in Part(i) <=> PartOf(fun.n, q) = i
        BY <1>3, KeyNames
      <4>2. PartOf(fun.n, q) = i
              => Column(i, Digit(KeyBuffer[q])) = ColOf(fun.n, pass, KeyBuffer, q)
        BY KeyNames
      <4>3. ColOf(fun.n, pass, KeyBuffer, q) = p => PartOf(fun.n, q) = i
        BY <1>6, RadixKeys, ColType
      <4> QED
        BY <4>1, <4>2, <4>3
    <3>2. S \subseteq Range0(fun.n)
      BY <1>3, KeyNames
    <3> QED
      BY <3>1, <3>2
  <2>2. H[p] = Cardinality(S)
    BY <1>6
  <2>3. Cardinality(T) = Sums[p + 1] - Sums[p]
    BY SumsType
  <2> QED
    BY <2>1, <2>2, <2>3
<1>7. \A p \in Range0(HistoSize) : p % Parts # i => H[p] = gpu.histo[p]
  OBVIOUS
<1>8. H \in [Range0(HistoSize) -> Int]
  <2>1. \A p \in Range0(HistoSize) : H[p] \in Int
    <3> TAKE p \in Range0(HistoSize)
    <3>1. CASE p % Parts # i
      BY <1>4, <1>7, <3>1 DEF GpuOK
    <3>2. CASE p % Parts = i
      <4>1. p \in 0 .. HistoSize /\ p + 1 \in 0 .. HistoSize
        BY Sizes DEF Range0
      <4>2. Sums[p] \in Int /\ Sums[p + 1] \in Int
        BY <4>1, SumsType
      <4> HIDE DEF H
      <4> QED
        BY <1>6, <3>2, <4>2
    <3> QED
      BY <3>1, <3>2
  <2>2. H = [p \in Range0(HistoSize) |-> H[p]]
    OBVIOUS
  <2> HIDE DEF H
  <2> QED
    BY <2>1, <2>2
<1> HIDE DEF H
<1>9. GpuOK' /\ gpu'.histo = H /\ gpu'.in = gpu.in /\ gpu'.keys = gpu.keys
      /\ gpu'.places = gpu.places
  BY <1>2, <1>4, <1>5, <1>8 DEF GpuOK, HistoSize, Split, Radix
<1>10. RadixOK'
  BY <1>2, <1>4, <1>9 DEF RadixOK, HistoSize, Radix
<1>11. PassStays
  BY <1>2, <1>9 DEF PassStays, KeyBuffer, KeyPlaces
<1>12. Sums' = Sums
  BY <1>11 DEF PassStays, Sums
<1>13. HistogramInv'
  <2> SUFFICES ASSUME NEW p \in Range0(HistoSize), done'[p % Parts] = 1
               PROVE  gpu'.histo[p] = Sums[p + 1] - Sums[p]
    BY <1>12 DEF HistogramInv, HistoSize, Radix, Parts
  <2>1. p % Parts \in Range0(Parts)
    <3>1. Parts \in Nat \ {0} /\ HistoSize \in Nat
      BY Sizes DEF Parts
    <3>2. p \in Nat
      BY <3>1 DEF Range0
    <3> QED
      BY <3>1, <3>2, ItemOfGroup
  <2>2. CASE p % Parts = i
    BY <1>6, <1>9, <2>2
  <2>3. CASE p % Parts # i
    BY <1>1, <1>2, <1>7, <1>9, <2>1, <2>3 DEF HistogramInv
  <2> QED
    BY <2>2, <2>3
<1> QED
  BY <1>2, <1>10, <1>11, <1>13

LEMMA HistogramEnds ==
  ASSUME FunOK, RadixOK, at = "histogram", HistogramInv, EndKernel
  PROVE  RadixOK' /\ PassStays /\ ScanInv' /\ at' = "scan"
<1>0. GlobalSize = Parts /\ Segments = 1 /\ NextKernel = "scan"
  BY DEF GlobalSize, Segments, NextKernel, Parts
<1>1. /\ done' \in [Range0(fun.n + HistoSize) -> Nat]
      /\ \A i \in Range0(fun.n + HistoSize) : done'[i] = 0
      /\ \A i \in Range0(Parts) : done[i] = 1
      /\ at' = "scan" /\ UNCHANGED <<fun, given, input, pass, gpu>>
  BY <1>0, KernelDone
<1>2. RadixOK'
  BY <1>1 DEF RadixOK, GpuOK, HistoSize, Split, Radix
<1>3. PassStays /\ Sums' = Sums
  BY <1>1 DEF PassStays, KeyBuffer, KeyPlaces, Sums
<1>4. /\ Bits + 1 \in Nat \ {0} /\ Split \in Nat \ {0} /\ (Bits + 1) - 1 = Bits
      /\ HistoSize = Split * Pow2[Bits + 1] /\ HistoSize \in Nat
      /\ Split * Pow2[Bits] <= HistoSize /\ Split * Pow2[Bits] \in Nat /\ fun.n \in Nat
  <2>1. Bits \in Nat \ {0} /\ Split \in Nat \ {0} /\ HistoSize = Split * Pow2[Bits + 1]
        /\ HistoSize \in Nat /\ HistoSize \div 2 = Split * Pow2[Bits] /\ fun.n \in Nat
        /\ Pow2[Bits] \in Nat
    BY Sizes DEF FunOK
  <2>2. HistoSize \div 2 <= HistoSize /\ HistoSize \div 2 \in Nat
    BY <2>1
  <2> HIDE DEF HistoSize, Split
  <2> QED
    BY <2>1, <2>2
<1>5. Sums \in [0 .. Split * Pow2[Bits + 1] -> Int]
  BY <1>4, SumsType
<1>6. \A j \in Range0(Split * Pow2[Bits]) : done'[j] = 0
  <2>1. Range0(Split * Pow2[Bits]) \subseteq Range0(fun.n + HistoSize)
    <3> HIDE DEF HistoSize, Split
    <3> QED
      BY <1>4 DEF Range0
  <2> QED
    BY <1>1, <2>1
<1>7. \A p \in Range0(HistoSize) : gpu.histo[p] = Sums[p + 1] - Sums[p]
  <2> TAKE p \in Range0(HistoSize)
  <2>1. Parts \in Nat \ {0} /\ p \in Nat
    BY <1>4, Sizes DEF Parts, Range0
  <2>2. p % Parts \in Range0(Parts)
    BY <2>1, ItemOfGroup
  <2> QED
    BY <1>1, <2>2 DEF HistogramInv
<1>8. GroupsAt(Bits + 1, Split, Sums, done', gpu.local, gpu.histo)
      /\ SumsAt(Bits + 1, Split, Sums, done', gpu.sums)
  <2> DEFINE lv == Bits + 1
             f == done'
             X == Sums
  <2>1. Starts(lv, Split, X, f, gpu.histo)
    BY <1>4, <1>5, <1>6, <1>7 DEF Starts
  <2> HIDE DEF lv, f, X
  <2>2. GroupsAt(lv, Split, X, f, gpu.local, gpu.histo) /\ SumsAt(lv, Split, X, f, gpu.sums)
    BY <2>1, GroupsStart
  <2> QED
    BY <2>2 DEF lv, f, X
<1>9. ScanInv'
  BY <1>1, <1>3, <1>8 DEF ScanInv, Split
<1> QED
  BY <1>1, <1>2, <1>3, <1>9

\* A kernel that scans a buffer.
ScansNow(lv, groups, from, to, X) ==
  /\ GroupSize(lv) /\ Scans(from, to, groups, lv)
  /\ GlobalSize = groups * Pow2[lv - 1] /\ Segments = 2 * lv + 2
  /\ X \in [0 .. groups * Pow2[lv] -> Int]
  /\ GroupsAt(lv, groups, X, done, gpu.local, gpu[from])

LEMMA ScanStepKeeps ==
  ASSUME FunOK, RadixOK, NEW lv, NEW groups, NEW from, NEW to, NEW X,
         ScansNow(lv, groups, from, to, X), NEW i \in Range0(GlobalSize), ItemStep(i),
         Scan(i, from, to)
  PROVE  /\ RadixOK' /\ PassStays /\ UNCHANGED at
         /\ ItemScans(lv, groups, Pow2[lv - 1], i, done, gpu.local, gpu[from], done', gpu'.local,
                      gpu'[from])
         /\ ScanEffect(lv, i, from, to)
         /\ GroupsAt(lv, groups, X, done', gpu'.local, gpu'[from])
<1>1. /\ GroupSize(lv) /\ Scans(from, to, groups, lv) /\ lv \in Nat \ {0}
      /\ GlobalSize = groups * Pow2[lv - 1] /\ Segments = 2 * lv + 2
      /\ GroupsAt(lv, groups, X, done, gpu.local, gpu[from])
  BY DEF ScansNow, GroupSize
<1>2. /\ Range0(GlobalSize) \subseteq DOMAIN done
      /\ done[i] \in Nat /\ done[i] < Segments /\ done' = [done EXCEPT ![i] = @ + 1]
      /\ done' \in [Range0(fun.n + HistoSize) -> Nat]
      /\ UNCHANGED <<fun, given, input, at, pass>>
  BY ItemDone
<1>3. done[i] \in 0 .. 2 * lv + 1
  BY <1>1, <1>2
<1>4. i \in Range0(groups * Pow2[lv - 1]) /\ AtBarrier(i)
      /\ Range0(groups * Pow2[lv - 1]) \subseteq DOMAIN done
  BY <1>1, <1>2 DEF ItemStep
<1>5. ScanEffect(lv, i, from, to)
  <2>1. GpuOK /\ fun' = fun
    BY <1>2 DEF RadixOK
  <2> QED
    BY <1>1, <1>3, <1>4, <2>1, ScanHasEffect
<1>6. ItemScans(lv, groups, Pow2[lv - 1], i, done, gpu.local, gpu[from], done', gpu'.local,
                gpu'[from])
  BY <1>1, <1>2, <1>3, <1>4, <1>5, ScanItem
<1>7. GroupsAt(lv, groups, X, done', gpu'.local, gpu'[from])
  <2> DEFINE L == Pow2[lv - 1]
             f == done
             l == gpu.local
             b == gpu[from]
             f2 == done'
             l2 == gpu'.local
             b2 == gpu'[from]
  <2>1. ItemScans(lv, groups, L, i, f, l, b, f2, l2, b2) /\ GroupsAt(lv, groups, X, f, l, b)
    BY <1>1, <1>6
  <2> HIDE DEF L, f, l, b, f2, l2, b2
  <2>2. GroupsAt(lv, groups, X, f2, l2, b2)
    BY <2>1, ItemScansKeeps
  <2> QED
    BY <2>2 DEF f2, l2, b2
<1>8. GpuOK' /\ gpu'.in = gpu.in /\ gpu'.keys = gpu.keys /\ gpu'.places = gpu.places
  BY <1>5 DEF ScanEffect, SameKeys
<1>9. RadixOK'
  BY <1>2, <1>8 DEF RadixOK, HistoSize, Radix
<1>10. PassStays
  BY <1>2, <1>8 DEF PassStays, KeyBuffer, KeyPlaces
<1> QED
  BY <1>2, <1>5, <1>6, <1>7, <1>9, <1>10

LEMMA ScanScans ==
  ASSUME FunOK, RadixOK, at = "scan", ScanInv
  PROVE  /\ ScansNow(Bits + 1, Split, "histo", "sums", Sums)
         /\ GlobalSize = Split * Pow2[Bits] /\ (Bits + 1) - 1 = Bits
<1>1. /\ GlobalSize = Split * Pow2[Bits] /\ LocalSize = Pow2[Bits]
      /\ Segments = 2 * (Bits + 1) + 2
  BY ScanSizes
<1>2. /\ Bits \in Nat \ {0} /\ Split \in Nat \ {0} /\ HistoSize = Split * Pow2[Bits + 1]
      /\ HistoSize \in Nat /\ Pow2[Bits + 1] = 2 * Pow2[Bits] /\ Pow2[Bits] \in Nat \ {0}
  BY Sizes
<1>3. (Bits + 1) - 1 = Bits /\ Bits + 1 \in Nat \ {0}
  BY <1>2
<1>4. Sums \in [0 .. Split * Pow2[Bits + 1] -> Int]
  BY <1>2, SumsType
<1>5. DOMAIN gpu.histo = Range0(HistoSize)
  BY DEF RadixOK, GpuOK
<1>6. GroupSize(Bits + 1)
  BY <1>1, <1>2, <1>3 DEF GroupSize
<1>7. Scans("histo", "sums", Split, Bits + 1)
  BY <1>2, <1>5 DEF Scans
<1>8. GroupsAt(Bits + 1, Split, Sums, done, gpu.local, gpu.histo)
  BY DEF ScanInv
<1> QED
  BY <1>1, <1>3, <1>4, <1>6, <1>7, <1>8 DEF ScansNow

LEMMA ScanKeeps ==
  ASSUME FunOK, RadixOK, at = "scan", ScanInv, NEW i \in Range0(GlobalSize), ItemStep(i)
  PROVE  RadixOK' /\ PassStays /\ ScanInv' /\ UNCHANGED at
<1> DEFINE lv == Bits + 1
           L == Pow2[Bits]
<1>1. ScansNow(lv, Split, "histo", "sums", Sums) /\ GlobalSize = Split * L /\ lv - 1 = Bits
  BY ScanScans
<1>2. Scan(i, "histo", "sums")
  BY DEF ItemStep
<1>3. /\ RadixOK' /\ PassStays /\ UNCHANGED at
      /\ ItemScans(lv, Split, Pow2[lv - 1], i, done, gpu.local, gpu["histo"], done', gpu'.local,
                   gpu'["histo"])
      /\ ScanEffect(lv, i, "histo", "sums")
      /\ GroupsAt(lv, Split, Sums, done', gpu'.local, gpu'["histo"])
  <2> HIDE DEF lv
  <2> QED
    BY <1>1, <1>2, ScanStepKeeps
<1>4. /\ GroupSize(lv) /\ Split \in Nat \ {0} /\ lv \in Nat \ {0} /\ L = Pow2[lv - 1]
      /\ Sums \in [0 .. Split * Pow2[lv] -> Int]
      /\ GroupsAt(lv, Split, Sums, done, gpu.local, gpu["histo"])
      /\ SumsAt(lv, Split, Sums, done, gpu.sums)
  BY <1>1, Sizes DEF ScansNow, ScanInv, GroupSize
<1>5. done[i] \in 0 .. 2 * lv + 1 /\ i \in Range0(Split * L)
  BY <1>1, <1>3 DEF ItemScans
<1>6. ASSUME NEW g \in Range0(Split)
      PROVE  IF g = i \div L /\ done[i] = lv /\ LowOf(lv, lv, i % L) \in Range0(Pow2[lv])
             THEN gpu'.sums[g] = gpu.local[g * Pow2[lv] + HighOf(lv, lv, i % L)]
                                   + gpu.local[g * Pow2[lv] + LowOf(lv, lv, i % L)]
             ELSE gpu'.sums[g] = gpu.sums[g]
  <2> DEFINE l == LowCell(lv, i)
             h == HighCell(lv, i)
  <2>1. gpu'.sums[g] = IF done[i] = lv /\ Works(lv, i) /\ g = i \div Pow2[lv - 1]
                       THEN gpu.local[h] + gpu.local[l] ELSE gpu.sums[g]
    BY <1>3 DEF ScanEffect
  <2>2. Works(lv, i) <=> LowOf(lv, done[i], i % Pow2[lv - 1]) \in Range0(Pow2[lv])
    <3> HIDE DEF lv
    <3> QED
      BY <1>4, <1>5, ScanCells
  <2>3. l = (i \div Pow2[lv - 1]) * Pow2[lv] + LowOf(lv, done[i], i % Pow2[lv - 1])
        /\ h = (i \div Pow2[lv - 1]) * Pow2[lv] + HighOf(lv, done[i], i % Pow2[lv - 1])
    BY DEF LowCell, HighCell, BaseOf
  <2> HIDE DEF lv, L, l, h
  <2>4. CASE g = i \div L /\ done[i] = lv /\ LowOf(lv, lv, i % L) \in Range0(Pow2[lv])
    <3>1. gpu'.sums[g] = gpu.local[h] + gpu.local[l]
      BY ONLY <1>4, <2>1, <2>2, <2>4
    <3>2. l = g * Pow2[lv] + LowOf(lv, lv, i % L) /\ h = g * Pow2[lv] + HighOf(lv, lv, i % L)
      BY ONLY <1>4, <2>3, <2>4
    <3> QED
      BY ONLY <2>4, <3>1, <3>2
  <2>5. CASE ~(g = i \div L /\ done[i] = lv /\ LowOf(lv, lv, i % L) \in Range0(Pow2[lv]))
    <3>1. ~(done[i] = lv /\ Works(lv, i) /\ g = i \div Pow2[lv - 1])
      BY ONLY <1>4, <2>2, <2>5
    <3> QED
      BY ONLY <2>1, <2>5, <3>1
  <2> QED
    BY ONLY <2>4, <2>5
<1>7. SumsAt(lv, Split, Sums, done', gpu'.sums)
  <2> DEFINE f == done
             l == gpu.local
             b == gpu["histo"]
             f2 == done'
             l2 == gpu'.local
             b2 == gpu'["histo"]
             s == gpu.sums
             s2 == gpu'.sums
             X == Sums
  <2>1. ItemScans(lv, Split, L, i, f, l, b, f2, l2, b2) /\ GroupsAt(lv, Split, X, f, l, b)
        /\ SumsAt(lv, Split, X, f, s) /\ X \in [0 .. Split * Pow2[lv] -> Int]
    BY <1>3, <1>4
  <2>2. \A g \in Range0(Split) :
           IF g = i \div L /\ f[i] = lv /\ LowOf(lv, lv, i % L) \in Range0(Pow2[lv])
           THEN s2[g] = l[g * Pow2[lv] + HighOf(lv, lv, i % L)]
                             + l[g * Pow2[lv] + LowOf(lv, lv, i % L)]
           ELSE s2[g] = s[g]
    BY <1>6
  <2> HIDE DEF lv, L, f, l, b, f2, l2, b2, s, s2, X
  <2>3. SumsAt(lv, Split, X, f2, s2)
    BY <2>1, <2>2, SumsKeep
  <2> QED
    BY <2>3 DEF f2, s2, X
<1>8. Sums' = Sums
  BY <1>3 DEF PassStays, Sums
<1>9. ScanInv'
  BY <1>3, <1>7, <1>8 DEF ScanInv, Split
<1> QED
  BY <1>3, <1>9

\* How many keys are counted before each group of cells.
GroupTops == [g \in 0 .. Split |-> Sums[g * Pow2[Bits + 1]]]
GroupBase(p) == (p \div Pow2[Bits + 1]) * Pow2[Bits + 1]

GlobalScanInv ==
  /\ GroupsAt(Level + 1, 1, GroupTops, done, gpu.local, gpu.sums)
  /\ \A p \in Range0(HistoSize) : gpu.histo[p] = Sums[p] - Sums[GroupBase(p)]
PasteInv ==
  /\ \A g \in Range0(Split) : gpu.sums[g] = Sums[g * Pow2[Bits + 1]]
  /\ \A p \in Range0(HistoSize) :
       gpu.histo[p] = IF done[p \div 2] = 1 THEN Sums[p] ELSE Sums[p] - Sums[GroupBase(p)]
NewPlace(q) == Rank(KeyOrder(fun.n, pass, KeyBuffer), Range0(fun.n), q)
ReorderInv ==
  /\ \A p \in Range0(HistoSize) : gpu.histo[p] = Sums[p]
  /\ \A q \in Range0(fun.n) : done[PartOf(fun.n, q)] = 1 =>
       /\ gpu.keys[OtherBuffer][NewPlace(q)] = KeyBuffer[q]
       /\ gpu.places[OtherBuffer][NewPlace(q)] = KeyPlaces[q]

LEMMA GroupFacts ==
  /\ Split \in Nat \ {0} /\ Pow2[Bits + 1] \in Nat \ {0} /\ HistoSize = Split * Pow2[Bits + 1]
  /\ HistoSize \in Nat
  /\ \A g \in 0 .. Split : g * Pow2[Bits + 1] \in 0 .. HistoSize
<1> DEFINE S == Split
           z == Pow2[Bits + 1]
<1>1. S \in Nat \ {0} /\ z \in Nat \ {0} /\ HistoSize = S * z /\ HistoSize \in Nat
  <2>1. Pow2[Bits + 1] = 2 * Radix /\ Radix \in Nat \ {0}
    BY Sizes
  <2> QED
    BY <2>1, Sizes
<1>2. \A g \in 0 .. S : g * z \in 0 .. S * z
  <2> HIDE DEF S, z
  <2> TAKE g \in 0 .. S
  <2> DEFINE e == S - g
  <2>1. e \in Nat /\ S = g + e /\ g \in Nat
    BY <1>1
  <2> HIDE DEF e
  <2>2. S * z = g * z + e * z /\ g * z \in Nat /\ e * z \in Nat
    BY <1>1, <2>1
  <2> QED
    BY <2>2
<1> QED
  BY <1>1, <1>2

LEMMA TopsType ==
  ASSUME FunOK, RadixOK
  PROVE  /\ GroupTops \in [0 .. Split -> Int] /\ GroupTops[0] = 0
         /\ \A g \in 0 .. Split : GroupTops[g] = Sums[g * Pow2[Bits + 1]]
<1>1. \A g \in 0 .. Split : GroupTops[g] = Sums[g * Pow2[Bits + 1]]
  BY DEF GroupTops
<1>2. \A g \in 0 .. Split : Sums[g * Pow2[Bits + 1]] \in Int
  BY GroupFacts, SumsType
<1>3. GroupTops \in [0 .. Split -> Int]
  BY <1>2 DEF GroupTops
<1>4. 0 \in 0 .. Split /\ 0 * Pow2[Bits + 1] = 0
  BY GroupFacts
<1> QED
  BY <1>1, <1>3, <1>4, SumsType

\* The second kernel of the scan begins with the sums of the groups.
LEMMA ScanKernelEnds ==
  ASSUME FunOK, RadixOK, at = "scan", ScanInv, EndKernel
  PROVE  RadixOK' /\ PassStays /\ GlobalScanInv' /\ at' = "globalScan"
<1> DEFINE lv == Bits + 1
           L == Pow2[Bits]
           size == Pow2[Bits + 1]
<1>0. GlobalSize = Split * L /\ Segments = 2 * lv + 2 /\ NextKernel = "globalScan"
      /\ lv - 1 = Bits
  BY ScanSizes, Sizes DEF NextKernel
<1>1. /\ done' \in [Range0(fun.n + HistoSize) -> Nat]
      /\ \A i \in Range0(fun.n + HistoSize) : done'[i] = 0
      /\ \A i \in Range0(Split * L) : done[i] = 2 * lv + 2
      /\ at' = "globalScan" /\ UNCHANGED <<fun, given, input, pass, gpu>>
  BY <1>0, KernelDone
<1>2. RadixOK'
  BY <1>1 DEF RadixOK, GpuOK, HistoSize, Split, Radix
<1>3. PassStays /\ Sums' = Sums
  BY <1>1 DEF PassStays, KeyBuffer, KeyPlaces, Sums
<1>4. Split \in Nat \ {0} /\ size \in Nat \ {0} /\ HistoSize = Split * size /\ L \in Nat \ {0}
      /\ Bits \in Nat
  BY GroupFacts, Sizes
<1>5. ASSUME NEW p \in Range0(HistoSize)
      PROVE  gpu.histo[p] = Sums[p] - Sums[GroupBase(p)]
  <2> DEFINE g == p \div size
             c == p % size
  <2>1. g \in Range0(Split) /\ c \in Range0(size) /\ p = g * size + c
    <3>1. p \in Range0(Split * size)
      BY <1>4
    <3> HIDE DEF size
    <3> QED
      BY <1>4, <3>1, Places
  <2> DEFINE f == done
             X == Sums
             b == gpu.histo
             l == gpu.local
  <2>2. Ended(lv, Split, f) /\ GroupsAt(lv, Split, X, f, l, b)
    BY <1>0, <1>1, <1>4 DEF Ended, ScanInv
  <2> HIDE DEF g, c, f, X, b, l
  <2>3. b[g * size + c] = X[g * size + c] - X[g * size]
    BY <2>1, <2>2, GroupsEnd
  <2> QED
    BY <2>1, <2>3 DEF GroupBase, g, b, X
<1>6. ASSUME NEW g \in Range0(Split)
      PROVE  gpu.sums[g] = GroupTops[g + 1] - GroupTops[g]
  <2>1. g * L \in Range0(Split * L)
    <3> HIDE DEF L
    <3> QED
      BY <1>4, FirstPlaced
  <2>2. done[g * L] > lv
    <3>1. done[g * L] = 2 * lv + 2
      BY <1>1, <2>1
    <3> QED
      BY <1>4, <3>1
  <2>3. gpu.sums[g] = Sums[(g + 1) * size] - Sums[g * size]
    BY <1>0, <2>2 DEF ScanInv, SumsAt
  <2>4. g \in 0 .. Split /\ g + 1 \in 0 .. Split
    BY <1>4 DEF Range0
  <2> QED
    BY <2>3, <2>4, TopsType
<1>7. GroupsAt(Level + 1, 1, GroupTops, done', gpu.local, gpu.sums)
  <2> DEFINE m == Level + 1
             X == GroupTops
             f == done'
             b == gpu.sums
             l == gpu.local
  <2>1. m \in Nat \ {0} /\ 1 * Pow2[m] = Split /\ m - 1 = Level /\ 1 * Pow2[Level] <= HistoSize
        /\ 1 * Pow2[Level] \in Nat
    <3>1. /\ Level \in Nat /\ Pow2[Level + 1] = Split
          /\ Split \div 2 = Pow2[Level] /\ Split <= HistoSize
          /\ HistoSize \in Nat /\ Split \in Nat /\ Split = 2 * Pow2[Level]
      BY Sizes
    <3>2. Pow2[Level] \in Nat
      BY <3>1, Pow2Positive
    <3> QED
      BY <3>1, <3>2
  <2>2. \A j \in Range0(1 * Pow2[m - 1]) : f[j] = 0
    <3>1. Range0(1 * Pow2[Level]) \subseteq Range0(fun.n + HistoSize)
      <4>1. fun.n \in Nat /\ HistoSize \in Nat
        BY GroupFacts DEF FunOK
      <4> QED
        BY <2>1, <4>1 DEF Range0
    <3> QED
      BY <1>1, <2>1, <3>1
  <2>3. X \in [0 .. 1 * Pow2[m] -> Int]
    BY <2>1, TopsType
  <2>4. \A p \in Range0(1 * Pow2[m]) : b[p] = X[p + 1] - X[p]
    BY <1>6, <2>1
  <2> HIDE DEF m, X, f, b, l
  <2>5. Starts(m, 1, X, f, b)
    BY <2>1, <2>2, <2>3, <2>4 DEF Starts
  <2>6. GroupsAt(m, 1, X, f, l, b)
    BY <2>5, GroupsStart
  <2> QED
    BY <2>6 DEF m, X, f, b, l
<1>8. GroupTops' = GroupTops
  BY <1>3 DEF GroupTops, Split
<1>9. GlobalScanInv'
  <2>1. GroupsAt(Level + 1, 1, GroupTops, done, gpu.local, gpu.sums)'
    BY <1>1, <1>7, <1>8 DEF Level
  <2>2. (\A p \in Range0(HistoSize) : gpu.histo[p] = Sums[p] - Sums[GroupBase(p)])'
    BY <1>1, <1>3, <1>5 DEF HistoSize, Radix, GroupBase
  <2> QED
    BY <2>1, <2>2 DEF GlobalScanInv
<1> QED
  BY <1>1, <1>2, <1>3, <1>9

LEMMA GlobalScanKeeps ==
  ASSUME FunOK, RadixOK, at = "globalScan", GlobalScanInv, NEW i \in Range0(GlobalSize),
         ItemStep(i)
  PROVE  RadixOK' /\ PassStays /\ GlobalScanInv' /\ UNCHANGED at
<1> DEFINE lv == Level + 1
<1>1. /\ GlobalSize = Pow2[Level] /\ LocalSize = Pow2[Level] /\ Segments = 2 * lv + 2
  BY ScanSizes
<1>2. /\ Level \in Nat /\ lv \in Nat \ {0} /\ lv - 1 = Level /\ Pow2[lv] = Split
      /\ Split = 2 * Pow2[Level] /\ Pow2[Level] \in Nat \ {0} /\ 1 * Pow2[lv] = Split
      /\ 1 * Pow2[Level] = Pow2[Level] /\ Split <= HistoSize
  <2>1. Level \in Nat /\ Pow2[Level + 1] = Split /\ Split = 2 * Pow2[Level] /\ Split <= HistoSize
        /\ Split \in Nat \ {0}
    BY Sizes
  <2>2. Pow2[Level] \in Nat \ {0}
    BY <2>1, Pow2Positive
  <2> QED
    BY <2>1, <2>2
<1>3. ScansNow(lv, 1, "sums", "none", GroupTops)
  <2>1. GroupSize(lv)
    BY <1>1, <1>2 DEF GroupSize
  <2>2. DOMAIN gpu.sums = Range0(Split)
    BY DEF RadixOK, GpuOK
  <2>3. Scans("sums", "none", 1, lv)
    BY <1>2, <2>2 DEF Scans
  <2>4. GroupTops \in [0 .. 1 * Pow2[lv] -> Int]
    BY <1>2, TopsType
  <2>5. GroupsAt(lv, 1, GroupTops, done, gpu.local, gpu["sums"])
    BY DEF GlobalScanInv
  <2>6. GlobalSize = 1 * Pow2[lv - 1]
    BY <1>1, <1>2
  <2> HIDE DEF lv
  <2> QED
    BY <1>1, <2>1, <2>3, <2>4, <2>5, <2>6 DEF ScansNow
<1>4. Scan(i, "sums", "none")
  BY DEF ItemStep
<1>5. /\ RadixOK' /\ PassStays /\ UNCHANGED at
      /\ ScanEffect(lv, i, "sums", "none")
      /\ GroupsAt(lv, 1, GroupTops, done', gpu'.local, gpu'["sums"])
  <2> HIDE DEF lv
  <2> QED
    BY <1>3, <1>4, ScanStepKeeps
<1>6. Sums' = Sums /\ fun' = fun
  BY <1>5 DEF PassStays, Sums
<1>7. GroupTops' = GroupTops
  BY <1>6 DEF GroupTops, Split
<1>8. gpu'.histo = gpu.histo
  BY <1>5 DEF ScanEffect
<1>9. GlobalScanInv'
  <2>1. GroupsAt(Level + 1, 1, GroupTops, done, gpu.local, gpu.sums)'
    BY <1>5, <1>7 DEF Level
  <2>2. (\A p \in Range0(HistoSize) : gpu.histo[p] = Sums[p] - Sums[GroupBase(p)])'
    BY <1>6, <1>8 DEF GlobalScanInv, HistoSize, Radix, GroupBase
  <2> QED
    BY <2>1, <2>2 DEF GlobalScanInv
<1> QED
  BY <1>5, <1>9

LEMMA GlobalScanEnds ==
  ASSUME FunOK, RadixOK, at = "globalScan", GlobalScanInv, EndKernel
  PROVE  RadixOK' /\ PassStays /\ PasteInv' /\ at' = "paste"
<1> DEFINE lv == Level + 1
<1>0. GlobalSize = Pow2[Level] /\ Segments = 2 * lv + 2 /\ NextKernel = "paste"
  BY ScanSizes DEF NextKernel
<1>1. /\ done' \in [Range0(fun.n + HistoSize) -> Nat]
      /\ \A i \in Range0(fun.n + HistoSize) : done'[i] = 0
      /\ \A i \in Range0(Pow2[Level]) : done[i] = 2 * lv + 2
      /\ at' = "paste" /\ UNCHANGED <<fun, given, input, pass, gpu>>
  BY <1>0, KernelDone
<1>2. RadixOK'
  BY <1>1 DEF RadixOK, GpuOK, HistoSize, Split, Radix
<1>3. PassStays /\ Sums' = Sums
  BY <1>1 DEF PassStays, KeyBuffer, KeyPlaces, Sums
<1>4. Level \in Nat /\ lv - 1 = Level /\ Pow2[lv] = Split /\ Split \in Nat \ {0}
      /\ Pow2[Level] \in Nat \ {0} /\ 1 * Pow2[Level] = Pow2[Level]
  <2>1. Level \in Nat /\ Pow2[Level + 1] = Split /\ Split \in Nat \ {0}
    BY Sizes
  <2>2. Pow2[Level] \in Nat \ {0}
    BY <2>1, Pow2Positive
  <2> QED
    BY <2>1, <2>2
<1>5. ASSUME NEW g \in Range0(Split)
      PROVE  gpu.sums[g] = Sums[g * Pow2[Bits + 1]]
  <2> DEFINE f == done
             X == GroupTops
             b == gpu.sums
             l == gpu.local
             z == 0
  <2>1. Ended(lv, 1, f) /\ GroupsAt(lv, 1, X, f, l, b)
    BY <1>1, <1>4 DEF Ended, GlobalScanInv
  <2>2. z \in Range0(1) /\ g \in Range0(Pow2[lv]) /\ z * Pow2[lv] = z
        /\ z * Pow2[lv] + g = g
    BY <1>4 DEF Range0
  <2> HIDE DEF f, X, b, l, z, lv
  <2>3. b[z * Pow2[lv] + g] = X[z * Pow2[lv] + g] - X[z * Pow2[lv]]
    BY <2>1, <2>2, GroupsEnd
  <2>4. b[g] = X[g] - X[z]
    BY ONLY <2>2, <2>3
  <2>5. X[z] = 0 /\ X[g] = Sums[g * Pow2[Bits + 1]] /\ X[g] \in Int
    <3>1. g \in 0 .. Split
      BY <1>4 DEF Range0
    <3> QED
      BY <3>1, TopsType DEF X, z
  <2>6. b[g] = X[g]
    BY <2>4, <2>5
  <2> QED
    BY <2>5, <2>6 DEF b
<1>6. ASSUME NEW p \in Range0(HistoSize)
      PROVE  done'[p \div 2] = 0
  <2>1. HistoSize \in Nat /\ fun.n \in Nat
    BY GroupFacts DEF FunOK
  <2> HIDE DEF HistoSize
  <2>2. p \div 2 \in Range0(fun.n + HistoSize)
    BY <2>1 DEF Range0
  <2> QED
    BY <1>1, <2>2
<1>7. PasteInv'
  <2>1. (\A g \in Range0(Split) : gpu.sums[g] = Sums[g * Pow2[Bits + 1]])'
    BY <1>1, <1>3, <1>5 DEF Split
  <2>2. ASSUME NEW p \in Range0(HistoSize)
        PROVE  gpu'.histo[p] = IF done'[p \div 2] = 1 THEN Sums[p] ELSE Sums[p] - Sums[GroupBase(p)]
    BY <1>1, <1>6 DEF GlobalScanInv
  <2>3. (\A p \in Range0(HistoSize) :
           gpu.histo[p] = IF done[p \div 2] = 1 THEN Sums[p] ELSE Sums[p] - Sums[GroupBase(p)])'
    BY <1>3, <2>2 DEF HistoSize, Radix, GroupBase
  <2> QED
    BY <2>1, <2>3 DEF PasteInv
<1> QED
  BY <1>1, <1>2, <1>3, <1>7

-----------------------------------------------------------------------------
(* Adding the sums of the groups                                            *)

\* The two cells of a work item are in the group of the work item.
LEMMA PastedCells ==
  ASSUME NEW i \in Range0(Split * Pow2[Bits]), NEW c \in {0, 1}
  PROVE  /\ 2 * i + c \in Range0(HistoSize) /\ (2 * i + c) \div 2 = i
         /\ (2 * i + c) \div Pow2[Bits + 1] = i \div Pow2[Bits]
         /\ i \div Pow2[Bits] \in Range0(Split) /\ i \in Nat
<1> DEFINE L == Pow2[Bits]
           B == Pow2[Bits + 1]
           g == i \div L
           r == i % L
<1>1. L \in Nat \ {0} /\ B = 2 * L /\ Split \in Nat \ {0} /\ HistoSize = Split * B
      /\ i \in Range0(Split * L) /\ B \in Nat \ {0}
  BY Sizes
<1> DEFINE S == Split
           H == HistoSize
<1> HIDE DEF L, B, S, H
<1>2. g \in Range0(S) /\ r \in Range0(L) /\ i = g * L + r
  BY <1>1, Places DEF S
<1> HIDE DEF g, r
<1>3. g \in Nat /\ r \in Nat /\ r < L
  BY <1>1, <1>2 DEF Range0, S
<1>4. 2 * r + c \in Range0(B)
  BY <1>1, <1>3 DEF Range0
<1>5. 2 * i + c = g * B + (2 * r + c)
  <2>1. g * B = 2 * (g * L) /\ g * L \in Nat
    BY <1>1, <1>3
  <2> QED
    BY <1>2, <1>3, <2>1
<1>6. g * B + (2 * r + c) \in Range0(S * B) /\ (g * B + (2 * r + c)) \div B = g
  BY <1>1, <1>2, <1>4, Placed2 DEF S
<1>7. i \in Nat
  <2>1. g * L \in Nat
    BY <1>1, <1>3
  <2> QED
    BY <1>2, <1>3, <2>1
<1>8. (2 * i + c) \div 2 = i
  BY <1>7
<1> QED
  BY <1>1, <1>2, <1>5, <1>6, <1>7, <1>8 DEF L, B, S, H, g

LEMMA HalfCells ==
  ASSUME NEW p \in Range0(HistoSize)
  PROVE  /\ p \div 2 \in Range0(Split * Pow2[Bits])
         /\ p = 2 * (p \div 2) \/ p = 2 * (p \div 2) + 1
         /\ p \in 0 .. HistoSize /\ GroupBase(p) \in 0 .. HistoSize
<1>1. HistoSize \in Nat /\ HistoSize = 2 * (Split * Pow2[Bits]) /\ Split * Pow2[Bits] \in Nat
  <2>1. HistoSize = Split * Pow2[Bits + 1] /\ Pow2[Bits + 1] = 2 * Pow2[Bits] /\ Split \in Nat
        /\ Pow2[Bits] \in Nat /\ HistoSize \in Nat
    BY Sizes
  <2> DEFINE S == Split
             L == Pow2[Bits]
  <2>2. S \in Nat /\ L \in Nat
    BY <2>1
  <2> HIDE DEF S, L
  <2>3. S * (2 * L) = 2 * (S * L) /\ S * L \in Nat
    BY <2>2
  <2> QED
    BY <2>1, <2>3 DEF S, L
<1>2. GroupBase(p) \in 0 .. HistoSize
  <2> DEFINE B == Pow2[Bits + 1]
             g == p \div B
  <2>1. p \in Range0(Split * B) /\ B \in Nat \ {0} /\ Split \in Nat
    BY GroupFacts
  <2> HIDE DEF B
  <2>2. g \in Range0(Split)
    BY <2>1, Places
  <2>3. g \in 0 .. Split
    BY <2>1, <2>2 DEF Range0
  <2> HIDE DEF g
  <2>4. g * B \in 0 .. HistoSize
    BY <2>3, GroupFacts DEF B
  <2> QED
    BY <2>4 DEF GroupBase, B, g
<1> DEFINE H == HistoSize
           T == Split * Pow2[Bits]
<1>3. H \in Nat /\ H = 2 * T /\ T \in Nat /\ p \in Range0(H)
  BY <1>1
<1> HIDE DEF H, T
<1>4. p \div 2 \in Range0(T) /\ (p = 2 * (p \div 2) \/ p = 2 * (p \div 2) + 1) /\ p \in 0 .. H
  BY <1>3 DEF Range0
<1> QED
  BY <1>2, <1>4 DEF H, T

LEMMA PasteKeeps ==
  ASSUME FunOK, RadixOK, at = "paste", PasteInv, NEW i \in Range0(GlobalSize), ItemStep(i)
  PROVE  RadixOK' /\ PassStays /\ PasteInv' /\ UNCHANGED at
<1> DEFINE L == Pow2[Bits]
           s == gpu.sums[i \div L]
           H == [gpu.histo EXCEPT ![2 * i] = @ + s, ![2 * i + 1] = @ + s]
<1>1. GlobalSize = Split * L /\ LocalSize = L /\ Segments = 1
  BY ScanSizes
<1>2. /\ done[i] \in Nat /\ done[i] < Segments
      /\ done'[i] = done[i] + 1 /\ done' \in [Range0(fun.n + HistoSize) -> Nat]
      /\ \A j \in Range0(GlobalSize) : j # i => done'[j] = done[j]
      /\ UNCHANGED <<fun, given, input, at, pass>>
  BY ItemDone
<1>3. Paste(i) /\ i \in Range0(Split * L)
  BY <1>1 DEF ItemStep
<1>4. GpuOK /\ pass \in Nat /\ gpu.in = 1 + (pass % 2)
  BY DEF RadixOK
<1>5. /\ 2 * i \in Range0(HistoSize) /\ (2 * i) \div 2 = i
      /\ (2 * i) \div Pow2[Bits + 1] = i \div L
      /\ 2 * i + 1 \in Range0(HistoSize) /\ (2 * i + 1) \div 2 = i
      /\ (2 * i + 1) \div Pow2[Bits + 1] = i \div L
      /\ i \div L \in Range0(Split) /\ i \in Nat
  <2>1. i \in Nat /\ i \div L \in Range0(Split)
    BY <1>3, PastedCells
  <2>2. 2 * i + 0 = 2 * i
    BY <2>1
  <2>3. /\ 2 * i + 0 \in Range0(HistoSize) /\ (2 * i + 0) \div 2 = i
        /\ (2 * i + 0) \div Pow2[Bits + 1] = i \div Pow2[Bits]
    BY <1>3, PastedCells
  <2>4. /\ 2 * i + 1 \in Range0(HistoSize) /\ (2 * i + 1) \div 2 = i
        /\ (2 * i + 1) \div Pow2[Bits + 1] = i \div Pow2[Bits]
    BY <1>3, PastedCells
  <2> QED
    BY <2>1, <2>2, <2>3, <2>4
<1>6. s \in Int /\ gpu.histo \in [Range0(HistoSize) -> Int]
  BY <1>4, <1>5 DEF GpuOK
<1>7. gpu' = [gpu EXCEPT !.histo = H]
  <2>1. gpu' = [gpu EXCEPT !.histo[2 * i] = @ + s, !.histo[2 * i + 1] = @ + s]
    BY <1>1, <1>3 DEF Paste, Group
  <2> QED
    BY <1>4, <2>1 DEF GpuOK
<1> HIDE DEF s
<1>8. /\ H \in [Range0(HistoSize) -> Int]
      /\ H[2 * i] = gpu.histo[2 * i] + s /\ H[2 * i + 1] = gpu.histo[2 * i + 1] + s
      /\ \A p \in Range0(HistoSize) : p # 2 * i /\ p # 2 * i + 1 => H[p] = gpu.histo[p]
  BY <1>5, <1>6
<1> HIDE DEF H
<1>9. GpuOK' /\ gpu'.histo = H /\ gpu'.in = gpu.in /\ gpu'.keys = gpu.keys
      /\ gpu'.places = gpu.places /\ gpu'.sums = gpu.sums
  BY <1>2, <1>4, <1>7, <1>8 DEF GpuOK, HistoSize, Split, Radix
<1>10. RadixOK'
  BY <1>2, <1>4, <1>9 DEF RadixOK, HistoSize, Radix
<1>11. PassStays
  BY <1>2, <1>9 DEF PassStays, KeyBuffer, KeyPlaces
<1>12. Sums' = Sums
  BY <1>11 DEF PassStays, Sums
<1>13. done[i] = 0 /\ done'[i] = 1
  BY <1>1, <1>2
<1>14. s = Sums[(i \div L) * Pow2[Bits + 1]]
  BY <1>5 DEF PasteInv, s
<1>15. ASSUME NEW p \in Range0(HistoSize)
       PROVE  H[p] = IF done'[p \div 2] = 1 THEN Sums[p] ELSE Sums[p] - Sums[GroupBase(p)]
  <2>1. p \div 2 \in Range0(GlobalSize)
        /\ (p = 2 * (p \div 2) \/ p = 2 * (p \div 2) + 1)
        /\ Sums[p] \in Int /\ Sums[GroupBase(p)] \in Int
    <3>1. p \in 0 .. HistoSize /\ GroupBase(p) \in 0 .. HistoSize
      BY HalfCells
    <3>2. Sums[p] \in Int /\ Sums[GroupBase(p)] \in Int
      <4> HIDE DEF Sums, GroupBase
      <4> QED
        BY <3>1, SumsType
    <3>3. p \div 2 \in Range0(GlobalSize) /\ (p = 2 * (p \div 2) \/ p = 2 * (p \div 2) + 1)
      BY <1>1, HalfCells
    <3> QED
      BY <3>2, <3>3
  <2>2. CASE p = 2 * i \/ p = 2 * i + 1
    <3>1. p \div 2 = i /\ GroupBase(p) = (i \div L) * Pow2[Bits + 1]
      BY <1>5, <2>2 DEF GroupBase
    <3>2. gpu.histo[p] = Sums[p] - Sums[GroupBase(p)]
      BY <1>13, <3>1 DEF PasteInv
    <3>3. H[p] = gpu.histo[p] + s
      BY <1>8, <2>2
    <3>4. s = Sums[GroupBase(p)]
      BY <1>14, <3>1
    <3>5. H[p] = Sums[p]
      BY <2>1, <3>2, <3>3, <3>4
    <3> QED
      BY <1>13, <3>1, <3>5
  <2>3. CASE p # 2 * i /\ p # 2 * i + 1
    <3>1. p \div 2 # i
      BY <2>1, <2>3
    <3>2. done'[p \div 2] = done[p \div 2]
      BY <1>2, <2>1, <3>1
    <3>3. H[p] = gpu.histo[p]
      BY <1>8, <2>3
    <3> QED
      BY <3>2, <3>3 DEF PasteInv
  <2> QED
    BY <2>2, <2>3
<1>16. PasteInv'
  <2>1. (\A g \in Range0(Split) : gpu.sums[g] = Sums[g * Pow2[Bits + 1]])'
    BY <1>9, <1>12 DEF PasteInv, Split
  <2>2. (\A p \in Range0(HistoSize) :
           gpu.histo[p] = IF done[p \div 2] = 1 THEN Sums[p] ELSE Sums[p] - Sums[GroupBase(p)])'
    BY <1>9, <1>12, <1>15 DEF HistoSize, Radix, GroupBase
  <2> QED
    BY <2>1, <2>2 DEF PasteInv
<1> QED
  BY <1>2, <1>10, <1>11, <1>16

LEMMA PasteEnds ==
  ASSUME FunOK, RadixOK, at = "paste", PasteInv, EndKernel
  PROVE  RadixOK' /\ PassStays /\ ReorderInv' /\ at' = "reorder"
<1>0. GlobalSize = Split * Pow2[Bits] /\ Segments = 1 /\ NextKernel = "reorder"
  BY ScanSizes DEF NextKernel
<1>1. /\ done' \in [Range0(fun.n + HistoSize) -> Nat]
      /\ \A i \in Range0(fun.n + HistoSize) : done'[i] = 0
      /\ \A i \in Range0(Split * Pow2[Bits]) : done[i] = 1
      /\ at' = "reorder" /\ UNCHANGED <<fun, given, input, pass, gpu>>
  BY <1>0, KernelDone
<1>2. RadixOK'
  BY <1>1 DEF RadixOK, GpuOK, HistoSize, Split, Radix
<1>3. PassStays /\ Sums' = Sums
  BY <1>1 DEF PassStays, KeyBuffer, KeyPlaces, Sums
<1>4. \A p \in Range0(HistoSize) : gpu.histo[p] = Sums[p]
  BY <1>1, HalfCells DEF PasteInv
<1>5. ASSUME NEW q \in Range0(fun.n)
      PROVE  done'[PartOf(fun.n, q)] = 0
  <2>1. PartOf(fun.n, q) \in Range0(Parts)
    BY RadixKeys, ColType
  <2>2. Parts \in Nat /\ Parts <= HistoSize /\ HistoSize \in Nat /\ fun.n \in Nat
    BY Sizes DEF Parts, FunOK
  <2>3. PartOf(fun.n, q) \in Range0(fun.n + HistoSize)
    <3> DEFINE H == HistoSize
               P == Parts
    <3>1. P \in Nat /\ P <= H /\ H \in Nat /\ fun.n \in Nat /\ PartOf(fun.n, q) \in Range0(P)
      BY <2>1, <2>2
    <3> HIDE DEF H, P
    <3>2. PartOf(fun.n, q) \in Range0(fun.n + H)
      BY <3>1 DEF Range0
    <3> QED
      BY <3>2 DEF H
  <2> QED
    BY <1>1, <2>3
<1>6. ReorderInv'
  <2>1. (\A p \in Range0(HistoSize) : gpu.histo[p] = Sums[p])'
    BY <1>1, <1>3, <1>4 DEF HistoSize, Radix
  <2>2. \A q \in Range0(fun.n) : done'[PartOf(fun.n, q)] # 1
    BY <1>5
  <2>3. \A q \in Range0(fun'.n) : done'[PartOf(fun'.n, q)] # 1
    BY <1>1, <2>2
  <2> QED
    BY <2>1, <2>3 DEF ReorderInv
<1> QED
  BY <1>1, <1>2, <1>3, <1>6

-----------------------------------------------------------------------------
(* Reordering the keys                                                      *)

\* The new places of the keys are all places, in the order of the keys.
LEMMA NewPlaces ==
  ASSUME FunOK, RadixOK
  PROVE  /\ \A q \in Range0(fun.n) : NewPlace(q) \in Range0(fun.n)
         /\ \A p, q \in Range0(fun.n) :
              <<p, q>> \in KeyOrder(fun.n, pass, KeyBuffer) => NewPlace(p) < NewPlace(q)
         /\ \A p, q \in Range0(fun.n) : NewPlace(p) = NewPlace(q) => p = q
         /\ \A p \in Range0(fun.n) : \E q \in Range0(fun.n) : NewPlace(q) = p
         /\ \A p, q \in Range0(fun.n) :
              p # q => <<p, q>> \in KeyOrder(fun.n, pass, KeyBuffer)
                         \/ <<q, p>> \in KeyOrder(fun.n, pass, KeyBuffer)
<1> DEFINE R == KeyOrder(fun.n, pass, KeyBuffer)
           S == Range0(fun.n)
<1>1. Orders(R, S) /\ IsFiniteSet(S) /\ Cardinality(S) = fun.n
  BY RadixKeys, KeyOrders
<1>2. \A q : NewPlace(q) = Rank(R, S, q)
  BY DEF NewPlace
<1>3. S = Range0(fun.n)
  OBVIOUS
<1> HIDE DEF R, S
<1>4. /\ \A q \in S : Rank(R, S, q) \in Range0(fun.n)
      /\ \A p, q \in S : <<p, q>> \in R => Rank(R, S, p) < Rank(R, S, q)
      /\ \A p, q \in S : Rank(R, S, p) = Rank(R, S, q) => p = q
      /\ \A p \in Range0(fun.n) : \E q \in S : Rank(R, S, q) = p
  BY <1>1, Ranks
<1>5. \A p, q \in S : p # q => <<p, q>> \in R \/ <<q, p>> \in R
  BY <1>1 DEF Orders
<1> QED
  BY <1>2, <1>3, <1>4, <1>5 DEF R

LEMMA NewPositions ==
  ASSUME FunOK, RadixOK, ReorderInv, NEW i \in Range0(Parts), NEW q \in Part(i)
  PROVE  q \in Range0(fun.n) /\ PartOf(fun.n, q) = i /\ NewPosition(i, q) = NewPlace(q)
<1> DEFINE K == KeyBuffer
           S == {p \in Part(i) : p < q /\ Digit(K[p]) = Digit(K[q])}
           T == {p \in Range0(fun.n) : /\ PartOf(fun.n, p) = PartOf(fun.n, q) /\ p < q
                                       /\ DigitOf(pass, K, p) = DigitOf(pass, K, q)}
<1>1. KeysOK(fun.n, pass, K)
  BY RadixKeys
<1>2. Part(i) = {x \in Range0(fun.n) : PartOf(fun.n, x) = i}
  BY KeyNames
<1>3. q \in Range0(fun.n) /\ PartOf(fun.n, q) = i
  BY <1>2
<1>4. \A x \in Range0(fun.n) : Digit(K[x]) = DigitOf(pass, K, x)
  BY KeyNames
<1>5. Column(i, Digit(K[q])) = ColOf(fun.n, pass, K, q)
  BY <1>3, KeyNames
<1>6. S = T
  BY <1>2, <1>3, <1>4
<1>7. gpu.histo[Column(i, Digit(K[q]))] = Before(fun.n, pass, K)[ColOf(fun.n, pass, K, q)]
  <2>1. ColOf(fun.n, pass, K, q) \in Range0(HistoSize)
    BY <1>1, <1>3, ColType
  <2> QED
    BY <1>5, <2>1 DEF ReorderInv, Sums
<1>8. NewPosition(i, q) = gpu.histo[Column(i, Digit(K[q]))] + Cardinality(S)
  BY DEF NewPosition
<1> HIDE DEF S, K
<1>9. Before(fun.n, pass, K)[ColOf(fun.n, pass, K, q)] + Cardinality(T)
        = Rank(KeyOrder(fun.n, pass, K), Range0(fun.n), q)
  BY <1>1, <1>3, RankOfKey
<1> HIDE DEF T
<1>10. NewPosition(i, q) = Rank(KeyOrder(fun.n, pass, K), Range0(fun.n), q)
  BY ONLY <1>6, <1>7, <1>8, <1>9
<1> QED
  BY <1>3, <1>10 DEF NewPlace, K

\* A work item writes the keys of its part and no others.
LEMMA PlacedPart ==
  ASSUME FunOK, RadixOK, ReorderInv, NEW i \in Range0(Parts),
         NEW buffer \in [Range0(fun.n) -> Nat], NEW from \in [Range0(fun.n) -> Nat]
  PROVE  /\ Placed(buffer, i, from) \in [Range0(fun.n) -> Nat]
         /\ \A q \in Range0(fun.n) :
              Placed(buffer, i, from)[NewPlace(q)]
                = IF PartOf(fun.n, q) = i THEN from[q] ELSE buffer[NewPlace(q)]
<1> DEFINE G == Placed(buffer, i, from)
           F(p) == CHOOSE x \in Part(i) : NewPosition(i, x) = p
<1>1. G = [p \in Range0(fun.n) |-> IF \E x \in Part(i) : NewPosition(i, x) = p
                                   THEN from[F(p)] ELSE buffer[p]]
  BY DEF Placed
<1>2. \A p : (\E x \in Part(i) : NewPosition(i, x) = p)
               => F(p) \in Part(i) /\ NewPosition(i, F(p)) = p
  OBVIOUS
<1>3. \A x \in Part(i) : x \in Range0(fun.n) /\ PartOf(fun.n, x) = i
                           /\ NewPosition(i, x) = NewPlace(x)
  BY NewPositions
<1>4. \A x \in Range0(fun.n) : PartOf(fun.n, x) = i => x \in Part(i)
  BY KeyNames
<1> HIDE DEF F
<1>5. ASSUME NEW p \in Range0(fun.n)
      PROVE  (IF \E x \in Part(i) : NewPosition(i, x) = p THEN from[F(p)] ELSE buffer[p]) \in Nat
  <2>1. CASE \E x \in Part(i) : NewPosition(i, x) = p
    <3>1. F(p) \in Range0(fun.n)
      BY <1>2, <1>3, <2>1
    <3> QED
      BY <2>1, <3>1
  <2>2. CASE ~\E x \in Part(i) : NewPosition(i, x) = p
    BY <2>2
  <2> QED
    BY <2>1, <2>2
<1>6. G \in [Range0(fun.n) -> Nat]
  BY <1>1, <1>5
<1> HIDE DEF G
<1>7. ASSUME NEW q \in Range0(fun.n)
      PROVE  G[NewPlace(q)] = IF PartOf(fun.n, q) = i THEN from[q] ELSE buffer[NewPlace(q)]
  <2> DEFINE p == NewPlace(q)
  <2>1. p \in Range0(fun.n)
    BY NewPlaces
  <2>2. CASE PartOf(fun.n, q) = i
    <3>1. q \in Part(i) /\ NewPosition(i, q) = p
      BY <1>3, <1>4, <2>2
    <3>2. F(p) \in Part(i) /\ NewPosition(i, F(p)) = p
      BY <1>2, <3>1
    <3>3. F(p) = q
      BY <1>3, <3>2, NewPlaces
    <3> QED
      BY <1>1, <2>1, <2>2, <3>1, <3>3
  <2>3. CASE PartOf(fun.n, q) # i
    <3>1. ~\E x \in Part(i) : NewPosition(i, x) = p
      BY <1>3, <2>3, NewPlaces
    <3> HIDE DEF p
    <3>2. G[p] = buffer[p]
      BY <1>1, <2>1, <3>1
    <3> QED
      BY <2>3, <3>2 DEF p
  <2> QED
    BY <2>2, <2>3
<1> QED
  BY <1>6, <1>7 DEF G

LEMMA OtherIsOther ==
  ASSUME RadixOK
  PROVE  OtherBuffer \in 1 .. 2 /\ gpu.in \in 1 .. 2 /\ OtherBuffer # gpu.in
           /\ 3 - OtherBuffer = gpu.in
<1>1. gpu.in \in 1 .. 2
  BY DEF RadixOK, GpuOK
<1> QED
  BY <1>1 DEF OtherBuffer

LEMMA ReorderKeeps ==
  ASSUME FunOK, RadixOK, at = "reorder", ReorderInv, NEW i \in Range0(GlobalSize), ItemStep(i)
  PROVE  RadixOK' /\ PassStays /\ ReorderInv' /\ UNCHANGED at
<1> DEFINE b == OtherBuffer
           K == Placed(gpu.keys[b], i, KeyBuffer)
           P == Placed(gpu.places[b], i, KeyPlaces)
<1>1. GlobalSize = Parts /\ Segments = 1
  BY DEF GlobalSize, Segments, Parts
<1>2. /\ done[i] \in Nat /\ done[i] < Segments
      /\ done'[i] = done[i] + 1 /\ done' \in [Range0(fun.n + HistoSize) -> Nat]
      /\ \A j \in Range0(GlobalSize) : j # i => done'[j] = done[j]
      /\ UNCHANGED <<fun, given, input, at, pass>>
  BY ItemDone
<1>3. Reorder(i) /\ i \in Range0(Parts)
  BY <1>1 DEF ItemStep
<1>4. GpuOK /\ pass \in Nat /\ gpu.in = 1 + (pass % 2)
  BY DEF RadixOK
<1>5. b \in 1 .. 2 /\ gpu.in \in 1 .. 2 /\ gpu.in # b
  BY OtherIsOther
<1>6. /\ gpu.keys[b] \in [Range0(fun.n) -> Nat] /\ KeyBuffer \in [Range0(fun.n) -> Nat]
      /\ gpu.places[b] \in [Range0(fun.n) -> Range0(fun.n)]
      /\ KeyPlaces \in [Range0(fun.n) -> Range0(fun.n)]
  BY <1>4, <1>5 DEF GpuOK, KeyBuffer, KeyPlaces
<1>7. Rewrites(b, K, P)
  BY <1>3 DEF Reorder, Rewrites, KeyPlaces
<1> HIDE DEF b
<1>8. /\ K \in [Range0(fun.n) -> Nat] /\ P \in [Range0(fun.n) -> Range0(fun.n)]
      /\ \A q \in Range0(fun.n) :
           /\ K[NewPlace(q)] = IF PartOf(fun.n, q) = i THEN KeyBuffer[q]
                               ELSE gpu.keys[b][NewPlace(q)]
           /\ P[NewPlace(q)] = IF PartOf(fun.n, q) = i THEN KeyPlaces[q]
                               ELSE gpu.places[b][NewPlace(q)]
  <2> DEFINE kb == gpu.keys[b]
             pb == gpu.places[b]
             kf == KeyBuffer
             pf == KeyPlaces
  <2>1. /\ kb \in [Range0(fun.n) -> Nat] /\ kf \in [Range0(fun.n) -> Nat]
        /\ pb \in [Range0(fun.n) -> Range0(fun.n)] /\ pf \in [Range0(fun.n) -> Range0(fun.n)]
    BY <1>6
  <2>2. Range0(fun.n) \subseteq Nat
    BY DEF FunOK, Range0
  <2> HIDE DEF kb, pb, kf, pf
  <2>3. pb \in [Range0(fun.n) -> Nat] /\ pf \in [Range0(fun.n) -> Nat]
    BY <2>1, <2>2
  <2>4. /\ Placed(kb, i, kf) \in [Range0(fun.n) -> Nat]
        /\ \A q \in Range0(fun.n) :
             Placed(kb, i, kf)[NewPlace(q)]
               = IF PartOf(fun.n, q) = i THEN kf[q] ELSE kb[NewPlace(q)]
    BY <1>3, <2>1, PlacedPart
  <2> DEFINE G == Placed(pb, i, pf)
  <2>5. /\ G \in [Range0(fun.n) -> Nat]
        /\ \A q \in Range0(fun.n) :
             G[NewPlace(q)] = IF PartOf(fun.n, q) = i THEN pf[q] ELSE pb[NewPlace(q)]
    BY <1>3, <2>3, PlacedPart
  <2> HIDE DEF G
  <2>6. \A p \in Range0(fun.n) : G[p] \in Range0(fun.n)
    <3> TAKE p \in Range0(fun.n)
    <3>1. PICK q \in Range0(fun.n) : NewPlace(q) = p
      BY NewPlaces
    <3>2. pf[q] \in Range0(fun.n) /\ pb[p] \in Range0(fun.n)
      BY <2>1
    <3> QED
      BY <2>5, <3>1, <3>2
  <2>7. G \in [Range0(fun.n) -> Range0(fun.n)]
    BY <2>5, <2>6
  <2> QED
    BY <2>4, <2>5, <2>7 DEF kb, pb, kf, pf, G
<1> HIDE DEF K, P
<1>9. /\ GpuOK' /\ gpu'.keys[b] = K /\ gpu'.places[b] = P
      /\ \A c \in 1 .. 2 : c # b =>
           gpu'.keys[c] = gpu.keys[c] /\ gpu'.places[c] = gpu.places[c]
      /\ gpu'.in = gpu.in /\ gpu'.histo = gpu.histo
  BY <1>2, <1>4, <1>5, <1>7, <1>8, WritesKeys
<1>10. RadixOK'
  BY <1>2, <1>4, <1>9 DEF RadixOK, HistoSize, Radix
<1>11. PassStays
  BY <1>2, <1>5, <1>9 DEF PassStays, KeyBuffer, KeyPlaces
<1>12. Sums' = Sums /\ \A q : NewPlace(q)' = NewPlace(q)
  BY <1>11 DEF PassStays, Sums, NewPlace
<1>13. OtherBuffer' = b
  BY <1>9 DEF OtherBuffer, b
<1>14. ASSUME NEW q \in Range0(fun.n), done'[PartOf(fun.n, q)] = 1
       PROVE  K[NewPlace(q)] = KeyBuffer[q] /\ P[NewPlace(q)] = KeyPlaces[q]
  <2>1. PartOf(fun.n, q) \in Range0(Parts)
    BY RadixKeys, ColType
  <2>2. CASE PartOf(fun.n, q) = i
    BY <1>8, <2>2
  <2>3. CASE PartOf(fun.n, q) # i
    <3>1. done[PartOf(fun.n, q)] = 1
      BY <1>1, <1>2, <1>14, <2>1, <2>3
    <3> QED
      BY <1>8, <2>3, <3>1 DEF ReorderInv, b
  <2> QED
    BY <2>2, <2>3
<1>15. ReorderInv'
  <2>1. (\A p \in Range0(HistoSize) : gpu.histo[p] = Sums[p])'
    BY <1>9, <1>12 DEF ReorderInv, HistoSize, Radix
  <2>2. ASSUME NEW q \in Range0(fun'.n), done'[PartOf(fun'.n, q)] = 1
        PROVE  /\ gpu'.keys[OtherBuffer'][NewPlace(q)'] = KeyBuffer'[q]
               /\ gpu'.places[OtherBuffer'][NewPlace(q)'] = KeyPlaces'[q]
    <3>1. q \in Range0(fun.n) /\ done'[PartOf(fun.n, q)] = 1
      BY <1>2, <2>2
    <3>2. KeyBuffer' = KeyBuffer /\ KeyPlaces' = KeyPlaces
      BY <1>11 DEF PassStays
    <3> QED
      BY <1>9, <1>12, <1>13, <1>14, <3>1, <3>2
  <2> QED
    BY <2>1, <2>2 DEF ReorderInv
<1> QED
  BY <1>2, <1>10, <1>11, <1>15

-----------------------------------------------------------------------------
(* A pass sorts by one more digit                                           *)

LastSorted == pass = Passes /\ SortedBy(pass, KeyBuffer, KeyPlaces)

\* The first of the negative keys: they stand behind the others.
FirstAt(z) ==
  z \in 0 .. fun.n /\ \A p \in Range0(fun.n) : p < z <=> ~Negative(KeyBuffer[p])

\* Which work items write the first negative.
Writes(i) ==
  IF i = fun.n - 1 THEN Number(KeyBuffer[i]) > 0
  ELSE IF i = 0 THEN Number(KeyBuffer[i]) < 0
  ELSE Number(KeyBuffer[i - 1]) > 0 /\ Number(KeyBuffer[i]) < 0
Finds == fun.rows = 1 /\ FindsFirstNegative
FindInv ==
  Finds => \A z : FirstAt(z) /\ (\E i \in Range0(fun.n) : done[i] = 1 /\ Writes(i))
                    => gpu.first = z

LEMMA DigitSplit ==
  ASSUME NEW a \in Nat, NEW d \in Nat \ {0}, NEW R \in Nat \ {0}
  PROVE  /\ a % (d * R) = ((a \div d) % R) * d + (a % d)
         /\ (a \div d) % R \in Nat /\ a % d \in 0 .. d - 1
<1> DEFINE u == a \div d
           v == a % d
           w == u \div R
           z == u % R
<1>1. u \in Nat /\ v \in 0 .. d - 1 /\ a = u * d + v
  BY DivMod
<1> HIDE DEF u, v
<1>2. w \in Nat /\ z \in 0 .. R - 1 /\ u = w * R + z
  BY <1>1, DivMod
<1> HIDE DEF w, z
<1>3. d * R \in Nat \ {0} /\ z \in Nat /\ z * d \in Nat
  BY <1>2
<1> DEFINE m == d * R
           r == z * d + v
<1>4. a = w * m + r
  <2>1. u * d = w * (d * R) + z * d
    BY <1>2
  <2>2. w * (d * R) \in Nat
    BY <1>2, <1>3
  <2> DEFINE x == w * (d * R)
             y == z * d
             t == u * d
  <2>3. x \in Nat /\ y \in Nat /\ t = x + y /\ a = t + v
    BY <1>1, <1>3, <2>1, <2>2
  <2> HIDE DEF x, y, t
  <2>4. a = x + (y + v)
    BY <1>1, <2>3
  <2> QED
    BY <2>4 DEF x, y
<1>5. r \in 0 .. m - 1
  <2> DEFINE e == R - z - 1
  <2>1. e \in Nat /\ R = z + 1 + e
    BY <1>2
  <2> HIDE DEF e
  <2>2. d * R = z * d + d + e * d /\ e * d \in Nat
    BY <1>2, <2>1
  <2> QED
    BY <1>1, <1>3, <2>2
<1> HIDE DEF m, r
<1>6. m \in Nat \ {0}
  BY <1>3 DEF m
<1>7. (w * m + r) % m = r
  BY <1>2, <1>5, <1>6, DivModOf
<1>8. a % m = r
  BY ONLY <1>4, <1>7
<1> QED
  BY <1>1, <1>3, <1>8 DEF m, r, u, v, z

\* Two keys that are in order stand in order after the pass.
LEMMA KeysInOrder ==
  ASSUME NEW n, NEW e, NEW K, KeysOK(n, e, K), NEW x \in Range0(n), NEW y \in Range0(n),
         <<x, y>> \in KeyOrder(n, e, K),
         x < y => K[x] % Pow2[e * Bits] <= K[y] % Pow2[e * Bits]
  PROVE  K[x] % Pow2[(e + 1) * Bits] <= K[y] % Pow2[(e + 1) * Bits]
<1> DEFINE d == Pow2[e * Bits]
           a == K[x]
           b == K[y]
           f == (a \div d) % Radix
           g == (b \div d) % Radix
<1>1. a \in Nat /\ b \in Nat /\ e \in Nat
  BY DEF KeysOK
<1>2. d \in Nat \ {0} /\ Radix \in Nat \ {0} /\ Pow2[(e + 1) * Bits] = d * Radix
  <2>1. e * Bits \in Nat /\ Bits \in Nat /\ (e + 1) * Bits = e * Bits + Bits
    BY <1>1, BitsAssumption
  <2>2. Pow2[e * Bits + Bits] = Pow2[e * Bits] * Pow2[Bits]
    BY <2>1, Pow2Sum
  <2>3. Pow2[e * Bits] \in Nat \ {0} /\ Pow2[Bits] \in Nat \ {0}
    BY <2>1, Pow2Positive
  <2> QED
    BY <2>1, <2>2, <2>3 DEF Radix
<1>3. f < g \/ (f = g /\ x < y)
  BY DEF KeyOrder, DigitOf
<1>4. x < y => a % d <= b % d
  OBVIOUS
<1> HIDE DEF d, a, b
<1>5. a % (d * Radix) = f * d + (a % d) /\ f \in Nat /\ a % d \in 0 .. d - 1
  BY <1>1, <1>2, DigitSplit
<1>6. b % (d * Radix) = g * d + (b % d) /\ g \in Nat /\ b % d \in 0 .. d - 1
  BY <1>1, <1>2, DigitSplit
<1> DEFINE r == a % d
           s == b % d
<1> HIDE DEF f, g, r, s
<1>7. f * d + r <= g * d + s
  <2>1. r \in 0 .. d - 1 /\ s \in 0 .. d - 1 /\ f * d \in Nat /\ g * d \in Nat
    BY <1>2, <1>5, <1>6 DEF r, s
  <2>2. CASE f < g
    <3> DEFINE h == g - f - 1
    <3>1. h \in Nat /\ g = f + 1 + h
      BY <1>5, <1>6, <2>2
    <3> HIDE DEF h
    <3>2. g * d = f * d + d + h * d /\ h * d \in Nat
      BY <1>2, <1>5, <3>1
    <3> QED
      BY <1>2, <2>1, <3>2
  <2>3. CASE f = g /\ x < y
    BY <1>4, <2>1, <2>3 DEF r, s
  <2> QED
    BY <1>3, <2>2, <2>3
<1> QED
  BY <1>2, <1>5, <1>6, <1>7 DEF r, s, a, b, d

\* What a reordering leaves: every key at its new place.
Reordered(K, P) ==
  \A q \in Range0(fun.n) : K[NewPlace(q)] = KeyBuffer[q] /\ P[NewPlace(q)] = KeyPlaces[q]

LEMMA PassSorts ==
  ASSUME FunOK, RadixOK, SortedBy(pass, KeyBuffer, KeyPlaces), NEW K, NEW P, Reordered(K, P)
  PROVE  SortedBy(pass + 1, K, P)
<1>1. /\ \A q \in Range0(fun.n) : NewPlace(q) \in Range0(fun.n)
      /\ \A p, q \in Range0(fun.n) :
           <<p, q>> \in KeyOrder(fun.n, pass, KeyBuffer) => NewPlace(p) < NewPlace(q)
      /\ \A p \in Range0(fun.n) : \E q \in Range0(fun.n) : NewPlace(q) = p
      /\ \A p, q \in Range0(fun.n) :
           p # q => <<p, q>> \in KeyOrder(fun.n, pass, KeyBuffer)
                      \/ <<q, p>> \in KeyOrder(fun.n, pass, KeyBuffer)
  BY NewPlaces
<1>2. KeysOK(fun.n, pass, KeyBuffer)
  BY RadixKeys
<1>3. /\ \A p, q \in Range0(fun.n) : KeyPlaces[p] = KeyPlaces[q] => p = q
      /\ \A p \in Range0(fun.n) : KeyBuffer[p] = given[KeyPlaces[p]]
      /\ \A p, q \in Range0(fun.n) : p < q =>
           KeyBuffer[p] % Pow2[pass * Bits] <= KeyBuffer[q] % Pow2[pass * Bits]
  BY DEF SortedBy
<1>4. \A q \in Range0(fun.n) : K[NewPlace(q)] = KeyBuffer[q] /\ P[NewPlace(q)] = KeyPlaces[q]
  BY DEF Reordered
<1>5. \A p, q \in Range0(fun.n) : P[p] = P[q] => p = q
  <2> SUFFICES ASSUME NEW p \in Range0(fun.n), NEW q \in Range0(fun.n), P[p] = P[q]
               PROVE  p = q
    OBVIOUS
  <2>1. PICK x \in Range0(fun.n) : NewPlace(x) = p
    BY <1>1
  <2>2. PICK y \in Range0(fun.n) : NewPlace(y) = q
    BY <1>1
  <2>3. x = y
    BY <1>3, <1>4, <2>1, <2>2
  <2> QED
    BY <2>1, <2>2, <2>3
<1>6. \A p \in Range0(fun.n) : K[p] = given[P[p]]
  <2> TAKE p \in Range0(fun.n)
  <2>1. PICK x \in Range0(fun.n) : NewPlace(x) = p
    BY <1>1
  <2> QED
    BY <1>3, <1>4, <2>1
<1>7. \A p, q \in Range0(fun.n) : p < q =>
        K[p] % Pow2[(pass + 1) * Bits] <= K[q] % Pow2[(pass + 1) * Bits]
  <2> SUFFICES ASSUME NEW p \in Range0(fun.n), NEW q \in Range0(fun.n), p < q
               PROVE  K[p] % Pow2[(pass + 1) * Bits] <= K[q] % Pow2[(pass + 1) * Bits]
    OBVIOUS
  <2>1. PICK x \in Range0(fun.n) : NewPlace(x) = p
    BY <1>1
  <2>2. PICK y \in Range0(fun.n) : NewPlace(y) = q
    BY <1>1
  <2>3. p \in Int /\ q \in Int
    BY DEF Range0
  <2>4. x # y /\ ~(NewPlace(y) < NewPlace(x))
    BY <2>1, <2>2, <2>3
  <2>5. <<x, y>> \in KeyOrder(fun.n, pass, KeyBuffer)
    BY <1>1, <2>4
  <2>6. KeyBuffer[x] % Pow2[(pass + 1) * Bits] <= KeyBuffer[y] % Pow2[(pass + 1) * Bits]
    BY <1>2, <1>3, <2>5, KeysInOrder
  <2> QED
    BY <1>4, <2>1, <2>2, <2>6
<1> QED
  BY <1>5, <1>6, <1>7 DEF SortedBy

LEMMA ReorderEnds ==
  ASSUME FunOK, RadixOK, at = "reorder", ReorderInv, PassOK, EndKernel
  PROVE  /\ RadixOK' /\ UNCHANGED <<fun, given>>
         /\ \/ at' = "histogram" /\ PassOK' /\ HistogramInv'
            \/ at' = "findNegative" /\ LastSorted' /\ FindInv'
<1>0. GlobalSize = Parts /\ Segments = 1
      /\ NextKernel = IF pass + 1 < Passes THEN "histogram" ELSE "findNegative"
  BY DEF GlobalSize, Segments, NextKernel, Parts
<1>1. /\ done' \in [Range0(fun.n + HistoSize) -> Nat]
      /\ \A i \in Range0(fun.n + HistoSize) : done'[i] = 0
      /\ \A i \in Range0(Parts) : done[i] = 1
      /\ at' = (IF pass + 1 < Passes THEN "histogram" ELSE "findNegative")
      /\ UNCHANGED <<fun, given, input>>
  BY <1>0, KernelDone
<1>2. pass' = pass + 1 /\ gpu' = [gpu EXCEPT !.in = OtherBuffer]
  BY DEF EndKernel
<1>3. OtherBuffer \in 1 .. 2 /\ gpu.in \in 1 .. 2 /\ OtherBuffer = 3 - gpu.in
  BY OtherIsOther DEF OtherBuffer
<1>4. GpuOK /\ pass \in Nat /\ gpu.in = 1 + (pass % 2)
  BY DEF RadixOK
<1>5. GpuOK' /\ gpu'.in = OtherBuffer /\ gpu'.keys = gpu.keys /\ gpu'.places = gpu.places
  BY <1>1, <1>2, <1>3, <1>4 DEF GpuOK, HistoSize, Split, Radix
<1>6. gpu'.in = 1 + (pass' % 2)
  <2>1. (pass + 1) % 2 = 1 - (pass % 2)
    BY <1>4
  <2>2. pass % 2 \in Nat
    BY <1>4
  <2> QED
    BY <1>2, <1>3, <1>4, <1>5, <2>1, <2>2
<1>7. RadixOK'
  BY <1>1, <1>2, <1>4, <1>5, <1>6 DEF RadixOK, HistoSize, Radix
<1>8. SortedBy(pass + 1, gpu.keys[OtherBuffer], gpu.places[OtherBuffer])
  <2> DEFINE K == gpu.keys[OtherBuffer]
             P == gpu.places[OtherBuffer]
  <2>1. \A q \in Range0(fun.n) : done[PartOf(fun.n, q)] = 1
    BY <1>1, RadixKeys, ColType
  <2>2. Reordered(K, P)
    BY <2>1 DEF ReorderInv, Reordered
  <2>3. SortedBy(pass, KeyBuffer, KeyPlaces)
    BY DEF PassOK
  <2> HIDE DEF K, P
  <2>4. SortedBy(pass + 1, K, P)
    BY <2>2, <2>3, PassSorts
  <2> QED
    BY <2>4 DEF K, P
<1>9. SortedBy(pass, KeyBuffer, KeyPlaces)'
  <2>1. KeyBuffer' = gpu.keys[OtherBuffer] /\ KeyPlaces' = gpu.places[OtherBuffer]
    BY <1>5 DEF KeyBuffer, KeyPlaces
  <2> QED
    BY <1>1, <1>2, <1>8, <2>1 DEF SortedBy
<1>10. Passes \in Nat /\ pass < Passes
  BY PassesEven DEF PassOK
<1>11. fun.n \in Nat \ {0} /\ HistoSize \in Nat \ {0} /\ Parts \in Nat \ {0} /\ Parts <= HistoSize
  BY Sizes DEF FunOK, Parts
<1>12. CASE pass + 1 < Passes
  <2>1. at' = "histogram"
    BY <1>1, <1>12
  <2>2. PassOK'
    BY <1>2, <1>9, <1>12 DEF PassOK, Passes
  <2>3. HistogramInv'
    <3> SUFFICES ASSUME NEW p \in Range0(HistoSize)
                 PROVE  done'[p % Parts] = 0
      BY DEF HistogramInv, HistoSize, Radix
    <3>1. p \in Nat
      BY <1>11 DEF Range0
    <3>2. p % Parts \in 0 .. Parts - 1
      BY <1>11, <3>1, DivMod
    <3>3. p % Parts \in Range0(fun.n + HistoSize)
      BY <1>11, <3>2 DEF Range0
    <3> QED
      BY <1>1, <3>3
  <2> QED
    BY <1>1, <1>7, <2>1, <2>2, <2>3
<1>13. CASE ~(pass + 1 < Passes)
  <2>1. at' = "findNegative"
    BY <1>1, <1>13
  <2>2. pass' = Passes
    BY <1>2, <1>4, <1>10, <1>13
  <2>3. LastSorted'
    BY <1>9, <2>2 DEF LastSorted, Passes
  <2>4. FindInv'
    <3>1. \A i \in Range0(fun.n) : done'[i] = 0
      <4>1. Range0(fun.n) \subseteq Range0(fun.n + HistoSize)
        BY <1>11 DEF Range0
      <4> QED
        BY <1>1, <4>1
    <3>2. \A i \in Range0(fun'.n) : done'[i] # 1
      BY <1>1, <3>1
    <3> QED
      BY <3>2 DEF FindInv
  <2> QED
    BY <1>1, <1>7, <2>1, <2>3, <2>4
<1> QED
  BY <1>12, <1>13

-----------------------------------------------------------------------------
(* The first negative key                                                   *)

\* After the last pass the keys ascend, read as bits.
LEMMA SortedKeys ==
  ASSUME FunOK, RadixOK, given \in Data, LastSorted
  PROVE  /\ \A p \in Range0(fun.n) : /\ KeyBuffer[p] \in Range0(Pow2[TotalBits])
                                     /\ KeyBuffer[p] \in Nat /\ Number(KeyBuffer[p]) \in Int
                                     /\ KeyBuffer[p] = given[KeyPlaces[p]]
                                     /\ KeyPlaces[p] \in Range0(fun.n)
         /\ \A p, q \in Range0(fun.n) : p < q => KeyBuffer[p] <= KeyBuffer[q]
         /\ \A p, q \in Range0(fun.n) : KeyPlaces[p] = KeyPlaces[q] => p = q
         /\ \A x \in Range0(fun.n) : \E p \in Range0(fun.n) : KeyPlaces[p] = x
<1> DEFINE K == KeyBuffer
           P == KeyPlaces
           m == Pow2[TotalBits]
<1>1. P \in [Range0(fun.n) -> Range0(fun.n)] /\ fun.n \in Nat
  BY RadixKeys DEF FunOK
<1>2. /\ \A p, q \in Range0(fun.n) : P[p] = P[q] => p = q
      /\ \A p \in Range0(fun.n) : K[p] = given[P[p]]
      /\ \A p, q \in Range0(fun.n) : p < q => K[p] % Pow2[pass * Bits] <= K[q] % Pow2[pass * Bits]
  BY DEF LastSorted, SortedBy
<1>3. Pow2[pass * Bits] = m
  BY PassesEven DEF LastSorted
<1> HIDE DEF K, P, m
<1>4. \A p \in Range0(fun.n) : K[p] \in Range0(m)
  <2> TAKE p \in Range0(fun.n)
  <2>1. P[p] \in Range0(fun.rows * fun.n)
    BY <1>1, RowInData
  <2> QED
    BY <1>2, <2>1 DEF Data, m
<1>5. m \in Nat
  BY Pow2Positive, BitsAssumption DEF m
<1>6. \A p \in Range0(fun.n) : K[p] \in Nat /\ K[p] % m = K[p]
  BY <1>4, <1>5 DEF Range0
<1>7. \A p, q \in Range0(fun.n) : p < q => K[p] <= K[q]
  <2> TAKE p, q \in Range0(fun.n)
  <2>1. K[p] % m = K[p] /\ K[q] % m = K[q]
    BY <1>6
  <2> QED
    BY <1>2, <1>3, <2>1
<1>8. \A x \in Range0(fun.n) : \E p \in Range0(fun.n) : P[p] = x
  BY <1>1, <1>2, InjectiveIsOnto
<1>9. \A p \in Range0(fun.n) : Number(K[p]) \in Int
  BY <1>4, NumberIsInt DEF m
<1> QED
  BY <1>1, <1>2, <1>4, <1>6, <1>7, <1>8, <1>9 DEF K, P, m

\* The sign of a number.
LEMMA Signs ==
  ASSUME NEW key \in Nat
  PROVE  /\ Pow2[TotalBits - 1] \in Nat \ {0}
         /\ Negative(key) <=> key >= Pow2[TotalBits - 1]
         /\ Negative(key) => Number(key) = Pow2[TotalBits - 1] - key /\ Number(key) <= 0
         /\ ~Negative(key) => Number(key) = key /\ Number(key) >= 0
<1>1. TotalBits - 1 \in Nat
  BY BitsAssumption
<1>2. Pow2[TotalBits - 1] \in Nat \ {0}
  BY <1>1, Pow2Positive
<1> QED
  BY <1>2 DEF Negative, Number

LEMMA FirstExists ==
  ASSUME FunOK, RadixOK, given \in Data, LastSorted
  PROVE  \E z \in 0 .. fun.n : FirstAt(z)
<1> DEFINE K == KeyBuffer
           S == {m \in 0 .. fun.n : \A p \in Range0(fun.n) : p >= m => Negative(K[p])}
<1>1. fun.n \in Nat /\ \A p \in Range0(fun.n) : p \in Nat /\ p < fun.n
  BY DEF FunOK, Range0
<1>2. fun.n \in S
  BY <1>1
<1>3. PICK z \in S : \A m \in S : z <= m
  <2>1. S \in SUBSET Nat /\ S # {}
    BY <1>1, <1>2
  <2> HIDE DEF S
  <2> QED
    BY <2>1, Least
<1>4. z \in 0 .. fun.n /\ \A p \in Range0(fun.n) : p >= z => Negative(K[p])
  OBVIOUS
<1>5. ASSUME NEW p \in Range0(fun.n), p < z, Negative(K[p])
      PROVE  FALSE
  <2>1. \A q \in Range0(fun.n) : q >= p => Negative(K[q])
    <3> TAKE q \in Range0(fun.n)
    <3>1. CASE q = p
      BY <1>5, <3>1
    <3>2. CASE p < q
      <4>1. K[p] <= K[q] /\ K[p] \in Nat /\ K[q] \in Nat
        BY <3>2, SortedKeys
      <4>2. K[q] >= Pow2[TotalBits - 1]
        BY <1>5, <4>1, Signs
      <4> QED
        BY <4>1, <4>2, Signs
    <3> QED
      BY <1>1, <3>1, <3>2
  <2>2. p \in 0 .. fun.n
    BY <1>1
  <2>3. p \in S
    BY <2>1, <2>2
  <2> HIDE DEF S
  <2>4. z <= p
    BY <1>3, <2>3
  <2> QED
    BY <1>1, <1>4, <1>5, <2>4
<1>6. \A p \in Range0(fun.n) : p < z <=> ~Negative(K[p])
  <2> TAKE p \in Range0(fun.n)
  <2>1. p < z \/ p >= z
    BY <1>1, <1>4
  <2>2. ~(p < z /\ p >= z)
    BY <1>1, <1>4
  <2> QED
    BY <1>4, <1>5, <2>1, <2>2
<1> QED
  BY <1>4, <1>6 DEF FirstAt

\* Where the first negative is found, only it is written.
LEMMA FirstWritten ==
  ASSUME FunOK, RadixOK, given \in Data, LastSorted, Finds, NEW z, FirstAt(z)
  PROVE  /\ \E i \in Range0(fun.n) : Writes(i)
         /\ \A i \in Range0(fun.n) : Writes(i) => z = IF i = fun.n - 1 THEN fun.n ELSE i
<1> DEFINE K == KeyBuffer
           n == fun.n
           N(p) == Number(K[p])
           negatives == {x \in DOMAIN given : Number(given[x]) < 0}
<1>1. n \in Nat \ {0} /\ fun.rows = 1 /\ FindsFirstNegative
  BY DEF FunOK, Finds
<1>2. DOMAIN given = Range0(n)
  <2>1. fun.rows * fun.n = fun.n
    BY <1>1
  <2> QED
    BY <2>1 DEF Data
<1>3. /\ \A p \in Range0(n) : p \in Nat /\ p < n
      /\ 0 \in Range0(n) /\ n - 1 \in Range0(n)
      /\ \A p \in Nat : p < n => p \in Range0(n)
  BY <1>1 DEF Range0
<1>4. z \in 0 .. n /\ \A p \in Range0(n) : p < z <=> ~Negative(K[p])
  BY DEF FirstAt
<1>5. ASSUME NEW p \in Range0(n)
      PROVE  /\ N(p) \in Int
             /\ p < z => N(p) = K[p] /\ N(p) >= 0
             /\ ~(p < z) => N(p) <= 0
  BY <1>4, SortedKeys, Signs
<1>6. \A p, q \in Range0(n) : p < q => K[p] <= K[q] /\ K[p] \in Nat /\ K[q] \in Nat
  BY SortedKeys
<1>7. \A x \in Range0(n) : \E p \in Range0(n) : K[p] = given[x] /\ KeyPlaces[p] = x
  <2> TAKE x \in Range0(n)
  <2>1. PICK p \in Range0(n) : KeyPlaces[p] = x
    BY SortedKeys
  <2>2. K[p] = given[KeyPlaces[p]]
    BY SortedKeys
  <2> QED
    BY <2>1, <2>2
<1>8. \A p \in Range0(n) : K[p] = given[KeyPlaces[p]] /\ KeyPlaces[p] \in Range0(n)
  BY SortedKeys
<1>9. \A i \in Range0(n) :
        Writes(i) <=> IF i = n - 1 THEN N(i) > 0 ELSE IF i = 0 THEN N(i) < 0
                      ELSE N(i - 1) > 0 /\ N(i) < 0
  BY DEF Writes
<1>10. \/ negatives = DOMAIN given /\ n > 1
       \/ /\ \E x \in DOMAIN given : Number(given[x]) > 0
          /\ ~ \E x \in DOMAIN given : Negative(given[x]) /\ Number(given[x]) = 0
          /\ Cardinality(negatives) # 1
  BY <1>1 DEF FindsFirstNegative
<1> HIDE DEF N, K, n
<1>11. CASE negatives = DOMAIN given /\ n > 1
  <2>1. \A p \in Range0(n) : N(p) < 0
    <3> TAKE p \in Range0(n)
    <3>1. KeyPlaces[p] \in negatives
      BY <1>2, <1>8, <1>11
    <3> QED
      BY <1>8, <3>1 DEF N
  <2>2. z = 0
    <3>1. ~(0 < z)
      BY <1>3, <1>5, <2>1
    <3> QED
      BY <1>1, <1>4, <3>1
  <2>3. 0 # n - 1 /\ Writes(0)
    BY <1>1, <1>3, <1>9, <1>11, <2>1
  <2>4. ASSUME NEW i \in Range0(n), Writes(i)
        PROVE  i = 0 /\ i # n - 1
    <3>1. ~(N(i) > 0) /\ N(i) \in Int
      BY <1>5, <2>1
    <3>2. i # n - 1
      BY <1>9, <2>4, <3>1
    <3>3. CASE i # 0
      <4>1. i - 1 \in Range0(n)
        BY <1>1, <1>3, <3>3
      <4>2. ~(N(i - 1) > 0)
        BY <1>5, <2>1, <4>1
      <4> QED
        BY <1>9, <2>4, <3>2, <3>3, <4>2
    <3> QED
      BY <3>2, <3>3
  <2> QED
    BY <1>3, <2>2, <2>3, <2>4 DEF n
<1>12. CASE /\ \E x \in DOMAIN given : Number(given[x]) > 0
            /\ ~ \E x \in DOMAIN given : Negative(given[x]) /\ Number(given[x]) = 0
            /\ Cardinality(negatives) # 1
  <2>1. PICK p0 \in Range0(n) : N(p0) > 0
    BY <1>2, <1>7, <1>12 DEF N
  <2>2. p0 < z /\ z \in Nat /\ z # 0
    <3>1. p0 < z
      BY <1>5, <2>1
    <3> QED
      BY <1>1, <1>3, <1>4, <3>1
  <2>3. z - 1 \in Range0(n) /\ N(z - 1) > 0
    <3>1. z - 1 \in Range0(n) /\ z - 1 < z
      BY <1>1, <1>3, <1>4, <2>2
    <3>2. p0 = z - 1 \/ p0 < z - 1
      BY <1>3, <2>2
    <3>3. CASE p0 < z - 1
      <4>1. K[p0] <= K[z - 1] /\ K[p0] \in Nat /\ K[z - 1] \in Nat
        BY <1>6, <3>1, <3>3
      <4>2. N(p0) = K[p0] /\ N(z - 1) = K[z - 1]
        BY <1>5, <2>2, <3>1
      <4> QED
        BY <2>1, <3>1, <4>1, <4>2
    <3> QED
      BY <2>1, <3>1, <3>2, <3>3
  <2>4. ASSUME NEW p \in Range0(n), ~(p < z)
        PROVE  N(p) < 0 /\ ~(N(p) > 0)
    <3>1. Negative(K[p]) /\ N(p) <= 0 /\ N(p) \in Int
      BY <1>4, <1>5, <2>4
    <3>2. N(p) # 0
      BY <1>2, <1>8, <1>12, <3>1 DEF N
    <3> QED
      BY <3>1, <3>2
  <2>5. \A p \in Range0(n) : p < z => ~(N(p) < 0)
    BY <1>5
  <2>6. z # n - 1
    <3> SUFFICES ASSUME z = n - 1
                 PROVE  FALSE
      OBVIOUS
    <3>1. negatives = {KeyPlaces[z]}
      <4>1. KeyPlaces[z] \in negatives
        <5>1. z \in Range0(n) /\ ~(z < z)
          BY <1>3, <2>2
        <5>2. N(z) < 0
          BY <2>4, <5>1
        <5> QED
          BY <1>2, <1>8, <5>1, <5>2 DEF N
      <4>2. ASSUME NEW x \in negatives
            PROVE  x = KeyPlaces[z]
        <5>1. x \in Range0(n) /\ Number(given[x]) < 0
          BY <1>2
        <5>2. PICK p \in Range0(n) : K[p] = given[x] /\ KeyPlaces[p] = x
          BY <1>7, <5>1
        <5>3. ~(p < z)
          BY <2>5, <5>1, <5>2 DEF N
        <5>4. p = z
          BY <1>1, <1>3, <2>2, <5>3
        <5> QED
          BY <5>2, <5>4
      <4> QED
        BY <4>1, <4>2
    <3>2. Cardinality(negatives) = 1
      BY <3>1, FS_Singleton
    <3> QED
      BY <1>12, <3>2
  <2>7. \E i \in Range0(n) : Writes(i)
    <3>1. CASE z = n
      <4>1. z - 1 = n - 1 /\ N(n - 1) > 0
        BY <2>3, <3>1
      <4> QED
        BY <1>3, <1>9, <4>1
    <3>2. CASE z # n
      <4>1. z \in Range0(n) /\ ~(z < z)
        BY <1>1, <1>3, <1>4, <2>2, <3>2
      <4>2. N(z) < 0
        BY <2>4, <4>1
      <4>3. Writes(z)
        BY <1>9, <2>2, <2>3, <2>6, <4>1, <4>2
      <4> QED
        BY <4>1, <4>3
    <3> QED
      BY <3>1, <3>2
  <2>8. ASSUME NEW i \in Range0(n), Writes(i)
        PROVE  z = IF i = n - 1 THEN n ELSE i
    <3>1. CASE i = n - 1
      <4>1. N(i) > 0
        BY <1>9, <2>8, <3>1
      <4>2. i < z
        BY <2>4, <4>1
      <4> QED
        BY <1>1, <1>3, <1>4, <3>1, <4>2
    <3>2. CASE i # n - 1 /\ i = 0
      <4>1. N(i) < 0
        BY <1>9, <2>8, <3>2
      <4>2. 0 < z
        BY <2>2
      <4> QED
        BY <2>5, <3>2, <4>1, <4>2
    <3>3. CASE i # n - 1 /\ i # 0
      <4>1. N(i - 1) > 0 /\ N(i) < 0 /\ i - 1 \in Range0(n)
        BY <1>1, <1>3, <1>9, <2>8, <3>3
      <4>2. i - 1 < z /\ ~(i < z)
        BY <2>4, <2>5, <4>1
      <4>3. z = i
        BY <1>3, <2>2, <4>2
      <4> QED
        BY <3>3, <4>3
    <3> QED
      BY <3>1, <3>2, <3>3
  <2> QED
    BY <2>7, <2>8 DEF n
<1> QED
  BY <1>10, <1>11, <1>12

LEMMA FindKeeps ==
  ASSUME FunOK, RadixOK, given \in Data, at = "findNegative", LastSorted, FindInv,
         NEW i \in Range0(GlobalSize), ItemStep(i)
  PROVE  RadixOK' /\ LastSorted' /\ FindInv' /\ UNCHANGED <<fun, given, at>>
<1> DEFINE w == IF i = fun.n - 1 THEN fun.n ELSE i
<1>1. GlobalSize = fun.n /\ Segments = 1
  BY DEF GlobalSize, Segments
<1>2. /\ done[i] \in Nat /\ done[i] < Segments
      /\ done'[i] = done[i] + 1 /\ done' \in [Range0(fun.n + HistoSize) -> Nat]
      /\ \A j \in Range0(GlobalSize) : j # i => done'[j] = done[j]
      /\ UNCHANGED <<fun, given, input, at, pass>>
  BY ItemDone
<1>3. FindFirstNegative(i) /\ i \in Range0(fun.n) /\ fun.n \in Nat \ {0}
  BY <1>1 DEF ItemStep, FunOK
<1>4. GpuOK /\ pass \in Nat /\ gpu.in = 1 + (pass % 2)
  BY DEF RadixOK
<1>5. gpu' = IF Writes(i) THEN [gpu EXCEPT !.first = w] ELSE gpu
  BY <1>3 DEF FindFirstNegative, Writes
<1>6. w \in 0 .. fun.n
  BY <1>3 DEF Range0
<1> HIDE DEF w
<1>7. /\ GpuOK' /\ gpu'.in = gpu.in /\ gpu'.keys = gpu.keys /\ gpu'.places = gpu.places
      /\ gpu'.first = IF Writes(i) THEN w ELSE gpu.first
  <2>1. CASE Writes(i)
    <3>1. gpu' = [gpu EXCEPT !.first = w]
      BY <1>5, <2>1
    <3>2. w \in Unset .. fun.n
      BY <1>3, <1>6 DEF Unset
    <3> QED
      BY <1>2, <1>4, <2>1, <3>1, <3>2 DEF GpuOK, HistoSize, Split, Radix
  <2>2. CASE ~Writes(i)
    <3>1. gpu' = gpu
      BY <1>5, <2>2
    <3> QED
      BY <1>2, <1>4, <2>2, <3>1 DEF GpuOK, HistoSize, Split, Radix
  <2> QED
    BY <2>1, <2>2
<1>8. RadixOK'
  BY <1>2, <1>4, <1>7 DEF RadixOK, HistoSize, Radix
<1>9. KeyBuffer' = KeyBuffer /\ KeyPlaces' = KeyPlaces
  BY <1>7 DEF KeyBuffer, KeyPlaces
<1>10. LastSorted'
  BY <1>2, <1>9 DEF LastSorted, SortedBy, Passes
<1>11. (Finds' <=> Finds) /\ \A z : FirstAt(z)' <=> FirstAt(z)
  BY <1>2, <1>9 DEF Finds, FindsFirstNegative, FirstAt, Number, Negative
<1>12. \A j : Writes(j)' <=> Writes(j)
  BY <1>2, <1>9 DEF Writes, Number, Negative
<1>13. ASSUME Finds, NEW z, FirstAt(z), NEW j \in Range0(fun.n), done'[j] = 1, Writes(j)
       PROVE  gpu'.first = z
  <2>1. CASE Writes(i)
    <3>1. z = w
      BY <1>3, <1>13, <2>1, FirstWritten DEF w
    <3> QED
      BY <1>7, <2>1, <3>1
  <2>2. CASE ~Writes(i)
    <3>1. j # i
      BY <1>13, <2>2
    <3>2. done[j] = 1
      BY <1>1, <1>2, <1>13, <3>1
    <3>3. gpu.first = z
      BY <1>13, <3>2 DEF FindInv
    <3> QED
      BY <1>7, <2>2, <3>3
  <2> QED
    BY <2>1, <2>2
<1>14. FindInv'
  <2>1. ASSUME Finds', NEW z, FirstAt(z)', NEW j \in Range0(fun'.n), done'[j] = 1, Writes(j)'
        PROVE  gpu'.first = z
    <3>1. Finds /\ FirstAt(z) /\ Writes(j) /\ j \in Range0(fun.n)
      BY <1>2, <1>11, <1>12, <2>1
    <3> QED
      BY <1>13, <2>1, <3>1
  <2> QED
    BY <2>1 DEF FindInv
<1> QED
  BY <1>2, <1>8, <1>10, <1>14

-----------------------------------------------------------------------------
(* The negative keys go before the others, the other way round              *)

From(i) ==
  IF i < fun.n - gpu.first THEN fun.n - 1 - i ELSE i - (fun.n - gpu.first)
NegInv ==
  /\ gpu.first \in 0 .. fun.n
  /\ Finds => FirstAt(gpu.first)
  /\ \A i \in Range0(fun.n) : done[i] = 1 =>
       /\ gpu.keys[OtherBuffer][i] = KeyBuffer[From(i)]
       /\ gpu.places[OtherBuffer][i] = KeyPlaces[From(i)]

LEMMA FindEnds ==
  ASSUME FunOK, RadixOK, given \in Data, at = "findNegative", LastSorted, FindInv, EndKernel
  PROVE  RadixOK' /\ LastSorted' /\ NegInv' /\ at' = "reorderNegatives"
           /\ UNCHANGED <<fun, given>>
<1>0. GlobalSize = fun.n /\ Segments = 1 /\ NextKernel = "reorderNegatives"
  BY DEF GlobalSize, Segments, NextKernel
<1>1. /\ done' \in [Range0(fun.n + HistoSize) -> Nat]
      /\ \A i \in Range0(fun.n + HistoSize) : done'[i] = 0
      /\ \A i \in Range0(fun.n) : done[i] = 1
      /\ at' = "reorderNegatives" /\ UNCHANGED <<fun, given, input, pass>>
  BY <1>0, KernelDone
<1>2. \/ gpu.first = Unset /\ \E p \in 0 .. fun.n : gpu' = [gpu EXCEPT !.first = p]
      \/ gpu.first # Unset /\ gpu' = gpu
  BY DEF EndKernel
<1>3. GpuOK /\ pass \in Nat /\ gpu.in = 1 + (pass % 2) /\ fun.n \in Nat \ {0}
  BY DEF RadixOK, FunOK
<1>4. /\ GpuOK' /\ gpu'.in = gpu.in /\ gpu'.keys = gpu.keys /\ gpu'.places = gpu.places
      /\ gpu'.first \in 0 .. fun.n /\ (gpu.first # Unset => gpu'.first = gpu.first)
  <2>1. CASE gpu.first = Unset /\ \E p \in 0 .. fun.n : gpu' = [gpu EXCEPT !.first = p]
    <3>1. PICK p \in 0 .. fun.n : gpu' = [gpu EXCEPT !.first = p]
      BY <2>1
    <3>2. p \in Unset .. fun.n
      BY <1>3 DEF Unset
    <3> QED
      BY <1>1, <1>3, <2>1, <3>1, <3>2 DEF GpuOK, HistoSize, Split, Radix
  <2>2. CASE gpu.first # Unset /\ gpu' = gpu
    <3>1. gpu.first \in 0 .. fun.n
      BY <1>3, <2>2 DEF GpuOK, Unset
    <3> QED
      BY <1>1, <1>3, <2>2, <3>1 DEF GpuOK, HistoSize, Split, Radix
  <2> QED
    BY <1>2, <2>1, <2>2
<1>5. RadixOK'
  BY <1>1, <1>3, <1>4 DEF RadixOK, HistoSize, Radix
<1>6. KeyBuffer' = KeyBuffer /\ KeyPlaces' = KeyPlaces
  BY <1>4 DEF KeyBuffer, KeyPlaces
<1>7. LastSorted'
  BY <1>1, <1>6 DEF LastSorted, SortedBy, Passes
<1>8. (Finds' <=> Finds) /\ \A z : FirstAt(z)' <=> FirstAt(z)
  BY <1>1, <1>6 DEF Finds, FindsFirstNegative, FirstAt, Number, Negative
<1>9. Finds => FirstAt(gpu'.first)
  <2> SUFFICES ASSUME Finds
               PROVE  FirstAt(gpu'.first)
    OBVIOUS
  <2>1. PICK z \in 0 .. fun.n : FirstAt(z)
    BY FirstExists
  <2>2. \E i \in Range0(fun.n) : Writes(i)
    BY <2>1, FirstWritten
  <2>3. gpu.first = z
    BY <1>1, <2>1, <2>2 DEF FindInv
  <2>4. gpu.first # Unset
    BY <2>1, <2>3 DEF Unset
  <2> QED
    BY <1>4, <2>1, <2>3, <2>4
<1>10. (Finds => FirstAt(gpu.first))'
  BY <1>8, <1>9
<1>11. \A i \in Range0(fun'.n) : done'[i] # 1
  <2>1. HistoSize \in Nat
    BY Sizes
  <2>2. Range0(fun.n) \subseteq Range0(fun.n + HistoSize)
    BY <1>3, <2>1 DEF Range0
  <2> QED
    BY <1>1, <2>2
<1>12. NegInv'
  BY <1>1, <1>4, <1>10, <1>11 DEF NegInv
<1> QED
  BY <1>1, <1>5, <1>7, <1>12

LEMMA FromType ==
  ASSUME NEW n \in Nat, NEW z \in 0 .. n, NEW i \in Range0(n)
  PROVE  /\ (IF i < n - z THEN n - 1 - i ELSE i - (n - z)) \in Range0(n)
         /\ i \in Nat
BY DEF Range0

LEMMA NegativesKeep ==
  ASSUME FunOK, RadixOK, given \in Data, at = "reorderNegatives", LastSorted, NegInv,
         NEW i \in Range0(GlobalSize), ItemStep(i)
  PROVE  RadixOK' /\ LastSorted' /\ NegInv' /\ UNCHANGED <<fun, given, at>>
<1> DEFINE b == OtherBuffer
           from == From(i)
           K == [gpu.keys[b] EXCEPT ![i] = KeyBuffer[from]]
           P == [gpu.places[b] EXCEPT ![i] = KeyPlaces[from]]
<1>1. GlobalSize = fun.n /\ Segments = 1
  BY DEF GlobalSize, Segments
<1>2. /\ done[i] \in Nat /\ done[i] < Segments
      /\ done'[i] = done[i] + 1 /\ done' \in [Range0(fun.n + HistoSize) -> Nat]
      /\ \A j \in Range0(GlobalSize) : j # i => done'[j] = done[j]
      /\ UNCHANGED <<fun, given, input, at, pass>>
  BY ItemDone
<1>3. ReorderNegatives(i) /\ i \in Range0(fun.n) /\ fun.n \in Nat \ {0}
  BY <1>1 DEF ItemStep, FunOK
<1>4. GpuOK /\ pass \in Nat /\ gpu.in = 1 + (pass % 2) /\ gpu.first \in 0 .. fun.n
  BY DEF RadixOK, NegInv
<1>5. b \in 1 .. 2 /\ gpu.in \in 1 .. 2 /\ gpu.in # b
  BY OtherIsOther
<1>6. from \in Range0(fun.n)
  BY <1>3, <1>4, FromType DEF From
<1>7. /\ gpu.keys[b] \in [Range0(fun.n) -> Nat] /\ KeyBuffer \in [Range0(fun.n) -> Nat]
      /\ gpu.places[b] \in [Range0(fun.n) -> Range0(fun.n)]
      /\ KeyPlaces \in [Range0(fun.n) -> Range0(fun.n)]
  BY <1>4, <1>5 DEF GpuOK, KeyBuffer, KeyPlaces
<1>8. gpu' = [gpu EXCEPT !.keys[b][i] = KeyBuffer[from], !.places[b][i] = KeyPlaces[from]]
  BY <1>3 DEF ReorderNegatives, From, KeyPlaces
<1> HIDE DEF b, from
<1>9. Rewrites(b, K, P)
  BY <1>4, <1>8 DEF Rewrites, GpuOK
<1>10. /\ K \in [Range0(fun.n) -> Nat] /\ P \in [Range0(fun.n) -> Range0(fun.n)]
       /\ K[i] = KeyBuffer[from] /\ P[i] = KeyPlaces[from]
       /\ \A j \in Range0(fun.n) : j # i => K[j] = gpu.keys[b][j] /\ P[j] = gpu.places[b][j]
  BY <1>3, <1>6, <1>7
<1> HIDE DEF K, P
<1>11. /\ GpuOK' /\ gpu'.keys[b] = K /\ gpu'.places[b] = P
       /\ \A c \in 1 .. 2 : c # b =>
            gpu'.keys[c] = gpu.keys[c] /\ gpu'.places[c] = gpu.places[c]
       /\ gpu'.in = gpu.in /\ gpu'.first = gpu.first
  BY <1>2, <1>4, <1>5, <1>9, <1>10, WritesKeys
<1>12. RadixOK'
  BY <1>2, <1>4, <1>11 DEF RadixOK, HistoSize, Radix
<1>13. KeyBuffer' = KeyBuffer /\ KeyPlaces' = KeyPlaces
  BY <1>5, <1>11 DEF KeyBuffer, KeyPlaces
<1>14. LastSorted'
  BY <1>2, <1>13 DEF LastSorted, SortedBy, Passes
<1>15. (Finds' <=> Finds) /\ \A z : FirstAt(z)' <=> FirstAt(z)
  BY <1>2, <1>13 DEF Finds, FindsFirstNegative, FirstAt, Number, Negative
<1>16. OtherBuffer' = b /\ \A j : From(j)' = From(j)
  BY <1>2, <1>11 DEF OtherBuffer, From, b
<1>17. ASSUME NEW j \in Range0(fun.n), done'[j] = 1
       PROVE  K[j] = KeyBuffer[From(j)] /\ P[j] = KeyPlaces[From(j)]
  <2>1. CASE j = i
    BY <1>10, <2>1 DEF from
  <2>2. CASE j # i
    <3>1. done[j] = 1
      BY <1>1, <1>2, <1>17, <2>2
    <3> QED
      BY <1>10, <2>2, <3>1 DEF NegInv, b
  <2> QED
    BY <2>1, <2>2
<1>18. NegInv'
  <2>1. (gpu.first \in 0 .. fun.n)' /\ (Finds => FirstAt(gpu.first))'
    BY <1>2, <1>4, <1>11, <1>15 DEF NegInv
  <2>2. \A j \in Range0(fun'.n) : done'[j] = 1 =>
          /\ gpu'.keys[OtherBuffer'][j] = KeyBuffer'[From(j)']
          /\ gpu'.places[OtherBuffer'][j] = KeyPlaces'[From(j)']
    BY <1>2, <1>11, <1>13, <1>16, <1>17
  <2> QED
    BY <2>1, <2>2 DEF NegInv
<1> QED
  BY <1>2, <1>12, <1>14, <1>18

-----------------------------------------------------------------------------
(* The outputs                                                              *)

\* The keys are those given, the least number first.
Ascends(K, P) ==
  /\ \A p, q \in Range0(fun.n) : P[p] = P[q] => p = q
  /\ \A p \in Range0(fun.n) : K[p] = given[P[p]]
  /\ \A p, q \in Range0(fun.n) : p < q => Number(K[p]) <= Number(K[q])
OtherKeys == gpu.keys[OtherBuffer]
OtherPlaces == gpu.places[OtherBuffer]
StoreInv ==
  /\ pass = Passes
  /\ Finds => Ascends(OtherKeys, OtherPlaces)
  /\ \A i \in Range0(fun.k) : done[i] = 1 =>
       values[i] = OtherKeys[fun.n - 1 - i] /\ indices[i] = OtherPlaces[fun.n - 1 - i]

LEMMA FromOrder ==
  ASSUME FunOK, gpu.first \in 0 .. fun.n,
         NEW p \in Range0(fun.n), NEW q \in Range0(fun.n), p < q
  PROVE  /\ From(p) # From(q)
         /\ \/ From(q) >= gpu.first /\ From(q) < From(p)
            \/ From(q) < gpu.first /\ (From(p) < From(q) \/ From(p) >= gpu.first)
<1>1. fun.n \in Nat /\ p \in Nat /\ q \in Nat /\ p < fun.n /\ q < fun.n
  BY DEF FunOK, Range0
<1> DEFINE n == fun.n
           z == gpu.first
           m == n - z
<1>2. z \in 0 .. n /\ m \in 0 .. n /\ z = n - m /\ n \in Nat
  BY <1>1
<1>3. From(p) = (IF p < m THEN n - 1 - p ELSE p - m)
      /\ From(q) = (IF q < m THEN n - 1 - q ELSE q - m)
  BY DEF From
<1> HIDE DEF n, z, m
<1>4. p < n /\ q < n
  BY <1>1 DEF n
<1>5. CASE q < m
  <2>1. From(p) = n - 1 - p /\ From(q) = n - 1 - q
    BY <1>1, <1>2, <1>3, <1>5
  <2> QED
    BY <1>1, <1>2, <1>4, <1>5, <2>1 DEF z
<1>6. CASE ~(q < m) /\ p < m
  <2>1. From(p) = n - 1 - p /\ From(q) = q - m
    BY <1>3, <1>6
  <2> QED
    BY <1>1, <1>2, <1>4, <1>6, <2>1 DEF z
<1>7. CASE ~(q < m) /\ ~(p < m)
  <2>1. From(p) = p - m /\ From(q) = q - m
    BY <1>3, <1>7
  <2> QED
    BY <1>1, <1>2, <1>4, <1>7, <2>1 DEF z
<1> QED
  BY <1>5, <1>6, <1>7

LEMMA NegativesAscend ==
  ASSUME FunOK, RadixOK, given \in Data, LastSorted, NegInv, Finds,
         \A i \in Range0(fun.n) : done[i] = 1
  PROVE  Ascends(OtherKeys, OtherPlaces)
<1> DEFINE K == OtherKeys
           P == OtherPlaces
           z == gpu.first
<1>1. z \in 0 .. fun.n /\ FirstAt(z)
  BY DEF NegInv
<1>2. \A i \in Range0(fun.n) :
        K[i] = KeyBuffer[From(i)] /\ P[i] = KeyPlaces[From(i)] /\ From(i) \in Range0(fun.n)
  <2> TAKE i \in Range0(fun.n)
  <2>1. From(i) \in Range0(fun.n)
    BY <1>1, FromType DEF From, FunOK
  <2> QED
    BY <2>1 DEF NegInv, OtherKeys, OtherPlaces
<1>3. \A p, q \in Range0(fun.n) : p < q =>
        /\ From(p) # From(q)
        /\ \/ From(q) >= z /\ From(q) < From(p)
           \/ From(q) < z /\ (From(p) < From(q) \/ From(p) >= z)
  BY <1>1, FromOrder
<1>4. \A p \in Range0(fun.n) : p \in Nat
  BY DEF Range0
<1>5. \A p \in Range0(fun.n) : p < z <=> ~Negative(KeyBuffer[p])
  BY <1>1 DEF FirstAt
<1> HIDE DEF K, P, z
<1>6. \A p, q \in Range0(fun.n) : P[p] = P[q] => p = q
  <2> SUFFICES ASSUME NEW p \in Range0(fun.n), NEW q \in Range0(fun.n), P[p] = P[q]
               PROVE  p = q
    OBVIOUS
  <2>1. From(p) = From(q)
    <3>1. KeyPlaces[From(p)] = KeyPlaces[From(q)] /\ From(p) \in Range0(fun.n)
          /\ From(q) \in Range0(fun.n)
      BY <1>2
    <3> QED
      BY <3>1, SortedKeys
  <2>2. ~(p < q) /\ ~(q < p)
    BY <1>3, <2>1
  <2> QED
    BY <1>4, <2>2
<1>7. \A p \in Range0(fun.n) : K[p] = given[P[p]]
  <2> TAKE p \in Range0(fun.n)
  <2>1. K[p] = KeyBuffer[From(p)] /\ P[p] = KeyPlaces[From(p)] /\ From(p) \in Range0(fun.n)
    BY <1>2
  <2>2. KeyBuffer[From(p)] = given[KeyPlaces[From(p)]]
    BY <2>1, SortedKeys
  <2> QED
    BY <2>1, <2>2
<1>8. \A p, q \in Range0(fun.n) : p < q => Number(K[p]) <= Number(K[q])
  <2> SUFFICES ASSUME NEW p \in Range0(fun.n), NEW q \in Range0(fun.n), p < q
               PROVE  Number(K[p]) <= Number(K[q])
    OBVIOUS
  <2> DEFINE a == KeyBuffer[From(p)]
             b == KeyBuffer[From(q)]
  <2>1. K[p] = a /\ K[q] = b /\ From(p) \in Range0(fun.n) /\ From(q) \in Range0(fun.n)
    BY <1>2
  <2>2. a \in Nat /\ b \in Nat /\ z \in Nat /\ From(p) \in Nat /\ From(q) \in Nat
    BY <1>1, <1>4, <2>1, SortedKeys
  <2>3. CASE From(q) >= z /\ From(q) < From(p)
    <3>1. b <= a
      BY <2>1, <2>3, SortedKeys
    <3>2. ~(From(q) < z) /\ ~(From(p) < z)
      BY <2>2, <2>3
    <3>3. Negative(a) /\ Negative(b)
      BY <1>5, <2>1, <3>2
    <3> HIDE DEF a, b
    <3>4. Number(a) = Pow2[TotalBits - 1] - a /\ Number(b) = Pow2[TotalBits - 1] - b
          /\ Pow2[TotalBits - 1] \in Nat
      BY <2>2, <3>3, Signs
    <3> QED
      BY <2>1, <2>2, <3>1, <3>4
  <2>4. CASE From(q) < z /\ From(p) < From(q)
    <3>1. a <= b
      BY <2>1, <2>4, SortedKeys
    <3>2. From(q) < z /\ From(p) < z
      BY <2>2, <2>4
    <3>3. ~Negative(a) /\ ~Negative(b)
      BY <1>5, <2>1, <3>2
    <3> HIDE DEF a, b
    <3>4. Number(a) = a /\ Number(b) = b
      BY <2>2, <3>3, Signs
    <3> QED
      BY <2>1, <2>2, <3>1, <3>4
  <2>5. CASE From(q) < z /\ From(p) >= z
    <3>1. ~(From(p) < z)
      BY <2>2, <2>5
    <3>2. Negative(a) /\ ~Negative(b)
      BY <1>5, <2>1, <2>5, <3>1
    <3> HIDE DEF a, b
    <3>3. Number(a) <= 0 /\ Number(b) >= 0
      BY <2>2, <3>2, Signs
    <3>4. Number(a) \in Int /\ Number(b) \in Int
      BY <2>2, <3>2, Signs
    <3> QED
      BY <2>1, <3>3, <3>4
  <2> QED
    BY <1>3, <2>3, <2>4, <2>5
<1> QED
  BY <1>6, <1>7, <1>8 DEF Ascends, K, P

LEMMA NegativesEnd ==
  ASSUME FunOK, RadixOK, given \in Data, at = "reorderNegatives", LastSorted, NegInv, EndKernel
  PROVE  RadixOK' /\ StoreInv' /\ at' = "store" /\ UNCHANGED <<fun, given>>
<1>0. GlobalSize = fun.n /\ Segments = 1 /\ NextKernel = "store"
  BY DEF GlobalSize, Segments, NextKernel
<1>1. /\ done' \in [Range0(fun.n + HistoSize) -> Nat]
      /\ \A i \in Range0(fun.n + HistoSize) : done'[i] = 0
      /\ \A i \in Range0(fun.n) : done[i] = 1
      /\ at' = "store" /\ UNCHANGED <<fun, given, input, pass, gpu>>
  BY <1>0, KernelDone
<1>2. RadixOK'
  BY <1>1 DEF RadixOK, GpuOK, HistoSize, Split, Radix
<1>3. OtherKeys' = OtherKeys /\ OtherPlaces' = OtherPlaces
  BY <1>1 DEF OtherKeys, OtherPlaces, OtherBuffer
<1>4. Finds => Ascends(OtherKeys, OtherPlaces)
  BY <1>1, NegativesAscend
<1>5. (Finds => Ascends(OtherKeys, OtherPlaces))'
  BY <1>1, <1>3, <1>4 DEF Finds, FindsFirstNegative, Ascends, Number, Negative
<1>6. \A i \in Range0(fun'.k) : done'[i] # 1
  <2>1. HistoSize \in Nat /\ fun.n \in Nat /\ fun.k \in Nat /\ fun.k <= fun.n
    BY Sizes DEF FunOK
  <2>2. Range0(fun.k) \subseteq Range0(fun.n + HistoSize)
    BY <2>1 DEF Range0
  <2> QED
    BY <1>1, <2>2
<1>7. StoreInv'
  BY <1>1, <1>5, <1>6 DEF StoreInv, LastSorted, Passes
<1> QED
  BY <1>1, <1>2, <1>7

LEMMA StoreKeeps ==
  ASSUME FunOK, OutputsOK, RadixOK, at = "store", StoreInv, NEW i \in Range0(GlobalSize),
         ItemStep(i)
  PROVE  RadixOK' /\ StoreInv' /\ OutputsOK' /\ UNCHANGED <<fun, given, at>>
<1> DEFINE from == fun.n - 1 - i
           v == OtherKeys[from]
           x == OtherPlaces[from]
<1>1. GlobalSize = fun.k /\ Segments = 1
  BY DEF GlobalSize, Segments
<1>2. /\ done[i] \in Nat /\ done[i] < Segments
      /\ done'[i] = done[i] + 1 /\ done' \in [Range0(fun.n + HistoSize) -> Nat]
      /\ \A j \in Range0(GlobalSize) : j # i => done'[j] = done[j]
      /\ UNCHANGED <<fun, given, input, at, pass>>
  BY ItemDone
<1>3. Store(i) /\ gpu' = gpu /\ i \in Range0(fun.k)
  BY <1>1 DEF ItemStep
<1>4. values' = [values EXCEPT ![i] = v] /\ indices' = [indices EXCEPT ![i] = x]
  BY <1>3 DEF Store, OtherKeys, OtherPlaces
<1>5. RadixOK'
  BY <1>2, <1>3 DEF RadixOK, GpuOK, HistoSize, Split, Radix
<1>6. OtherKeys' = OtherKeys /\ OtherPlaces' = OtherPlaces
  BY <1>3 DEF OtherKeys, OtherPlaces, OtherBuffer
<1>7. \A j \in Range0(fun.k) : j \in Range0(fun.k * fun.rows)
  <2>1. fun.k \in Nat \ {0} /\ fun.rows \in Nat \ {0}
    BY DEF FunOK
  <2>2. \A j \in Range0(fun.k) : 0 * fun.k + j = j /\ 0 \in Range0(fun.rows)
    BY <2>1 DEF Range0
  <2> QED
    BY <2>1, <2>2, CellOfRow
<1> HIDE DEF v, x
<1>8. /\ values' = [j \in Range0(fun.k * fun.rows) |-> values'[j]]
      /\ indices' = [j \in Range0(fun.k * fun.rows) |-> indices'[j]]
      /\ values'[i] = v /\ indices'[i] = x
      /\ \A j \in Range0(fun.k) : j # i => values'[j] = values[j] /\ indices'[j] = indices[j]
  BY <1>3, <1>4, <1>7 DEF OutputsOK
<1>9. OutputsOK'
  BY <1>2, <1>8 DEF OutputsOK
<1>10. ASSUME NEW j \in Range0(fun.k), done'[j] = 1
       PROVE  values'[j] = OtherKeys[fun.n - 1 - j] /\ indices'[j] = OtherPlaces[fun.n - 1 - j]
  <2>1. CASE j = i
    BY <1>8, <2>1 DEF v, x
  <2>2. CASE j # i
    <3>1. done[j] = 1
      BY <1>1, <1>2, <1>10, <2>2
    <3> QED
      BY <1>8, <2>2, <3>1 DEF StoreInv
  <2> QED
    BY <2>1, <2>2
<1>11. StoreInv'
  <2>1. (Finds => Ascends(OtherKeys, OtherPlaces))'
    BY <1>2, <1>6 DEF StoreInv, Finds, FindsFirstNegative, Ascends, Number, Negative
  <2>2. \A j \in Range0(fun'.k) : done'[j] = 1 =>
          values'[j] = OtherKeys'[fun'.n - 1 - j] /\ indices'[j] = OtherPlaces'[fun'.n - 1 - j]
    BY <1>2, <1>6, <1>10
  <2>3. (pass = Passes)'
    BY <1>2 DEF StoreInv, Passes
  <2> QED
    BY <2>1, <2>2, <2>3 DEF StoreInv
<1> QED
  BY <1>2, <1>5, <1>9, <1>11

LEMMA StoreEnds ==
  ASSUME FunOK, OutputsOK, RadixOK, given \in Data, at = "store", StoreInv, EndKernel
  PROVE  /\ RadixOK' /\ OutputsOK' /\ at' = "idle" /\ UNCHANGED <<fun, given>>
         /\ pass' = Passes /\ \A i \in Range0(fun.n) : done'[i] = 0
         /\ Finds => IsTopK(0)'
<1>0. GlobalSize = fun.k /\ Segments = 1 /\ NextKernel = "idle"
  BY DEF GlobalSize, Segments, NextKernel
<1>1. /\ done' \in [Range0(fun.n + HistoSize) -> Nat]
      /\ \A i \in Range0(fun.n + HistoSize) : done'[i] = 0
      /\ \A i \in Range0(fun.k) : done[i] = 1
      /\ at' = "idle" /\ UNCHANGED <<fun, given, input, pass, gpu, values, indices>>
  <2>1. UNCHANGED <<values, indices>>
    BY DEF EndKernel
  <2> QED
    BY <1>0, <2>1, KernelDone
<1>2. RadixOK' /\ OutputsOK'
  BY <1>1 DEF RadixOK, GpuOK, OutputsOK, HistoSize, Split, Radix
<1>3. pass' = Passes
  BY <1>1 DEF StoreInv
<1>4. fun.n \in Nat /\ fun.k \in Nat /\ fun.k <= fun.n /\ HistoSize \in Nat
  BY Sizes DEF FunOK
<1>5. \A i \in Range0(fun.n) : done'[i] = 0
  <2>1. Range0(fun.n) \subseteq Range0(fun.n + HistoSize)
    BY <1>4 DEF Range0
  <2> QED
    BY <1>1, <2>1
<1>6. ASSUME Finds
      PROVE  IsTopK(0)'
  <2> DEFINE P == [p \in Range0(fun.n) |-> OtherPlaces[fun.n - 1 - p]]
             f == [p \in Range0(fun.n) |-> OtherKeys[fun.n - 1 - p]]
  <2>1. /\ \A p \in Range0(fun.n) : fun.n - 1 - p \in Range0(fun.n) /\ p \in Nat
        /\ \A p \in Range0(fun.k) : p \in Range0(fun.n)
    BY <1>4 DEF Range0
  <2>2. Ascends(OtherKeys, OtherPlaces)
    BY <1>6 DEF StoreInv
  <2>3. OtherPlaces \in [Range0(fun.n) -> Range0(fun.n)]
    BY OtherIsOther DEF OtherPlaces, RadixOK, GpuOK
  <2>4. /\ \A p \in Range0(fun.n) :
             P[p] = OtherPlaces[fun.n - 1 - p] /\ f[p] = OtherKeys[fun.n - 1 - p]
        /\ P \in [Range0(fun.n) -> Range0(fun.n)]
    BY <2>1, <2>3
  <2> HIDE DEF P, f
  <2>5. \A p, q \in Range0(fun.n) : P[p] = P[q] => p = q
    <3> TAKE p, q \in Range0(fun.n)
    <3>1. P[p] = P[q] => fun.n - 1 - p = fun.n - 1 - q
      BY <2>1, <2>2, <2>4 DEF Ascends
    <3> QED
      BY <1>4, <2>1, <3>1
  <2>6. \A p \in Range0(fun.n) : f[p] = given[P[p]]
    BY <2>1, <2>2, <2>4 DEF Ascends
  <2>7. \A p, q \in Range0(fun.n) : p < q => Number(f[p]) >= Number(f[q])
    <3> SUFFICES ASSUME NEW p \in Range0(fun.n), NEW q \in Range0(fun.n), p < q
                 PROVE  Number(f[p]) >= Number(f[q])
      OBVIOUS
    <3>1. fun.n - 1 - q < fun.n - 1 - p
      BY <1>4, <2>1
    <3>2. Number(f[q]) <= Number(f[p])
      <4>1. Number(OtherKeys[fun.n - 1 - q]) <= Number(OtherKeys[fun.n - 1 - p])
        BY <2>1, <2>2, <3>1 DEF Ascends
      <4> QED
        BY <2>4, <4>1
    <3>3. \A x \in Range0(fun.n) : Number(f[x]) \in Int
      <4> TAKE x \in Range0(fun.n)
      <4>1. P[x] \in Range0(fun.rows * fun.n)
        BY <2>4, RowInData
      <4>2. f[x] \in Range0(Pow2[TotalBits])
        BY <2>6, <4>1 DEF Data
      <4> QED
        BY <4>2, NumberIsInt
    <3> QED
      BY <3>2, <3>3
  <2>8. \A i \in Range0(fun.k) : values'[i] = f[i] /\ indices'[i] = P[i]
    BY <1>1, <2>1, <2>4 DEF StoreInv
  <2>9. UNCHANGED <<fun, given>>
    BY <1>1
  <2> QED
    BY <2>4, <2>5, <2>6, <2>7, <2>8, <2>9, SortedIsTopK
<1> QED
  BY <1>1, <1>2, <1>3, <1>5, <1>6

-----------------------------------------------------------------------------
(* The function in its three modes                                          *)

RadixInv ==
  /\ RadixOK
  /\ \/ at = "idle" /\ pass % 2 = 0 /\ \A i \in Range0(fun.n) : done[i] = 0
     \/ at = "init" /\ InitInv
     \/ at = "histogram" /\ PassOK /\ HistogramInv
     \/ at = "scan" /\ PassOK /\ ScanInv
     \/ at = "globalScan" /\ PassOK /\ GlobalScanInv
     \/ at = "paste" /\ PassOK /\ PasteInv
     \/ at = "reorder" /\ PassOK /\ ReorderInv
     \/ at = "findNegative" /\ LastSorted /\ FindInv
     \/ at = "reorderNegatives" /\ LastSorted /\ NegInv
     \/ at = "store" /\ StoreInv

Inv ==
  /\ CommonInv
  /\ fun.mode = "cpu" => CpuInv
  /\ fun.mode = "GPU_SINGLE" => SingleInv
  /\ fun.mode = "GPU" => RadixInv

LEMMA RadixItem ==
  ASSUME FunOK, OutputsOK, given \in Data, RadixInv, NEW i \in Range0(GlobalSize), ItemStep(i)
  PROVE  RadixInv' /\ OutputsOK' /\ at' # "idle" /\ UNCHANGED <<fun, given>>
<1>1. RadixOK /\ UNCHANGED <<fun, given, at>>
  BY DEF RadixInv, ItemStep
<1>2. at # "store" => OutputsOK'
  BY <1>1 DEF ItemStep, OutputsOK
<1>3. at # "idle"
  <2> SUFFICES ASSUME at = "idle"
               PROVE  FALSE
    OBVIOUS
  <2>1. GlobalSize = 0
    BY DEF GlobalSize
  <2>2. i \in 0 .. 0 - 1
    BY <2>1 DEF Range0
  <2> QED
    BY <2>2
<1>4. CASE at = "init" /\ InitInv
  <2>1. RadixOK' /\ InitInv'
    BY <1>1, <1>4, InitKeeps
  <2> QED
    BY <1>1, <1>2, <1>4, <2>1 DEF RadixInv
<1>5. CASE at = "histogram" /\ PassOK /\ HistogramInv
  <2>1. RadixOK' /\ PassStays /\ HistogramInv'
    BY <1>1, <1>5, HistogramKeeps
  <2>2. PassOK'
    BY <1>5, <2>1, PassStaysOK
  <2> QED
    BY <1>1, <1>2, <1>5, <2>1, <2>2 DEF RadixInv
<1>6. CASE at = "scan" /\ PassOK /\ ScanInv
  <2>1. RadixOK' /\ PassStays /\ ScanInv'
    BY <1>1, <1>6, ScanKeeps
  <2>2. PassOK'
    BY <1>6, <2>1, PassStaysOK
  <2> QED
    BY <1>1, <1>2, <1>6, <2>1, <2>2 DEF RadixInv
<1>7. CASE at = "globalScan" /\ PassOK /\ GlobalScanInv
  <2>1. RadixOK' /\ PassStays /\ GlobalScanInv'
    BY <1>1, <1>7, GlobalScanKeeps
  <2>2. PassOK'
    BY <1>7, <2>1, PassStaysOK
  <2> QED
    BY <1>1, <1>2, <1>7, <2>1, <2>2 DEF RadixInv
<1>8. CASE at = "paste" /\ PassOK /\ PasteInv
  <2>1. RadixOK' /\ PassStays /\ PasteInv'
    BY <1>1, <1>8, PasteKeeps
  <2>2. PassOK'
    BY <1>8, <2>1, PassStaysOK
  <2> QED
    BY <1>1, <1>2, <1>8, <2>1, <2>2 DEF RadixInv
<1>9. CASE at = "reorder" /\ PassOK /\ ReorderInv
  <2>1. RadixOK' /\ PassStays /\ ReorderInv'
    BY <1>1, <1>9, ReorderKeeps
  <2>2. PassOK'
    BY <1>9, <2>1, PassStaysOK
  <2> QED
    BY <1>1, <1>2, <1>9, <2>1, <2>2 DEF RadixInv
<1>10. CASE at = "findNegative" /\ LastSorted /\ FindInv
  <2>1. RadixOK' /\ LastSorted' /\ FindInv'
    BY <1>1, <1>10, FindKeeps
  <2> QED
    BY <1>1, <1>2, <1>10, <2>1 DEF RadixInv
<1>11. CASE at = "reorderNegatives" /\ LastSorted /\ NegInv
  <2>1. RadixOK' /\ LastSorted' /\ NegInv'
    BY <1>1, <1>11, NegativesKeep
  <2> QED
    BY <1>1, <1>2, <1>11, <2>1 DEF RadixInv
<1>12. CASE at = "store" /\ StoreInv
  <2>1. RadixOK' /\ StoreInv' /\ OutputsOK'
    BY <1>1, <1>12, StoreKeeps
  <2> QED
    BY <1>1, <1>12, <2>1 DEF RadixInv
<1> QED
  BY <1>3, <1>4, <1>5, <1>6, <1>7, <1>8, <1>9, <1>10, <1>11, <1>12 DEF RadixInv

LEMMA RadixKernel ==
  ASSUME FunOK, OutputsOK, given \in Data, RadixInv, EndKernel
  PROVE  /\ RadixInv' /\ OutputsOK' /\ UNCHANGED <<fun, given>>
         /\ at' = "idle" /\ Finds => IsTopK(0)'
<1>1. RadixOK /\ UNCHANGED <<fun, given, values, indices>>
  BY DEF RadixInv, EndKernel
<1>2. OutputsOK'
  BY <1>1 DEF OutputsOK
<1>3. at # "idle"
  <2> SUFFICES ASSUME at = "idle"
               PROVE  FALSE
    OBVIOUS
  <2>1. GlobalSize = 0
    BY DEF GlobalSize
  <2> QED
    BY <2>1 DEF EndKernel
<1>4. CASE at = "init" /\ InitInv
  <2>1. RadixOK' /\ PassOK' /\ HistogramInv' /\ at' = "histogram"
    BY <1>1, <1>4, InitEnds
  <2> QED
    BY <1>1, <1>2, <2>1 DEF RadixInv
<1>5. CASE at = "histogram" /\ PassOK /\ HistogramInv
  <2>1. RadixOK' /\ PassStays /\ ScanInv' /\ at' = "scan"
    BY <1>1, <1>5, HistogramEnds
  <2>2. PassOK'
    BY <1>5, <2>1, PassStaysOK
  <2> QED
    BY <1>1, <1>2, <2>1, <2>2 DEF RadixInv
<1>6. CASE at = "scan" /\ PassOK /\ ScanInv
  <2>1. RadixOK' /\ PassStays /\ GlobalScanInv' /\ at' = "globalScan"
    BY <1>1, <1>6, ScanKernelEnds
  <2>2. PassOK'
    BY <1>6, <2>1, PassStaysOK
  <2> QED
    BY <1>1, <1>2, <2>1, <2>2 DEF RadixInv
<1>7. CASE at = "globalScan" /\ PassOK /\ GlobalScanInv
  <2>1. RadixOK' /\ PassStays /\ PasteInv' /\ at' = "paste"
    BY <1>1, <1>7, GlobalScanEnds
  <2>2. PassOK'
    BY <1>7, <2>1, PassStaysOK
  <2> QED
    BY <1>1, <1>2, <2>1, <2>2 DEF RadixInv
<1>8. CASE at = "paste" /\ PassOK /\ PasteInv
  <2>1. RadixOK' /\ PassStays /\ ReorderInv' /\ at' = "reorder"
    BY <1>1, <1>8, PasteEnds
  <2>2. PassOK'
    BY <1>8, <2>1, PassStaysOK
  <2> QED
    BY <1>1, <1>2, <2>1, <2>2 DEF RadixInv
<1>9. CASE at = "reorder" /\ PassOK /\ ReorderInv
  <2>1. /\ RadixOK'
        /\ \/ at' = "histogram" /\ PassOK' /\ HistogramInv'
           \/ at' = "findNegative" /\ LastSorted' /\ FindInv'
    BY <1>1, <1>9, ReorderEnds
  <2> QED
    BY <1>1, <1>2, <2>1 DEF RadixInv
<1>10. CASE at = "findNegative" /\ LastSorted /\ FindInv
  <2>1. RadixOK' /\ LastSorted' /\ NegInv' /\ at' = "reorderNegatives"
    BY <1>1, <1>10, FindEnds
  <2> QED
    BY <1>1, <1>2, <2>1 DEF RadixInv
<1>11. CASE at = "reorderNegatives" /\ LastSorted /\ NegInv
  <2>1. RadixOK' /\ StoreInv' /\ at' = "store"
    BY <1>1, <1>11, NegativesEnd
  <2> QED
    BY <1>1, <1>2, <2>1 DEF RadixInv
<1>12. CASE at = "store" /\ StoreInv
  <2>1. /\ RadixOK' /\ at' = "idle" /\ pass' = Passes /\ \A i \in Range0(fun.n) : done'[i] = 0
        /\ Finds => IsTopK(0)'
    BY <1>1, <1>12, StoreEnds
  <2>2. pass' % 2 = 0
    <3>1. PICK c \in Nat : Passes = 2 * c
      BY PassesEven
    <3> QED
      BY <2>1, <3>1
  <2>3. \A i \in Range0(fun'.n) : done'[i] = 0
    BY <1>1, <2>1
  <2> QED
    BY <1>1, <1>2, <2>1, <2>2, <2>3 DEF RadixInv
<1> QED
  BY <1>3, <1>4, <1>5, <1>6, <1>7, <1>8, <1>9, <1>10, <1>11, <1>12 DEF RadixInv

LEMMA InitInv0 == TopKInit => Inv
<1> SUFFICES ASSUME TopKInit
             PROVE  Inv
  OBVIOUS
<1>1. FunOK
  BY InputsAssumption DEF TopKInit, FunOK
<1>2. /\ at = "idle" /\ runs = 0 /\ pass = 0 /\ heap = {} /\ back = {} /\ row = 0 /\ col = 0
      /\ stack = <<>> /\ sort = <<>> /\ done = Fresh /\ gpu = Buffers
      /\ values = [i \in Range0(fun.k * fun.rows) |-> 0]
      /\ indices = [i \in Range0(fun.k * fun.rows) |-> 0]
  BY DEF TopKInit
<1>3. CommonInv
  <2>1. OutputsOK
    BY <1>2 DEF OutputsOK
  <2>2. TopKOfEachRow
    BY <1>2 DEF TopKOfEachRow
  <2> QED
    BY <1>1, <1>2, <2>1, <2>2 DEF CommonInv
<1>4. CpuInv
  <2>1. 0 \in Range0(fun.rows) /\ 0 \in 0 .. fun.n
    BY <1>1 DEF FunOK, Range0
  <2> QED
    BY <1>2, <2>1 DEF CpuInv
<1>5. fun.n \in Nat \ {0} /\ HistoSize \in Nat \ {0}
  BY <1>1, Sizes DEF FunOK
<1>6. GpuOK
  <2>1. 0 \in Range0(fun.n) /\ 1 \in 1 .. 2 /\ Unset \in Unset .. fun.n
    BY <1>5 DEF Range0, Unset
  <2> QED
    BY <1>2, <2>1 DEF GpuOK, Buffers
<1>7. SingleInv
  BY <1>2, <1>6 DEF SingleInv
<1>8. fun.mode = "GPU" => RadixInv
  <2> SUFFICES ASSUME fun.mode = "GPU"
               PROVE  RadixInv
    OBVIOUS
  <2>1. done \in [Range0(fun.n + HistoSize) -> Nat]
        /\ \A i \in Range0(fun.n + HistoSize) : done[i] = 0
    BY <1>2 DEF Fresh
  <2>2. Range0(fun.n) \subseteq Range0(fun.n + HistoSize)
    BY <1>5 DEF Range0
  <2>3. gpu.in = 1 + (pass % 2) /\ pass % 2 = 0 /\ pass \in Nat
    BY <1>2 DEF Buffers
  <2>4. RadixOK
    BY <1>6, <2>1, <2>3 DEF RadixOK
  <2> QED
    BY <1>2, <2>1, <2>2, <2>3, <2>4 DEF RadixInv
<1> QED
  BY <1>3, <1>4, <1>7, <1>8 DEF Inv

LEMMA RunKeeps ==
  ASSUME Inv, Run
  PROVE  Inv'
<1>1. /\ at = "idle" /\ runs' = runs + 1
      /\ UNCHANGED <<fun, values, indices, done, heap, back, row, col, sort>>
      /\ pass' = 0 /\ input' = given' /\ FunOK /\ OutputsOK /\ runs \in Nat
  BY DEF Run, Inv, CommonInv
<1>2. given' \in Data /\ Data' = Data
  BY <1>1, InputsAssumption DEF Run, Data
<1>3. at' # "idle"
  BY DEF Run
<1>4. CommonInv'
  <2>1. FunOK' /\ OutputsOK'
    BY <1>1 DEF FunOK, OutputsOK
  <2>2. runs' \in Nat /\ runs' # 0
    BY <1>1
  <2>3. TopKOfEachRow'
    BY <1>3 DEF TopKOfEachRow
  <2> QED
    BY <1>2, <2>1, <2>2, <2>3 DEF CommonInv
<1>5. fun'.mode = "cpu" => CpuInv'
  <2> SUFFICES ASSUME fun.mode = "cpu"
               PROVE  CpuInv'
    BY <1>1
  <2>1. at' = "collect" /\ CpuInv
    BY DEF Run, Inv
  <2>2. row = 0 /\ col = 0 /\ heap = {} /\ back = {} /\ fun.k \in Nat
    BY <1>1, <2>1 DEF CpuInv, FunOK
  <2>3. Range0(0) = {} /\ Cardinality({}) = 0
    BY FS_EmptySet DEF Range0
  <2>4. HeapInv'
    <3>1. heap' = {} /\ back' = {} /\ Range0(col') = {} /\ fun'.k \in Nat
      BY <1>1, <2>2, <2>3
    <3> QED
      BY <2>3, <3>1 DEF HeapInv
  <2>5. \A r \in Range0(row') : IsTopK(r)'
    BY <1>1, <2>2, <2>3
  <2> QED
    BY <1>1, <2>1, <2>4, <2>5 DEF CpuInv
<1>6. fun'.mode = "GPU_SINGLE" => SingleInv'
  BY <1>1, RunStartsSorting DEF Inv
<1>7. fun'.mode = "GPU" => RadixInv'
  <2> SUFFICES ASSUME fun.mode = "GPU"
               PROVE  RadixInv'
    BY <1>1
  <2>1. at' = "init" /\ gpu' = gpu /\ RadixInv
    BY DEF Run, Inv
  <2>2. RadixOK /\ pass % 2 = 0 /\ \A i \in Range0(fun.n) : done[i] = 0
    BY <1>1, <2>1 DEF RadixInv
  <2>3. RadixOK'
    <3>1. gpu.in = 1 + (pass' % 2)
      BY <1>1, <2>2 DEF RadixOK
    <3>2. GpuOK'
      BY <1>1, <2>1, <2>2 DEF RadixOK, GpuOK, HistoSize, Split, Radix
    <3> QED
      BY <1>1, <2>1, <2>2, <3>1, <3>2 DEF RadixOK, HistoSize, Radix
  <2>4. InitInv'
    BY <1>1, <2>2 DEF InitInv
  <2> QED
    BY <2>1, <2>3, <2>4 DEF RadixInv
<1> QED
  BY <1>4, <1>5, <1>6, <1>7 DEF Inv

\* What a step has to keep of what the modes share.
LEMMA CommonKeeps ==
  ASSUME CommonInv, at # "idle", UNCHANGED <<fun, given, runs>>, OutputsOK',
         at' = "idle" /\ (fun.mode # "cpu" => fun.rows = 1)
           /\ (fun.mode = "GPU" => FindsFirstNegative) => \A r \in Range0(fun.rows) : IsTopK(r)'
  PROVE  CommonInv'
<1>1. FunOK /\ runs \in Nat /\ runs # 0 /\ given \in Data
  BY DEF CommonInv
<1>2. FunOK' /\ (given \in Data)'
  BY <1>1 DEF FunOK, Data
<1>3. FindsFirstNegative' <=> FindsFirstNegative
  BY DEF FindsFirstNegative, Number, Negative
<1>4. TopKOfEachRow'
  BY <1>3 DEF TopKOfEachRow
<1> QED
  BY <1>1, <1>2, <1>4 DEF CommonInv

LEMMA OneRow ==
  ASSUME fun.rows = 1, NEW r \in Range0(fun.rows)
  PROVE  r = 0
BY DEF Range0

LEMMA CpuStep ==
  ASSUME Inv, fun.mode = "cpu", TopKStep
  PROVE  Inv'
<1>1. CommonInv /\ CpuInv /\ FunOK /\ OutputsOK /\ (runs = 0 => at = "idle")
      /\ (runs > 0 => given \in Data) /\ runs \in Nat
  BY DEF Inv, CommonInv
<1>2. at \in {"idle", "collect"}
  BY <1>1 DEF CpuInv
<1>3. GlobalSize = 0 /\ Range0(GlobalSize) = {}
  BY <1>2 DEF GlobalSize, Range0
<1>4. Push \/ EndRow
  <2>1. ~EndKernel
    BY <1>3 DEF EndKernel
  <2>2. ~(PopRange \/ Sift \/ PushRanges \/ Extract)
    BY <1>2 DEF PopRange, Sift, PushRanges, Extract
  <2> QED
    BY <1>3, <2>1, <2>2 DEF TopKStep
<1>5. at = "collect" /\ UNCHANGED <<fun, given, runs>>
  BY <1>4 DEF Push, EndRow
<1>6. given \in Data
  BY <1>1, <1>5
<1>7. CpuInv' /\ CommonInv'
  <2>1. CASE Push
    <3>1. CpuInv'
      BY <1>1, <1>6, <2>1, PushKeeps
    <3>2. OutputsOK' /\ at' = "collect"
      BY <1>1, <1>5, <2>1 DEF Push, OutputsOK
    <3> QED
      BY <1>1, <1>5, <3>1, <3>2, CommonKeeps
  <2>2. CASE EndRow
    <3>1. CpuInv' /\ OutputsOK' /\ (at' = "idle" => \A r \in Range0(fun.rows) : IsTopK(r)')
      BY <1>1, <1>6, <2>2, EndRowKeeps
    <3> QED
      BY <1>1, <1>5, <3>1, CommonKeeps
  <2> QED
    BY <1>4, <2>1, <2>2
<1> QED
  BY <1>5, <1>7 DEF Inv

LEMMA SingleStep ==
  ASSUME Inv, fun.mode = "GPU_SINGLE", TopKStep
  PROVE  Inv'
<1>1. CommonInv /\ SingleInv /\ FunOK /\ OutputsOK /\ (runs = 0 => at = "idle")
      /\ (runs > 0 => given \in Data) /\ runs \in Nat
  BY DEF Inv, CommonInv
<1>2. at \in {"idle", "quicksort"}
  BY <1>1 DEF SingleInv
<1>3. GlobalSize = 0 /\ Range0(GlobalSize) = {}
  BY <1>2 DEF GlobalSize, Range0
<1>4. PopRange \/ Sift \/ PushRanges \/ Extract
  BY <1>2, <1>3 DEF TopKStep, EndKernel, Push, EndRow
<1>5. at = "quicksort" /\ UNCHANGED <<fun, given, runs>>
  BY <1>4 DEF PopRange, Sift, PushRanges, Extract
<1>6. given \in Data
  BY <1>1, <1>5
<1>7. CASE PopRange \/ Sift \/ PushRanges
  <2>1. SingleInv'
    <3>1. CASE PopRange
      BY <1>1, <3>1, PopRangeKeeps
    <3>2. CASE Sift
      <4>1. UNCHANGED <<fun, given, at, stack>>
        BY <3>2 DEF Sift
      <4> QED
        BY <1>1, <3>2, <4>1, SiftKeeps
    <3>3. CASE PushRanges
      <4>1. UNCHANGED <<fun, given, at>>
        BY <3>3 DEF PushRanges
      <4> QED
        BY <1>1, <3>3, <4>1, PushRangesKeeps
    <3> QED
      BY <1>7, <3>1, <3>2, <3>3
  <2>2. OutputsOK' /\ at' = "quicksort"
    BY <1>1, <1>5, <1>7 DEF PopRange, Sift, PushRanges, OutputsOK
  <2>3. CommonInv'
    BY <1>1, <1>5, <2>2, CommonKeeps
  <2> QED
    BY <1>5, <2>1, <2>3 DEF Inv
<1>8. CASE Extract
  <2>1. SingleInv' /\ OutputsOK' /\ IsTopK(0)'
    BY <1>1, <1>6, <1>8, ExtractKeeps
  <2>2. fun.rows = 1 => \A r \in Range0(fun.rows) : IsTopK(r)'
    BY <2>1, OneRow
  <2>3. CommonInv'
    BY <1>1, <1>5, <2>1, <2>2, CommonKeeps
  <2> QED
    BY <1>5, <2>1, <2>3 DEF Inv
<1> QED
  BY <1>4, <1>7, <1>8

LEMMA RadixStep ==
  ASSUME Inv, fun.mode = "GPU", TopKStep
  PROVE  Inv'
<1>1. CommonInv /\ RadixInv /\ FunOK /\ OutputsOK /\ (runs = 0 => at = "idle")
      /\ (runs > 0 => given \in Data) /\ runs \in Nat
  BY DEF Inv, CommonInv
<1>2. at \notin {"collect", "quicksort"}
  BY <1>1 DEF RadixInv
<1>3. EndKernel \/ \E i \in Range0(GlobalSize) : ItemStep(i)
  BY <1>2 DEF TopKStep, PopRange, Sift, PushRanges, Extract, Push, EndRow
<1>4. at # "idle"
  <2> SUFFICES ASSUME at = "idle"
               PROVE  FALSE
    OBVIOUS
  <2>1. GlobalSize = 0 /\ Range0(GlobalSize) = {}
    BY DEF GlobalSize, Range0
  <2> QED
    BY <1>3, <2>1 DEF EndKernel
<1>5. given \in Data
  BY <1>1, <1>4
<1>6. UNCHANGED runs
  BY <1>3 DEF EndKernel, ItemStep
<1>7. CASE EndKernel
  <2>1. RadixInv' /\ OutputsOK' /\ UNCHANGED <<fun, given>> /\ (at' = "idle" /\ Finds => IsTopK(0)')
    BY <1>1, <1>5, <1>7, RadixKernel
  <2>2. at' = "idle" /\ fun.rows = 1 /\ FindsFirstNegative
          => \A r \in Range0(fun.rows) : IsTopK(r)'
    BY <2>1, OneRow DEF Finds
  <2>3. CommonInv'
    BY <1>1, <1>4, <1>6, <2>1, <2>2, CommonKeeps
  <2> QED
    BY <2>1, <2>3 DEF Inv
<1>8. CASE \E i \in Range0(GlobalSize) : ItemStep(i)
  <2>1. PICK i \in Range0(GlobalSize) : ItemStep(i)
    BY <1>8
  <2>2. RadixInv' /\ OutputsOK' /\ at' # "idle" /\ UNCHANGED <<fun, given>>
    BY <1>1, <1>5, <2>1, RadixItem
  <2>3. CommonInv'
    BY <1>1, <1>4, <1>6, <2>2, CommonKeeps
  <2> QED
    BY <2>2, <2>3 DEF Inv
<1> QED
  BY <1>3, <1>7, <1>8

LEMMA StutterKeeps ==
  ASSUME Inv, UNCHANGED topkVars
  PROVE  Inv'
<1>1. /\ fun' = fun /\ given' = given /\ input' = input /\ values' = values
      /\ indices' = indices /\ at' = at /\ done' = done /\ gpu' = gpu /\ pass' = pass
      /\ heap' = heap /\ back' = back /\ row' = row /\ col' = col /\ stack' = stack
      /\ sort' = sort /\ runs' = runs
  BY DEF topkVars
<1>2. CommonInv' <=> CommonInv
  BY <1>1 DEF CommonInv, FunOK, OutputsOK, Data, TopKOfEachRow, FindsFirstNegative, IsTopK,
              Number, Negative
<1>3. CpuInv' <=> CpuInv
  BY <1>1 DEF CpuInv, HeapInv, Better, IsTopK, Number, Negative
<1>4. GpuOK' <=> GpuOK
  BY <1>1 DEF GpuOK, HistoSize, Split, Radix
<1>5. SingleInv' <=> SingleInv
  BY <1>1, <1>4 DEF SingleInv, Data, Traced, Nums, Number, Negative
<1>6. RadixOK' <=> RadixOK
  BY <1>1, <1>4 DEF RadixOK, HistoSize, Radix
<1>7. KeyBuffer' = KeyBuffer /\ KeyPlaces' = KeyPlaces /\ OtherBuffer' = OtherBuffer
      /\ OtherKeys' = OtherKeys /\ OtherPlaces' = OtherPlaces
  BY <1>1 DEF KeyBuffer, KeyPlaces, OtherBuffer, OtherKeys, OtherPlaces
<1>8. (PassOK' <=> PassOK) /\ (LastSorted' <=> LastSorted) /\ Sums' = Sums
  BY <1>1, <1>7 DEF PassOK, LastSorted, SortedBy, Passes, Sums
<1>9. /\ \A z : FirstAt(z)' <=> FirstAt(z)
      /\ \A i : (Writes(i)' <=> Writes(i)) /\ From(i)' = From(i) /\ NewPlace(i)' = NewPlace(i)
      /\ Finds' <=> Finds
  BY <1>1, <1>7 DEF FirstAt, Writes, From, NewPlace, Finds, FindsFirstNegative, Number, Negative
<1>10. (InitInv' <=> InitInv) /\ (HistogramInv' <=> HistogramInv)
  BY <1>1, <1>8 DEF InitInv, HistogramInv, HistoSize, Radix, Parts
<1>11. (ScanInv' <=> ScanInv) /\ (GlobalScanInv' <=> GlobalScanInv)
  <2>1. GroupTops' = GroupTops
    BY <1>8 DEF GroupTops, Split
  <2> QED
    BY <1>1, <1>8, <2>1 DEF ScanInv, GlobalScanInv, Level, HistoSize, Radix, Split, GroupBase
<1>12. (PasteInv' <=> PasteInv) /\ (ReorderInv' <=> ReorderInv)
  BY <1>1, <1>7, <1>8, <1>9 DEF PasteInv, ReorderInv, HistoSize, Radix, Split, GroupBase
<1>13. (FindInv' <=> FindInv) /\ (NegInv' <=> NegInv)
  BY <1>1, <1>7, <1>9 DEF FindInv, NegInv
<1>14. StoreInv' <=> StoreInv
  BY <1>1, <1>7, <1>9 DEF StoreInv, Passes, Ascends, Number, Negative
<1>15. RadixInv' <=> RadixInv
  BY <1>1, <1>6, <1>8, <1>10, <1>11, <1>12, <1>13, <1>14 DEF RadixInv
<1> QED
  BY <1>1, <1>2, <1>3, <1>5, <1>15 DEF Inv

(* The invariant of a function is inductive.                                *)
THEOREM TopKStays == TopKInit /\ [][TopKNext]_topkVars => []Inv
<1>1. TopKInit => Inv
  BY InitInv0
<1>2. Inv /\ [TopKNext]_topkVars => Inv'
  <2> SUFFICES ASSUME Inv, [TopKNext]_topkVars
               PROVE  Inv'
    OBVIOUS
  <2>1. CASE Run
    BY <2>1, RunKeeps
  <2>2. CASE TopKStep
    <3>1. fun.mode \in {"cpu", "GPU", "GPU_SINGLE"}
      BY DEF Inv, CommonInv, FunOK
    <3> QED
      BY <2>2, <3>1, CpuStep, SingleStep, RadixStep
  <2>3. CASE UNCHANGED topkVars
    BY <2>3, StutterKeeps
  <2> QED
    BY <2>1, <2>2, <2>3 DEF TopKNext
<1> QED
  BY <1>1, <1>2, PTL

(* When a run of CLTopKV2 has ended, each row of the outputs is the top k of *)
(* its row of the input: in every mode, for every size, k and count of work  *)
(* items, and whatever the order in which they run.                          *)
THEOREM TopKIsRight == TopKInit /\ [][TopKNext]_topkVars => []TopKOfEachRow
<1>1. Inv => TopKOfEachRow
  BY DEF Inv, CommonInv
<1> QED
  BY <1>1, TopKStays, PTL

-----------------------------------------------------------------------------
(* The stack of the quicksort fits into its buffer                          *)

\* Only ranges of two elements or more are on it.
Wide(st) ==
  /\ st \in Seq(Int) /\ Len(st) = 2 * Count(st)
  /\ \A m \in 1 .. Count(st) : st[2 * m - 1] < st[2 * m]

LEMMA WidePopped ==
  ASSUME NEW st, Wide(st), st # <<>>, NEW rest, rest = SubSeq(st, 1, Len(st) - 2)
  PROVE  Wide(rest)
<1> DEFINE len == Len(st)
           c == Count(st)
<1>1. st \in Seq(Int) /\ len \in Nat /\ c \in Int /\ len = 2 * c /\ len # 0
      /\ \A m \in 1 .. c : st[2 * m - 1] < st[2 * m]
  <2>1. st \in Seq(Int) /\ len \in Nat /\ len = 2 * c /\ len # 0
        /\ \A m \in 1 .. c : st[2 * m - 1] < st[2 * m]
    BY DEF Wide
  <2>2. c = len \div 2
    BY DEF Count
  <2> HIDE DEF c, len
  <2> QED
    BY <2>1, <2>2
<1>2. \A i \in 1 .. len : st[i] \in Int
  BY <1>1
<1> HIDE DEF c
<1>3. rest \in Seq(Int) /\ Len(rest) = len - 2 /\ \A i \in 1 .. len - 2 : rest[i] = st[i]
  <2>1. /\ 1 \in 1 .. len + 1 /\ len - 2 \in 0 .. len
        /\ \A i \in 1 .. len - 2 : i \in 1 .. len
    <3> HIDE DEF len
    <3> QED
      BY <1>1
  <2> QED
    BY <1>1, <1>2, <2>1, SubSeqProperties
<1> HIDE DEF len
<1>4. Count(rest) = c - 1
  <2>1. (2 * (c - 1)) \div 2 = c - 1 /\ len - 2 = 2 * (c - 1)
    BY <1>1, Half
  <2> QED
    BY <1>3, <2>1 DEF Count
<1>5. /\ \A m \in 1 .. c - 1 : /\ 2 * m - 1 \in 1 .. len - 2 /\ 2 * m \in 1 .. len - 2
                               /\ m \in 1 .. c
      /\ len - 2 = 2 * (c - 1)
  BY <1>1
<1>6. \A m \in 1 .. c - 1 : rest[2 * m - 1] < rest[2 * m]
  BY <1>1, <1>3, <1>5
<1> QED
  BY <1>3, <1>4, <1>5, <1>6 DEF Wide

LEMMA WidePushed ==
  ASSUME NEW st, Wide(st), NEW l \in Int, NEW h \in Int,
         NEW t, t = (IF h > l THEN <<l, h>> ELSE <<>>), NEW st2, st2 = st \o t
  PROVE  Wide(st2)
<1>1. CASE ~(h > l)
  <2>1. st \in Seq(Int)
    BY DEF Wide
  <2>2. st2 = st
    BY <1>1, <2>1
  <2> QED
    BY <2>2
<1>2. CASE h > l
  <2> DEFINE len == Len(st)
             c == Count(st)
  <2>1. st \in Seq(Int) /\ len \in Nat /\ c \in Int /\ len = 2 * c
        /\ \A m \in 1 .. c : st[2 * m - 1] < st[2 * m]
    <3>1. st \in Seq(Int) /\ len \in Nat /\ len = 2 * c
          /\ \A m \in 1 .. c : st[2 * m - 1] < st[2 * m]
      BY DEF Wide
    <3>2. c = len \div 2
      BY DEF Count
    <3> HIDE DEF c, len
    <3> QED
      BY <3>1, <3>2
  <2>2. Longer(st2, st, l, h)
    <3>1. t = <<l, h>> /\ st \in Seq(Int)
      BY <1>2, <2>1
    <3> QED
      BY ONLY <3>1, l \in Int, h \in Int, st2 = st \o t, PairAppended, Zenon
  <2>3. /\ st2 \in Seq(Int) /\ Len(st2) = len + 2
        /\ \A i \in 1 .. len : st2[i] = st[i]
        /\ st2[len + 1] = l /\ st2[len + 2] = h
    BY <2>2 DEF Longer
  <2> HIDE DEF len, c
  <2>4. Count(st2) = c + 1
    <3>1. (2 * (c + 1)) \div 2 = c + 1 /\ len + 2 = 2 * (c + 1)
      BY <2>1, Half
    <3> QED
      BY <2>3, <3>1 DEF Count
  <2>5. ASSUME NEW m \in 1 .. c + 1
        PROVE  st2[2 * m - 1] < st2[2 * m]
    <3>1. CASE m = c + 1
      <4>1. 2 * m - 1 = len + 1 /\ 2 * m = len + 2
        BY <2>1, <3>1
      <4> QED
        BY <1>2, <2>3, <4>1
    <3>2. CASE m # c + 1
      <4>1. m \in 1 .. c /\ 2 * m - 1 \in 1 .. len /\ 2 * m \in 1 .. len
        BY <2>1, <3>2
      <4> QED
        BY <2>1, <2>3, <4>1
    <3> QED
      BY <3>1, <3>2
  <2>6. Len(st2) = 2 * (c + 1)
    BY <2>1, <2>3
  <2> QED
    BY <2>3, <2>4, <2>5, <2>6 DEF Wide
<1> QED
  BY <1>1, <1>2

\* Ranges that do not meet, of two elements or more, have two ends each.
LEMMA WideFits ==
  ASSUME NEW n \in Nat, NEW st, StackOK(st, n), Wide(st)
  PROVE  Len(st) <= n
<1> DEFINE len == Len(st)
           c == Count(st)
           Of(x) == (x + 1) \div 2
           f == [x \in 1 .. len |-> st[x]]
<1>1. st \in Seq(Int) /\ len \in Nat /\ c \in Int /\ len = 2 * c
      /\ \A m \in 1 .. c : st[2 * m - 1] < st[2 * m]
  <2>1. st \in Seq(Int) /\ len \in Nat /\ len = 2 * c
        /\ \A m \in 1 .. c : st[2 * m - 1] < st[2 * m]
    BY DEF Wide
  <2>2. c = len \div 2
    BY DEF Count
  <2> HIDE DEF c, len
  <2> QED
    BY <2>1, <2>2
<1>2. /\ \A m \in 1 .. c : 0 <= st[2 * m - 1] /\ st[2 * m - 1] <= st[2 * m] /\ st[2 * m] < n
      /\ \A m, m2 \in 1 .. c, p \in Int : InRange(st, m, p) /\ InRange(st, m2, p) => m = m2
  BY DEF StackOK
<1>3. \A x \in 1 .. len : st[x] \in Int
  BY <1>1
<1> HIDE DEF len, c
<1>4. \A x \in 1 .. len : Of(x) \in 1 .. c /\ (x = 2 * Of(x) - 1 \/ x = 2 * Of(x))
  BY <1>1
<1>5. \A m \in 1 .. c : 2 * m - 1 \in 1 .. len /\ 2 * m \in 1 .. len
  BY <1>1
<1> HIDE DEF Of
<1>6. \A x \in 1 .. len : InRange(st, Of(x), st[x])
  <2> TAKE x \in 1 .. len
  <2>1. /\ Of(x) \in 1 .. c /\ (x = 2 * Of(x) - 1 \/ x = 2 * Of(x))
        /\ st[2 * Of(x) - 1] \in Int /\ st[2 * Of(x)] \in Int
    BY <1>3, <1>4, <1>5
  <2>2. st[2 * Of(x) - 1] <= st[2 * Of(x)]
    BY <1>2, <2>1
  <2> QED
    BY <2>1, <2>2 DEF InRange
<1>7. f \in [1 .. len -> 0 .. n - 1]
  <2> SUFFICES ASSUME NEW x \in 1 .. len
               PROVE  st[x] \in 0 .. n - 1
    OBVIOUS
  <2>1. InRange(st, Of(x), st[x]) /\ Of(x) \in 1 .. c /\ st[x] \in Int
    BY <1>3, <1>4, <1>6
  <2>2. st[2 * Of(x) - 1] \in Int /\ st[2 * Of(x)] \in Int
    BY <1>3, <1>5, <2>1
  <2> QED
    BY <1>2, <2>1, <2>2 DEF InRange
<1>8. \A x, y \in 1 .. len : st[x] = st[y] => x = y
  <2> SUFFICES ASSUME NEW x \in 1 .. len, NEW y \in 1 .. len, st[x] = st[y]
               PROVE  x = y
    OBVIOUS
  <2>1. Of(x) \in 1 .. c /\ Of(y) \in 1 .. c /\ st[x] \in Int
        /\ InRange(st, Of(x), st[x]) /\ InRange(st, Of(y), st[x])
    BY <1>3, <1>4, <1>6
  <2>2. Of(x) = Of(y)
    BY <1>2, <2>1
  <2>3. st[2 * Of(x) - 1] \in Int /\ st[2 * Of(x)] \in Int
        /\ st[2 * Of(x) - 1] < st[2 * Of(x)]
    BY <1>1, <1>3, <1>5, <2>1
  <2>4. st[2 * Of(x) - 1] # st[2 * Of(x)]
    BY <2>3
  <2> QED
    BY <1>4, <2>2, <2>4
<1>9. IsFiniteSet(0 .. n - 1) /\ Cardinality(0 .. n - 1) = n
  BY RangeSize DEF Range0
<1>10. Cardinality(1 .. len) = len
  <2>1. len >= 0 /\ 1 \in Int /\ len \in Int
    BY <1>1
  <2>2. Cardinality(1 .. len) = IF 1 > len THEN 0 ELSE len - 1 + 1
    BY <2>1, FS_Interval
  <2> QED
    BY <2>1, <2>2
<1>11. IsFiniteSet(1 .. len)
  BY <1>1, FS_Interval
<1>12. len \in Int
  BY <1>1
<1>13. \A x \in 1 .. len : f[x] = st[x]
  OBVIOUS
<1> HIDE DEF f
<1>14. ~(n < len)
  <2> SUFFICES ASSUME Cardinality(0 .. n - 1) < Cardinality(1 .. len)
               PROVE  FALSE
    BY <1>9, <1>10
  <2>1. \E x, y \in 1 .. len : x # y /\ f[x] = f[y]
    BY <1>7, <1>9, <1>11, FS_PigeonHole
  <2> QED
    BY <1>8, <1>13, <2>1
<1> QED
  BY <1>12, <1>14 DEF len

\* A function sorts nothing in the other modes.
StackInv ==
  /\ fun.mode # "GPU_SINGLE" => stack = <<>>
  /\ fun.n > 1 => Wide(stack)

LEMMA NothingIsWide == Wide(<<>>)
<1>1. Len(<<>>) = 0 /\ <<>> \in Seq(Int)
  OBVIOUS
<1>2. (2 * 0) \div 2 = 0
  BY Half
<1>3. Count(<<>>) = 0
  BY <1>1, <1>2 DEF Count
<1> QED
  BY <1>1, <1>3 DEF Wide

LEMMA RunStacksAll ==
  ASSUME StackInv, Run, FunOK
  PROVE  StackInv'
<1>1. fun' = fun /\ fun.n \in Int
  BY DEF Run, FunOK
<1>2. CASE stack' = stack
  BY <1>1, <1>2 DEF StackInv
<1>3. CASE fun.mode = "GPU_SINGLE" /\ stack' = <<0, fun.n - 1>>
  <2> SUFFICES ASSUME fun.n > 1
               PROVE  Wide(stack')
    BY <1>1, <1>3 DEF StackInv
  <2>1. /\ stack' \in Seq(Int) /\ Len(stack') = 2
        /\ stack'[1] = 0 /\ stack'[2] = fun.n - 1
    BY <1>1, <1>3
  <2>2. (2 * 1) \div 2 = 1
    BY Half
  <2>3. Count(stack') = 1
    BY <2>1, <2>2 DEF Count
  <2>4. \A m \in 1 .. 1 : stack'[2 * m - 1] < stack'[2 * m]
    BY <1>1, <2>1
  <2> QED
    BY <2>1, <2>3, <2>4 DEF Wide
<1> QED
  BY <1>2, <1>3 DEF Run

LEMMA PopKeepsWide ==
  ASSUME StackInv, PopRange
  PROVE  StackInv'
<1>1. stack # <<>> /\ fun' = fun /\ stack' = SubSeq(stack, 1, Len(stack) - 2)
  BY DEF PopRange
<1>2. fun.mode = "GPU_SINGLE" /\ (fun.n > 1 => Wide(stack))
  BY <1>1 DEF StackInv
<1>3. fun.n > 1 => Wide(stack')
  BY <1>1, <1>2, WidePopped
<1> QED
  BY <1>1, <1>2, <1>3 DEF StackInv

LEMMA PushKeepsWide ==
  ASSUME StackInv, Inv, PushRanges
  PROVE  StackInv'
<1>1. at = "quicksort" /\ sort # <<>> /\ fun' = fun
  BY DEF PushRanges
<1>2. fun.mode = "GPU_SINGLE"
  <2>1. fun.mode \in {"cpu", "GPU", "GPU_SINGLE"}
    BY DEF Inv, CommonInv, FunOK
  <2> QED
    BY <1>1, <2>1 DEF Inv, CpuInv, RadixInv
<1>3. Partitioning(fun.n, stack, sort, Nums)
  BY <1>1, <1>2 DEF Inv, SingleInv
<1> DEFINE l == sort.l
           h == sort.h
           h1 == (sort.i + 1) - 1
           l2 == (sort.i + 1) + 1
           t1 == IF h1 > l THEN <<l, h1>> ELSE <<>>
           t2 == IF l2 < h THEN <<l2, h>> ELSE <<>>
           st1 == stack \o t1
           st2 == st1 \o t2
<1>4. l \in Int /\ h \in Int /\ h1 \in Int /\ l2 \in Int
  BY <1>3 DEF Partitioning
<1>5. stack' = (stack \o t1) \o t2
  BY DEF PushRanges
<1> HIDE DEF l, h, h1, l2
<1>6. ASSUME fun.n > 1
      PROVE  Wide(stack')
  <2>1. Wide(stack)
    BY <1>6 DEF StackInv
  <2>2. Wide(st1)
    <3> HIDE DEF st1
    <3> QED
      BY <1>4, <2>1, WidePushed DEF st1
  <2> HIDE DEF st1
  <2>3. t2 = IF h > l2 THEN <<l2, h>> ELSE <<>>
    <3>1. l2 < h <=> h > l2
      BY <1>4
    <3> QED
      BY <3>1
  <2>4. Wide(st2)
    <3> HIDE DEF st2, t2
    <3> QED
      BY <1>4, <2>2, <2>3, WidePushed DEF st2
  <2> QED
    BY <1>5, <2>4 DEF st1
<1> QED
  BY <1>1, <1>2, <1>6 DEF StackInv

LEMMA StackStays ==
  ASSUME Inv, StackInv, [TopKNext]_topkVars
  PROVE  StackInv'
<1>1. FunOK
  BY DEF Inv, CommonInv
<1>2. CASE UNCHANGED <<fun, stack>>
  BY <1>2 DEF StackInv, Wide, Count
<1>3. UNCHANGED <<fun, stack>> \/ Run \/ PopRange \/ PushRanges
  BY DEF TopKNext, TopKStep, ItemStep, EndKernel, Sift, Extract, Push, EndRow, topkVars
<1> QED
  BY <1>1, <1>2, <1>3, RunStacksAll, PopKeepsWide, PushKeepsWide

(* The ranges that the quicksort has still to do fit into the buffer of the  *)
(* stack, which has a cell for each key of the row, whenever the row has two *)
(* keys at least.                                                            *)
THEOREM StackFits ==
  TopKInit /\ [][TopKNext]_topkVars => [](fun.n > 1 => Len(stack) <= fun.n)
<1>1. TopKInit => StackInv
  BY NothingIsWide DEF TopKInit, StackInv
<1>2. Inv /\ StackInv /\ [TopKNext]_topkVars => StackInv'
  BY StackStays
<1>3. Inv /\ StackInv => (fun.n > 1 => Len(stack) <= fun.n)
  <2> SUFFICES ASSUME Inv, StackInv, fun.n > 1
               PROVE  Len(stack) <= fun.n
    OBVIOUS
  <2>1. fun.n \in Nat
    BY DEF Inv, CommonInv, FunOK
  <2>2. CASE stack = <<>>
    BY <2>1, <2>2
  <2>3. CASE stack # <<>>
    <3>1. fun.mode = "GPU_SINGLE" /\ Wide(stack)
      BY <2>3 DEF StackInv
    <3>2. StackOK(stack, fun.n)
      BY <2>3, <3>1 DEF Inv, SingleInv
    <3> QED
      BY <2>1, <3>1, <3>2, WideFits
  <2> QED
    BY <2>2, <2>3
<1> QED
  BY <1>1, <1>2, <1>3, TopKStays, PTL
===============================================================================
