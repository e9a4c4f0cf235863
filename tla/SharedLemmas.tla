---------------------------- MODULE SharedLemmas ----------------------------
(***************************************************************************)
(* What the proofs of more than one component rest on: induction over the  *)
(* naturals, remainders, powers of two and sums, and what one gate does to *)
(* a phase.                                                                *)
(***************************************************************************)
EXTENDS Gates, Powers, WellFoundedInduction, TLAPS

-----------------------------------------------------------------------------
(* Induction.  A property is the set of the numbers that have it.          *)

(* Every set of naturals has a least one. *)
LEMMA LeastNatural ==
  ASSUME NEW T \in SUBSET Nat, T # {}
  PROVE  \E x \in T : \A y \in T : x <= y
<1> DEFINE R == OpToRel(<, Nat)
<1>1. IsWellFoundedOn(R, Nat)
  BY NatLessThanWellFounded, Zenon
<1>2. \A x, y \in Nat : x < y => <<x, y>> \in R
  BY Zenon DEF OpToRel
<1> HIDE DEF R
<1>3. PICK x \in T : \A y \in T : ~ (<<y, x>> \in R)
  BY <1>1, WFMin, Zenon
<1>4. \A y \in T : ~ (y < x)
  BY <1>2, <1>3, Zenon
<1>5. QED
  BY <1>4

(* A set that holds 0, and with each number the next, holds every natural. *)
LEMMA Induction ==
  ASSUME NEW S, 0 \in S, \A m \in Nat : m \in S => m + 1 \in S
  PROVE  \A m \in Nat : m \in S
<1> SUFFICES ASSUME Nat \ S # {} PROVE FALSE
  OBVIOUS
<1>1. PICK x \in Nat \ S : \A y \in Nat \ S : x <= y
  BY LeastNatural
<1>2. x # 0 /\ x - 1 \in Nat /\ x - 1 \notin Nat \ S
  BY <1>1
<1>3. QED
  BY <1>1, <1>2, (x - 1) + 1 = x

(* A function on the naturals can be defined by what it does at 0 and from *)
(* each number to the next.                                                *)
Iterates(f, f0, G) == f[0] = f0 /\ \A j \in Nat : f[j + 1] = G[j][f[j]]

LEMMA RecursionExists ==
  ASSUME NEW V, NEW f0 \in V, NEW G \in [Nat -> [V -> V]]
  PROVE  \E f \in [Nat -> V] : Iterates(f, f0, G)
<1> DEFINE UpTo(m) == {f \in [0..m -> V] : f[0] = f0 /\ \A j \in 0..(m - 1) : f[j + 1] = G[j][f[j]]}
           S == {m \in Nat : UpTo(m) # {}}
<1>1. ASSUME NEW m \in Nat, NEW f \in UpTo(m), NEW g \in UpTo(m + 1)
      PROVE  f[m] = g[m]
  <2> DEFINE E == {j \in Nat : j <= m => f[j] = g[j]}
  <2>1. 0 \in E
    OBVIOUS
  <2>2. ASSUME NEW j \in Nat, j \in E PROVE j + 1 \in E
    <3> SUFFICES ASSUME j + 1 <= m PROVE f[j + 1] = g[j + 1]
      OBVIOUS
    <3>1. j \in 0..(m - 1) /\ j \in 0..((m + 1) - 1) /\ j <= m
      OBVIOUS
    <3>2. QED
      BY <2>2, <3>1
  <2> HIDE DEF E
  <2>3. m \in E
    BY <2>1, <2>2, Induction
  <2>4. QED
    BY <2>3 DEF E
<1>2. 0 \in S
  <2>1. [j \in 0..0 |-> f0] \in UpTo(0)
    OBVIOUS
  <2>2. QED
    BY <2>1
<1>3. ASSUME NEW m \in Nat, m \in S PROVE m + 1 \in S
  <2>1. PICK f \in UpTo(m) : TRUE
    BY <1>3
  <2> DEFINE g == [j \in 0..(m + 1) |-> IF j = m + 1 THEN G[m][f[m]] ELSE f[j]]
  <2>2. m \in 0..m /\ f[m] \in V /\ G[m][f[m]] \in V
    BY <2>1
  <2>3. g \in [0..(m + 1) -> V]
    BY <2>1, <2>2
  <2>4. g[0] = f0
    BY <2>1
  <2>5. ASSUME NEW j \in 0..((m + 1) - 1) PROVE g[j + 1] = G[j][g[j]]
    <3>1. CASE j = m
      BY <3>1
    <3>2. CASE j # m
      <4>1. j \in 0..(m - 1)
        BY <3>2
      <4>2. QED
        BY <2>1, <4>1
    <3>3. QED
      BY <3>1, <3>2
  <2>6. g \in UpTo(m + 1)
    BY <2>3, <2>4, <2>5, SMTT(30)
  <2>7. UpTo(m + 1) # {}
    <3> HIDE DEF g, UpTo
    <3>1. QED
      BY <2>6
  <2>8. QED
    <3> HIDE DEF g, UpTo
    <3>1. QED
      BY <2>7
<1> HIDE DEF S
<1>4. \A m \in Nat : m \in S
  BY <1>2, <1>3, Induction
<1> DEFINE F == [m \in Nat |-> CHOOSE f \in UpTo(m) : TRUE]
           h == [m \in Nat |-> F[m][m]]
<1>5. ASSUME NEW m \in Nat PROVE F[m] \in UpTo(m)
  BY <1>4 DEF S
<1> HIDE DEF F
<1>6. h \in [Nat -> V]
  BY <1>5
<1>7. h[0] = f0
  BY <1>5
<1>8. ASSUME NEW j \in Nat PROVE h[j + 1] = G[j][h[j]]
  <2>1. F[j] \in UpTo(j) /\ F[j + 1] \in UpTo(j + 1)
    BY <1>5
  <2>2. F[j][j] = F[j + 1][j]
    BY <1>1, <2>1
  <2>3. j \in 0..((j + 1) - 1)
    OBVIOUS
  <2>4. QED
    BY <2>1, <2>2, <2>3
<1>9. QED
  BY <1>6, <1>7, <1>8 DEF Iterates

(* What a loop over a value makes of it, as long as the value keeps its    *)
(* type.                                                                   *)
Loops(f, m, f0, G) == f[0] = f0 /\ \A j \in 0..(m - 1) : f[j + 1] = G[j][f[j]]

LEMMA LoopExists ==
  ASSUME NEW m \in Nat, NEW V, NEW f0 \in V, NEW G \in [0..(m - 1) -> [V -> V]]
  PROVE  \E f \in [0..m -> V] : Loops(f, m, f0, G)
<1> DEFINE H == [j \in Nat |-> IF j < m THEN G[j] ELSE [x \in V |-> x]]
<1>1. H \in [Nat -> [V -> V]] /\ \A j \in 0..(m - 1) : H[j] = G[j]
  <2>1. [x \in V |-> x] \in [V -> V]
    OBVIOUS
  <2>2. \A j \in Nat : j < m => j \in 0..(m - 1)
    OBVIOUS
  <2>3. QED
    BY <2>1, <2>2
<1> HIDE DEF H
<1>2. \E f \in [Nat -> V] : Iterates(f, f0, H)
  BY <1>1, RecursionExists, Zenon
<1>3. PICK f \in [Nat -> V] : f[0] = f0 /\ \A j \in Nat : f[j + 1] = H[j][f[j]]
  BY <1>2 DEF Iterates
<1> DEFINE g == [j \in 0..m |-> f[j]]
<1>4. g \in [0..m -> V] /\ g[0] = f0
  BY <1>3
<1>5. ASSUME NEW j \in 0..(m - 1) PROVE g[j + 1] = G[j][g[j]]
  <2>1. j \in Nat /\ j \in 0..m /\ j + 1 \in 0..m
    OBVIOUS
  <2>2. QED
    BY <1>1, <1>3, <2>1
<1> HIDE DEF g
<1>6. QED
  BY <1>4, <1>5 DEF Loops

-----------------------------------------------------------------------------
(* Remainders and quotients.                                               *)

LEMMA ModUnique ==
  ASSUME NEW d \in Nat \ {0}, NEW c \in Int, NEW r \in 0..(d - 1)
  PROVE  (c * d + r) % d = r /\ (c * d + r) \div d = c
<1> DEFINE x == c * d + r
<1>1. x \in Int
  OBVIOUS
<1>2. x % d \in 0..(d - 1) /\ x \div d \in Int /\ x = (x \div d) * d + (x % d)
  BY <1>1, SMTT(30)
<1> DEFINE q == x \div d
           s == x % d
<1>3. (q - c) * d = r - s /\ r - s < d /\ r - s > -d
  BY <1>2, SMTT(30)
<1>4. q \in Int /\ q - c \in Int /\ s \in Int /\ d \in Nat /\ d > 0
  BY <1>2
<1> HIDE DEF q, s, x
<1>5. q - c = 0
  <2>1. CASE q - c >= 1
    <3>1. (q - c) * d >= d
      BY <1>4, <2>1, SMTT(30)
    <3>2. QED
      BY <1>3, <1>4, <3>1 
  <2>2. CASE q - c <= -1
    <3>1. (q - c) * d <= -d
      BY <1>4, <2>2, SMTT(30)
    <3>2. QED
      BY <1>3, <1>4, <3>1
  <2>3. QED
    BY <1>4, <2>1, <2>2
<1>6. q = c
  BY <1>4, <1>5
<1>7. s = r
  BY <1>3, <1>4, <1>5
<1>8. QED
  BY <1>6, <1>7 DEF q, s, x

LEMMA ModSplits ==
  ASSUME NEW d \in Nat \ {0}, NEW x \in Int
  PROVE  /\ x % d \in 0..(d - 1) /\ x \div d \in Int
         /\ x = (x \div d) * d + (x % d)
BY SMTT(30)

LEMMA Remainder ==
  ASSUME NEW d \in Nat \ {0}, NEW x \in Int
  PROVE  /\ x % d \in 0..(d - 1)
         /\ \E k \in Int : x = k * d + (x % d)
  <1>1. x % d \in 0..(d - 1) /\ x \div d \in Int /\ x = (x \div d) * d + (x % d)
    BY ModSplits
  <1> QED BY <1>1

LEMMA RemainderIs ==
  ASSUME NEW d \in Nat \ {0}, NEW k \in Int, NEW r \in 0..(d - 1), NEW x \in Int,
         x = k * d + r
  PROVE  x % d = r
  BY ModUnique

LEMMA RemainderOfSmall ==
  ASSUME NEW d \in Nat \ {0}, NEW r \in 0..(d - 1)
  PROVE  r % d = r
  BY RemainderIs, SMT

-----------------------------------------------------------------------------
(* Powers of two.                                                          *)

LEMMA Pow2Recurrence ==
  /\ pow2[0] = 1
  /\ \A j \in Nat : pow2[j + 1] = 2 * pow2[j]
<1> DEFINE G == [j \in Nat |-> [x \in Int |-> 2 * x]]
<1>1. G \in [Nat -> [Int -> Int]] /\ 1 \in Int
  OBVIOUS
<1>2. PICK f \in [Nat -> Int] : f[0] = 1 /\ \A j \in Nat : f[j + 1] = G[j][f[j]]
  <2> HIDE DEF G
  <2>1. \E f \in [Nat -> Int] : Iterates(f, 1, G)
    BY <1>1, RecursionExists, Zenon
  <2>2. QED
    BY <2>1 DEF Iterates
<1>3. ASSUME NEW j \in Nat PROVE f[j] = IF j = 0 THEN 1 ELSE 2 * f[j - 1]
  <2>1. CASE j = 0
    BY <1>2, <2>1
  <2>2. CASE j # 0
    <3>1. j - 1 \in Nat /\ (j - 1) + 1 = j
      BY <2>2
    <3>2. f[(j - 1) + 1] = 2 * f[j - 1]
      BY <1>2, <3>1
    <3>3. QED
      BY <2>2, <3>1, <3>2
  <2>3. QED
    BY <2>1, <2>2
<1>4. f = [j \in Nat |-> IF j = 0 THEN 1 ELSE 2 * f[j - 1]]
  BY <1>2, <1>3
<1>5. pow2 = [j \in Nat |-> IF j = 0 THEN 1 ELSE 2 * pow2[j - 1]]
  BY <1>4, Zenon DEF pow2
<1>6. QED
  BY <1>5

LEMMA Pow2Positive == \A j \in Nat : pow2[j] \in Nat \ {0}
<1> DEFINE S == {j \in Nat : pow2[j] \in Nat \ {0}}
<1>1. 0 \in S
  BY Pow2Recurrence
<1>2. ASSUME NEW j \in Nat, j \in S PROVE j + 1 \in S
  BY <1>2, Pow2Recurrence
<1> HIDE DEF S
<1>3. \A j \in Nat : j \in S
  BY <1>1, <1>2, Induction
<1>4. QED
  BY <1>3 DEF S

LEMMA Pow2Adds ==
  ASSUME NEW a \in Nat, NEW b \in Nat
  PROVE  pow2[a + b] = pow2[a] * pow2[b]
<1> DEFINE S == {j \in Nat : pow2[a + j] = pow2[a] * pow2[j]}
<1>1. 0 \in S
  BY Pow2Recurrence, Pow2Positive
<1>2. ASSUME NEW j \in Nat, j \in S PROVE j + 1 \in S
  <2>1. pow2[(a + j) + 1] = 2 * pow2[a + j] /\ pow2[j + 1] = 2 * pow2[j]
    BY Pow2Recurrence
  <2>2. pow2[a] \in Nat /\ pow2[j] \in Nat
    BY Pow2Positive
  <2>3. 2 * (pow2[a] * pow2[j]) = pow2[a] * (2 * pow2[j])
    BY <2>2
  <2>4. QED
    BY <1>2, <2>1, <2>3, a + (j + 1) = (a + j) + 1
<1> HIDE DEF S
<1>3. \A j \in Nat : j \in S
  BY <1>1, <1>2, Induction
<1>4. QED
  BY <1>3 DEF S

LEMMA Pow2Exceeds == \A j \in Nat : j < pow2[j]
<1> DEFINE S == {j \in Nat : j < pow2[j]}
<1>1. 0 \in S
  BY Pow2Recurrence
<1>2. ASSUME NEW j \in Nat, j \in S PROVE j + 1 \in S
  BY <1>2, Pow2Recurrence, Pow2Positive
<1> HIDE DEF S
<1>3. \A j \in Nat : j \in S
  BY <1>1, <1>2, Induction
<1>4. QED
  BY <1>3 DEF S

LEMMA Pow2Grows ==
  ASSUME NEW a \in Nat, NEW b \in Nat, a <= b
  PROVE  pow2[a] <= pow2[b]
<1>1. b - a \in Nat /\ a + (b - a) = b
  OBVIOUS
<1>2. pow2[a] \in Nat \ {0} /\ pow2[b - a] \in Nat \ {0}
  BY <1>1, Pow2Positive
<1>3. pow2[b] = pow2[a] * pow2[b - a]
  BY <1>1, Pow2Adds
<1>4. pow2[a] * pow2[b - a] >= pow2[a]
  BY <1>2
<1>5. QED
  BY <1>2, <1>3, <1>4

-----------------------------------------------------------------------------
(* A sum over 0..(m - 1), as it is defined wherever one is needed.         *)

Summing(m, d, f) == f = [j \in 0..m |-> IF j = 0 THEN 0 ELSE f[j - 1] + d[j - 1]]

LEMMA SumExists ==
  ASSUME NEW m \in Nat, NEW d \in [0..(m - 1) -> Int]
  PROVE  \E f : Summing(m, d, f)
<1> DEFINE G == [j \in Nat |-> [x \in Int |-> IF j < m THEN x + d[j] ELSE x]]
<1>1. G \in [Nat -> [Int -> Int]] /\ 0 \in Int
  OBVIOUS
<1>2. PICK g \in [Nat -> Int] : g[0] = 0 /\ \A j \in Nat : g[j + 1] = G[j][g[j]]
  <2> HIDE DEF G
  <2>1. \E g \in [Nat -> Int] : Iterates(g, 0, G)
    BY <1>1, RecursionExists, Zenon
  <2>2. QED
    BY <2>1 DEF Iterates
<1> DEFINE f == [j \in 0..m |-> g[j]]
<1>3. ASSUME NEW j \in 0..m PROVE f[j] = IF j = 0 THEN 0 ELSE f[j - 1] + d[j - 1]
  <2>1. CASE j = 0
    BY <1>2, <2>1
  <2>2. CASE j # 0
    <3>1. j - 1 \in Nat /\ j - 1 < m /\ (j - 1) + 1 = j /\ j - 1 \in 0..m
      BY <2>2
    <3>2. g[(j - 1) + 1] = g[j - 1] + d[j - 1]
      BY <1>2, <3>1
    <3>3. QED
      BY <2>2, <3>1, <3>2
  <2>3. QED
    BY <2>1, <2>2
<1>4. f = [j \in 0..m |-> IF j = 0 THEN 0 ELSE f[j - 1] + d[j - 1]]
  BY <1>3
<1>5. QED
  BY <1>4 DEF Summing

LEMMA SumTyped ==
  ASSUME NEW m \in Nat, NEW d \in [0..(m - 1) -> Int],
         NEW f, Summing(m, d, f)
  PROVE  /\ f \in [0..m -> Int]
         /\ f[0] = 0
         /\ \A j \in 0..(m - 1) : f[j + 1] = f[j] + d[j]
<1>1. f[0] = 0
  BY DEF Summing
<1>2. ASSUME NEW j \in 0..(m - 1) PROVE f[j + 1] = f[j] + d[j]
  <2>1. j + 1 \in 0..m /\ j + 1 # 0 /\ (j + 1) - 1 = j
    OBVIOUS
  <2>2. QED
    BY <2>1 DEF Summing
<1> DEFINE S == {j \in Nat : j <= m => f[j] \in Int}
<1>3. 0 \in S
  BY <1>1
<1>4. ASSUME NEW j \in Nat, j \in S PROVE j + 1 \in S
  <2> SUFFICES ASSUME j + 1 <= m PROVE f[j + 1] \in Int
    OBVIOUS
  <2>1. j \in 0..(m - 1) /\ j <= m
    OBVIOUS
  <2>2. d[j] \in Int /\ f[j] \in Int
    BY <1>4, <2>1
  <2>3. QED
    BY <1>2, <2>1, <2>2
<1> HIDE DEF S
<1>5. \A j \in Nat : j \in S
  BY <1>3, <1>4, Induction
<1>6. ASSUME NEW j \in 0..m PROVE f[j] \in Int
  <2>1. j \in Nat /\ j <= m
    OBVIOUS
  <2>2. QED
    BY <1>5, <2>1, Zenon DEF S
<1>7. f \in [0..m -> Int]
  BY <1>6 DEF Summing
<1>8. QED
  BY <1>1, <1>2, <1>7

LEMMA SumSteps ==
  ASSUME NEW m \in Nat, NEW f \in [0..(m - 1) -> Int]
  PROVE  \E s \in [0..m -> Int] :
           /\ s[0] = 0
           /\ \A j \in 0..(m - 1) : s[j + 1] = s[j] + f[j]
           /\ Sum(f, m) = s[m]
  <1> DEFINE sum[j \in 0..m] == IF j = 0 THEN 0 ELSE sum[j - 1] + f[j - 1]
  <1>1. PICK s : Summing(m, f, s) /\ Sum(f, m) = s[m]
    <2>1. \E g : g = [j \in 0..m |-> IF j = 0 THEN 0 ELSE g[j - 1] + f[j - 1]]
      BY SumExists, Zenon DEF Summing
    <2>2. Summing(m, f, sum) BY <2>1, Zenon DEF Summing
    <2>3. Sum(f, m) = sum[m] BY Zenon DEF Sum, sum
    <2> HIDE DEF sum
    <2> QED BY <2>2, <2>3
  <1>2. /\ s \in [0..m -> Int]
        /\ s[0] = 0
        /\ \A j \in 0..(m - 1) : s[j + 1] = s[j] + f[j]
    <2>1. Summing(m, f, s) BY <1>1
    <2> QED BY <2>1, SumTyped, ZenonT(30)
  <1> QED BY <1>1, <1>2

(* A sum is what its partial sums end in. *)
LEMMA SumIs ==
  ASSUME NEW m \in Nat, NEW f \in [0..(m - 1) -> Int],
         NEW s \in [0..m -> Int], s[0] = 0,
         \A j \in 0..(m - 1) : s[j + 1] = s[j] + f[j]
  PROVE  Sum(f, m) = s[m]
  <1>1. PICK r \in [0..m -> Int] :
          /\ r[0] = 0
          /\ \A j \in 0..(m - 1) : r[j + 1] = r[j] + f[j]
          /\ Sum(f, m) = r[m]
    BY SumSteps
  <1> DEFINE S == {j \in Nat : j <= m => r[j] = s[j]}
  <1>2. 0 \in S BY <1>1
  <1>3. ASSUME NEW j \in Nat, j \in S PROVE j + 1 \in S
    <2> SUFFICES ASSUME j + 1 <= m PROVE r[j + 1] = s[j + 1] OBVIOUS
    <2>1. j \in 0..(m - 1) /\ j <= m OBVIOUS
    <2> QED BY <1>1, <1>3, <2>1
  <1> HIDE DEF S
  <1>4. \A j \in Nat : j \in S BY <1>2, <1>3, Induction, Zenon
  <1>5. r[m] = s[m] BY <1>4 DEF S
  <1> QED BY <1>1, <1>5

(* The sum of the differences is the difference of the sums. *)
LEMMA SumOfDifferences ==
  ASSUME NEW m \in Nat, NEW f \in [0..(m - 1) -> Int], NEW g \in [0..(m - 1) -> Int]
  PROVE  /\ Sum(f, m) \in Int /\ Sum(g, m) \in Int
         /\ Sum([j \in 0..(m - 1) |-> f[j] - g[j]], m) = Sum(f, m) - Sum(g, m)
  <1>1. PICK s \in [0..m -> Int] :
          /\ s[0] = 0
          /\ \A j \in 0..(m - 1) : s[j + 1] = s[j] + f[j]
          /\ Sum(f, m) = s[m]
    BY SumSteps
  <1>2. PICK r \in [0..m -> Int] :
          /\ r[0] = 0
          /\ \A j \in 0..(m - 1) : r[j + 1] = r[j] + g[j]
          /\ Sum(g, m) = r[m]
    BY SumSteps
  <1>3. PICK h \in [0..(m - 1) -> Int] : h = [j \in 0..(m - 1) |-> f[j] - g[j]]
    <2>1. [j \in 0..(m - 1) |-> f[j] - g[j]] \in [0..(m - 1) -> Int] OBVIOUS
    <2> QED BY <2>1
  <1>4. PICK d \in [0..m -> Int] : d = [j \in 0..m |-> s[j] - r[j]]
    <2>1. [j \in 0..m |-> s[j] - r[j]] \in [0..m -> Int] BY <1>1, <1>2
    <2> QED BY <2>1
  <1>5. d[0] = 0 BY <1>1, <1>2, <1>4
  <1>6. ASSUME NEW j \in 0..(m - 1) PROVE d[j + 1] = d[j] + h[j]
    <2>1. j \in 0..m /\ j + 1 \in 0..m OBVIOUS
    <2>2. d[j + 1] = s[j + 1] - r[j + 1] /\ d[j] = s[j] - r[j] /\ h[j] = f[j] - g[j]
      BY <1>3, <1>4, <2>1
    <2>3. s[j] \in Int /\ r[j] \in Int /\ f[j] \in Int /\ g[j] \in Int BY <2>1
    <2> QED BY <1>1, <1>2, <2>2, <2>3
  <1>7. Sum(h, m) = d[m] BY <1>5, <1>6, SumIs
  <1>8. m \in 0..m OBVIOUS
  <1> QED BY <1>1, <1>2, <1>3, <1>4, <1>7, <1>8

LEMMA Distributes ==
  ASSUME NEW x \in Int, NEW y \in Int, NEW z \in Int
  PROVE  x * (y + z) = x * y + x * z
  OBVIOUS

LEMMA SumInt ==
  ASSUME NEW m \in Nat, NEW f \in [0..(m - 1) -> Int]
  PROVE  Sum(f, m) \in Int
  <1>1. PICK s \in [0..m -> Int] : Sum(f, m) = s[m] BY SumSteps
  <1>2. m \in 0..m OBVIOUS
  <1> QED BY <1>1, <1>2

LEMMA Scales ==
  ASSUME NEW c \in Int, NEW x \in Int, NEW y \in Int, NEW z \in Int, NEW w \in Int
  PROVE  (x + c * y) + (z + c * w) = (x + z) + c * (y + w)
  <1>1. c * (y + w) = c * y + c * w BY Distributes
  <1>2. c * y \in Int /\ c * w \in Int OBVIOUS
  <1> QED BY <1>1, <1>2

LEMMA SumLinear ==
  ASSUME NEW m \in Nat, NEW f \in [0..(m - 1) -> Int], NEW g \in [0..(m - 1) -> Int],
         NEW c \in Int
  PROVE  /\ Sum(f, m) \in Int /\ Sum(g, m) \in Int
         /\ Sum([j \in 0..(m - 1) |-> f[j] + c * g[j]], m) = Sum(f, m) + c * Sum(g, m)
  <1>1. PICK s \in [0..m -> Int] :
          /\ s[0] = 0
          /\ \A j \in 0..(m - 1) : s[j + 1] = s[j] + f[j]
          /\ Sum(f, m) = s[m]
    BY SumSteps
  <1>2. PICK r \in [0..m -> Int] :
          /\ r[0] = 0
          /\ \A j \in 0..(m - 1) : r[j + 1] = r[j] + g[j]
          /\ Sum(g, m) = r[m]
    BY SumSteps
  <1>3. PICK h \in [0..(m - 1) -> Int] : h = [j \in 0..(m - 1) |-> f[j] + c * g[j]]
    <2>1. [j \in 0..(m - 1) |-> f[j] + c * g[j]] \in [0..(m - 1) -> Int] OBVIOUS
    <2> QED BY <2>1
  <1>4. PICK d \in [0..m -> Int] : d = [j \in 0..m |-> s[j] + c * r[j]]
    <2>1. [j \in 0..m |-> s[j] + c * r[j]] \in [0..m -> Int] BY <1>1, <1>2
    <2> QED BY <2>1
  <1>5. d[0] = 0
    <2>1. d[0] = s[0] + c * r[0] BY <1>4
    <2> QED BY <1>1, <1>2, <2>1
  <1>6. ASSUME NEW j \in 0..(m - 1) PROVE d[j + 1] = d[j] + h[j]
    <2>1. j \in 0..m /\ j + 1 \in 0..m OBVIOUS
    <2>2. d[j + 1] = s[j + 1] + c * r[j + 1] /\ d[j] = s[j] + c * r[j]
          /\ h[j] = f[j] + c * g[j]
      BY <1>3, <1>4, <2>1
    <2>3. s[j] \in Int /\ r[j] \in Int /\ f[j] \in Int /\ g[j] \in Int BY <2>1
    <2>4. (s[j] + c * r[j]) + (f[j] + c * g[j]) = (s[j] + f[j]) + c * (r[j] + g[j])
      <3>1. PICK x \in Int, y \in Int, z \in Int, w \in Int :
              x = s[j] /\ y = r[j] /\ z = f[j] /\ w = g[j]
        BY <2>3
      <3>2. (x + c * y) + (z + c * w) = (x + z) + c * (y + w) BY Scales
      <3> QED BY <3>1, <3>2
    <2> QED BY <1>1, <1>2, <2>2, <2>4
  <1>7. Sum(h, m) = d[m] BY <1>5, <1>6, SumIs
  <1>8. m \in 0..m OBVIOUS
  <1> QED BY <1>1, <1>2, <1>3, <1>4, <1>7, <1>8

LEMMA SumOfZeros ==
  ASSUME NEW m \in Nat
  PROVE  Sum([j \in 0..(m - 1) |-> 0], m) = 0
  <1>1. PICK f \in [0..(m - 1) -> Int], s \in [0..m -> Int] :
          f = [j \in 0..(m - 1) |-> 0] /\ s = [j \in 0..m |-> 0]
    <2>1. [j \in 0..(m - 1) |-> 0] \in [0..(m - 1) -> Int] OBVIOUS
    <2>2. [j \in 0..m |-> 0] \in [0..m -> Int] OBVIOUS
    <2> QED BY <2>1, <2>2
  <1>2. s[0] = 0 /\ s[m] = 0 /\ \A j \in 0..(m - 1) : s[j + 1] = s[j] + f[j] BY <1>1
  <1>3. Sum(f, m) = s[m] BY <1>2, SumIs
  <1> QED BY <1>1, <1>2, <1>3

(* One more term. *)
LEMMA SumNext ==
  ASSUME NEW m \in Nat, NEW f \in [0..m -> Int], NEW g \in [0..(m - 1) -> Int],
         \A j \in 0..(m - 1) : g[j] = f[j]
  PROVE  Sum(g, m) \in Int /\ Sum(f, m + 1) = Sum(g, m) + f[m]
  <1>0. m + 1 \in Nat /\ (m + 1) - 1 = m OBVIOUS
  <1>1. PICK s \in [0..(m + 1) -> Int] :
          /\ s[0] = 0
          /\ \A j \in 0..m : s[j + 1] = s[j] + f[j]
          /\ Sum(f, m + 1) = s[m + 1]
    <2>1. f \in [0..((m + 1) - 1) -> Int] BY <1>0
    <2>2. \E s \in [0..(m + 1) -> Int] :
            /\ s[0] = 0
            /\ \A j \in 0..((m + 1) - 1) : s[j + 1] = s[j] + f[j]
            /\ Sum(f, m + 1) = s[m + 1]
      BY <1>0, <2>1, SumSteps, Zenon
    <2> QED BY <1>0, <2>2
  <1>2. PICK r \in [0..m -> Int] : r = [j \in 0..m |-> s[j]]
    <2>1. [j \in 0..m |-> s[j]] \in [0..m -> Int] OBVIOUS
    <2> QED BY <2>1
  <1>3. r[0] = 0 /\ r[m] = s[m] /\ m \in 0..m BY <1>1, <1>2
  <1>4. \A j \in 0..(m - 1) : r[j + 1] = r[j] + g[j] BY <1>1, <1>2
  <1>5. Sum(g, m) = r[m] BY <1>3, <1>4, SumIs
  <1> QED BY <1>1, <1>3, <1>5

(* Sums of terms that differ in one place. *)
LEMMA SumButOne ==
  ASSUME NEW m \in Nat, NEW f \in [0..(m - 1) -> Int], NEW g \in [0..(m - 1) -> Int],
         NEW k \in 0..(m - 1), \A j \in 0..(m - 1) : j # k => f[j] = g[j]
  PROVE  Sum(f, m) = Sum(g, m) + (f[k] - g[k])
  <1>1. PICK h \in [0..(m - 1) -> Int] : h = [j \in 0..(m - 1) |-> f[j] - g[j]]
    <2>1. [j \in 0..(m - 1) |-> f[j] - g[j]] \in [0..(m - 1) -> Int] OBVIOUS
    <2> QED BY <2>1
  <1>2. PICK s \in [0..m -> Int] : s = [j \in 0..m |-> IF j <= k THEN 0 ELSE f[k] - g[k]]
    <2>1. [j \in 0..m |-> IF j <= k THEN 0 ELSE f[k] - g[k]] \in [0..m -> Int] OBVIOUS
    <2> QED BY <2>1
  <1>3. s[0] = 0 /\ s[m] = f[k] - g[k] BY <1>2
  <1>4. ASSUME NEW j \in 0..(m - 1) PROVE s[j + 1] = s[j] + h[j]
    <2>1. f[k] \in Int /\ g[k] \in Int /\ f[j] \in Int /\ g[j] \in Int OBVIOUS
    <2>2. j \in 0..m /\ j + 1 \in 0..m OBVIOUS
    <2>3. h[j] = IF j = k THEN f[k] - g[k] ELSE 0 BY <1>1, <2>1
    <2>4. s[j] = IF j <= k THEN 0 ELSE f[k] - g[k] BY <1>2, <2>2
    <2>5. s[j + 1] = IF j + 1 <= k THEN 0 ELSE f[k] - g[k] BY <1>2, <2>2
    <2> QED BY <2>1, <2>3, <2>4, <2>5
  <1>5. Sum(h, m) = s[m] BY <1>3, <1>4, SumIs
  <1>6. Sum(f, m) \in Int /\ Sum(g, m) \in Int /\ Sum(h, m) = Sum(f, m) - Sum(g, m)
    BY <1>1, SumOfDifferences
  <1> QED BY <1>3, <1>5, <1>6

(* Rows first or columns first. *)
LEMMA SumExchanged ==
  ASSUME NEW m \in Nat, NEW k \in Nat, NEW f \in [0..(m - 1) -> [0..(k - 1) -> Int]]
  PROVE  Sum([i \in 0..(m - 1) |-> Sum([j \in 0..(k - 1) |-> f[i][j]], k)], m)
       = Sum([j \in 0..(k - 1) |-> Sum([i \in 0..(m - 1) |-> f[i][j]], m)], k)
  <1> DEFINE row(i) == [j \in 0..(k - 1) |-> f[i][j]]
             column(j, x) == [i \in 0..(x - 1) |-> f[i][j]]
             rows(x) == [i \in 0..(x - 1) |-> Sum(row(i), k)]
             columns(x) == [j \in 0..(k - 1) |-> Sum(column(j, x), x)]
             S == {x \in Nat : x <= m => Sum(rows(x), x) = Sum(columns(x), k)}
  <1>1. ASSUME NEW i \in 0..(m - 1)
        PROVE  row(i) \in [0..(k - 1) -> Int] /\ Sum(row(i), k) \in Int
    <2>1. row(i) \in [0..(k - 1) -> Int] OBVIOUS
    <2> HIDE DEF row
    <2> QED BY <2>1, SumInt
  <1>2. ASSUME NEW x \in Nat, x <= m
        PROVE  /\ rows(x) \in [0..(x - 1) -> Int]
               /\ columns(x) \in [0..(k - 1) -> Int]
               /\ \A j \in 0..(k - 1) : column(j, x) \in [0..(x - 1) -> Int]
    <2>1. \A i \in 0..(x - 1) : i \in 0..(m - 1) BY <1>2
    <2>2. rows(x) \in [0..(x - 1) -> Int]
      <3> HIDE DEF row
      <3> QED BY <1>1, <2>1
    <2>3. ASSUME NEW j \in 0..(k - 1)
          PROVE  column(j, x) \in [0..(x - 1) -> Int] /\ Sum(column(j, x), x) \in Int
      <3>1. column(j, x) \in [0..(x - 1) -> Int] BY <2>1
      <3> HIDE DEF column
      <3> QED BY <3>1, SumInt
    <2> HIDE DEF column, rows
    <2> QED BY <2>2, <2>3
  <1>3. 0 \in S
    <2>1. 0 <= m /\ 0 \in Nat OBVIOUS
    <2>2. rows(0) \in [0..(0 - 1) -> Int] BY <1>2, <2>1
    <2>3. Sum(rows(0), 0) = 0
      <3> HIDE DEF rows
      <3>1. PICK s \in [0..0 -> Int] : s[0] = 0 /\ Sum(rows(0), 0) = s[0]
        BY <2>2, SumSteps
      <3> QED BY <3>1
    <2>4. ASSUME NEW j \in 0..(k - 1) PROVE Sum(column(j, 0), 0) = 0
      <3>1. column(j, 0) \in [0..(0 - 1) -> Int] BY <1>2, <2>1
      <3> HIDE DEF column
      <3>2. PICK s \in [0..0 -> Int] : s[0] = 0 /\ Sum(column(j, 0), 0) = s[0]
        BY <3>1, SumSteps
      <3> QED BY <3>2
    <2>5. columns(0) = [j \in 0..(k - 1) |-> 0]
      <3> HIDE DEF column
      <3> QED BY <2>4
    <2>6. Sum(columns(0), k) = 0 BY <2>5, SumOfZeros
    <2> HIDE DEF rows, columns
    <2> QED BY <2>3, <2>6
  <1>4. ASSUME NEW x \in Nat, x \in S PROVE x + 1 \in S
    <2> SUFFICES ASSUME x + 1 <= m
                 PROVE  Sum(rows(x + 1), x + 1) = Sum(columns(x + 1), k)
      OBVIOUS
    <2>1. x <= m /\ x \in 0..(m - 1) /\ x + 1 \in Nat /\ (x + 1) - 1 = x OBVIOUS
    <2>2. Sum(rows(x), x) = Sum(columns(x), k) BY <1>4, <2>1
    <2>3. Sum(rows(x + 1), x + 1) = Sum(rows(x), x) + Sum(row(x), k)
      <3>1. rows(x + 1) \in [0..x -> Int] /\ rows(x) \in [0..(x - 1) -> Int]
        <4>1. rows(x + 1) \in [0..((x + 1) - 1) -> Int] BY <1>2, <2>1
        <4>2. rows(x) \in [0..(x - 1) -> Int] BY <1>2, <2>1
        <4> HIDE DEF rows
        <4> QED BY <2>1, <4>1, <4>2
      <3>2. rows(x + 1)[x] = Sum(row(x), k)
            /\ \A i \in 0..(x - 1) : rows(x)[i] = rows(x + 1)[i]
        <4> HIDE DEF row
        <4> QED BY <2>1
      <3> HIDE DEF rows
      <3> QED BY <3>1, <3>2, SumNext
    <2>4. ASSUME NEW j \in 0..(k - 1)
          PROVE  columns(x + 1)[j] = columns(x)[j] + 1 * row(x)[j]
      <3>1. column(j, x + 1) \in [0..x -> Int] /\ column(j, x) \in [0..(x - 1) -> Int]
        <4>1. column(j, x + 1) \in [0..((x + 1) - 1) -> Int] BY <1>2, <2>1
        <4>2. column(j, x) \in [0..(x - 1) -> Int] BY <1>2, <2>1
        <4> HIDE DEF column
        <4> QED BY <2>1, <4>1, <4>2
      <3>2. column(j, x + 1)[x] = row(x)[j] /\ row(x)[j] \in Int
            /\ \A i \in 0..(x - 1) : column(j, x)[i] = column(j, x + 1)[i]
        BY <2>1
      <3> HIDE DEF column, row
      <3>3. Sum(column(j, x + 1), x + 1) = Sum(column(j, x), x) + row(x)[j]
        BY <3>1, <3>2, SumNext
      <3> QED BY <3>2, <3>3
    <2>5. columns(x + 1) = [j \in 0..(k - 1) |-> columns(x)[j] + 1 * row(x)[j]]
      <3>1. columns(x + 1) = [j \in 0..(k - 1) |-> columns(x + 1)[j]]
        <4> HIDE DEF column
        <4> QED OBVIOUS
      <3> HIDE DEF columns, row
      <3> QED BY <2>4, <3>1
    <2>6. /\ columns(x) \in [0..(k - 1) -> Int] /\ row(x) \in [0..(k - 1) -> Int]
      BY <1>1, <1>2, <2>1
    <2> HIDE DEF rows, columns, row
    <2>7. Sum(columns(x + 1), k) = Sum(columns(x), k) + 1 * Sum(row(x), k)
          /\ Sum(row(x), k) \in Int
      <3>1. PICK g \in [0..(k - 1) -> Int], h \in [0..(k - 1) -> Int] :
              g = columns(x) /\ h = row(x)
        BY <2>6
      <3>2. Sum([j \in 0..(k - 1) |-> g[j] + 1 * h[j]], k) = Sum(g, k) + 1 * Sum(h, k)
            /\ Sum(h, k) \in Int
        <4>1. 1 \in Int OBVIOUS
        <4> QED BY <4>1, SumLinear, Zenon
      <3> QED BY <2>5, <3>1, <3>2
    <2> QED BY <2>2, <2>3, <2>7
  <1> HIDE DEF S
  <1>5. m \in S BY <1>3, <1>4, Induction
  <1>6. Sum(rows(m), m) = Sum(columns(m), k)
    <2> HIDE DEF rows, columns
    <2> QED BY <1>5 DEF S
  <1> QED BY <1>6

-----------------------------------------------------------------------------
(* What one gate does to a phase, for every torus scale and noise bounds   *)
(* within the budget.                                                      *)

LEMMA FarHalfInside ==
  ASSUME NEW p \in Int, Quarter <= p, p < 3 * Quarter
  PROVE  InFarHalf(p)
<1>1. 0 \in Turns /\ p + 0 * Turn = p
  BY GatesAssumption DEF Turns, Turn, GatesAssumption
<1>2. QED
  BY <1>1 DEF InFarHalf

(* HomXor of two ones comes round a full turn: hence j. *)
LEMMA FarHalfOutside ==
  ASSUME NEW p \in Int, NEW j \in {0, 1},
         -Quarter <= p - j * Turn, p - j * Turn < Quarter
  PROVE  ~InFarHalf(p)
<1> USE GatesAssumption DEF GatesAssumption, Turn, Quarter
<1> SUFFICES ASSUME NEW k \in Turns, Quarter <= p + k * Turn, p + k * Turn < 3 * Quarter
             PROVE  FALSE
  BY DEF InFarHalf
<1>1. PICK n \in Int : n = k + j
  BY DEF Turns
<1>2. p - j * Turn + n * Turn = p + k * Turn
  BY <1>1 DEF Turns
<1>3. n \in -3..4
  BY <1>1 DEF Turns
<1>4. CASE n \in 1..4
  BY <1>2, <1>4
<1>5. CASE n = 0
  BY <1>2, <1>5
<1>6. CASE n \in -3..-1
  BY <1>2, <1>6
<1>7. QED
  BY <1>3, <1>4, <1>5, <1>6

LEMMA NoiseTypes ==
  /\ LweNoise \in Nat /\ Fresh <= LweNoise /\ Boot + Switch <= LweNoise
  /\ Turn \in Nat /\ Quarter \in Nat /\ Eighth \in Nat
  /\ \A b \in Nat : Noise(b) \subseteq Int
  BY GatesAssumption DEF GatesAssumption, LweNoise, Turn, Quarter, Eighth, Noise

(* A bootstrap that decides for mu returns mu, and 0 otherwise, with fresh *)
(* noise.                                                                  *)
LEMMA BootstrapDecides ==
  ASSUME NEW mu \in Int, NEW p \in Int, NEW truth \in {0, 1}, NEW j \in {0, 1},
         truth = 1 => Quarter <= p - Drift /\ p + Drift < 3 * Quarter,
         truth = 0 => /\ -Quarter <= p - j * Turn - Drift
                      /\ p - j * Turn + Drift < Quarter
  PROVE  \A r \in GateBootstrap(mu, p) : r \in Int /\ r - mu * truth \in Noise(Boot)
<1> SUFFICES ASSUME NEW r \in GateBootstrap(mu, p)
             PROVE  r \in Int /\ r - mu * truth \in Noise(Boot)
  OBVIOUS
<1>1. PICK d \in Noise(Drift), e \in Noise(Boot) :
        r = (IF InFarHalf(p + d) THEN mu ELSE 0) + e
  BY DEF GateBootstrap
<1> USE GatesAssumption DEF GatesAssumption, Noise
<1>2. /\ d \in Int /\ -Drift <= d /\ d <= Drift
      /\ e \in Int /\ -Boot <= e /\ e <= Boot
  BY <1>1
<1>3. CASE truth = 1
  <2>1. InFarHalf(p + d)
    BY <1>2, <1>3, FarHalfInside, NoiseTypes
  <2>2. QED
    BY <1>1, <1>2, <1>3, <2>1
<1>4. CASE truth = 0
  <2> DEFINE y == p + d
  <2>0. y \in Int
    BY <1>2
  <2>1. -Quarter <= y - j * Turn /\ y - j * Turn < Quarter
    BY <1>2, <1>4, NoiseTypes
  <2> HIDE DEF y
  <2>2. ~InFarHalf(y)
    BY ONLY <2>0, <2>1, j \in {0, 1}, FarHalfOutside
  <2>3. QED
    BY <1>1, <1>2, <1>4, <2>2 DEF y
<1>5. QED
  BY <1>3, <1>4

(* Every gate computes its truth table on operands within the budget, and  *)
(* its result carries the noise of one bootstrap only.                     *)
LEMMA GateCorrect ==
  ASSUME GateBudget, NEW g \in HomGate, NEW a \in {0, 1}, NEW b \in {0, 1},
         NEW p \in Int, NEW q \in Int,
         p - Quarter * a \in Noise(LweNoise), q - Quarter * b \in Noise(LweNoise)
  PROVE  \A r \in GateBootstrap(Quarter, Linear(g, p, q)) :
           r \in Int /\ r - Quarter * Truth(g, a, b) \in Noise(Boot)
<1> USE GatesAssumption DEF GatesAssumption, Quarter, Eighth
<1> DEFINE x == Linear(g, p, q)  truth == Truth(g, a, b)
           j == IF g = "xor" /\ a = 1 /\ b = 1 THEN 1 ELSE 0
<1>1. x \in Int /\ truth \in {0, 1} /\ j \in {0, 1} /\ LweNoise \in Nat
  BY NoiseTypes DEF HomGate, Linear, HomAnd, HomAndNot, HomOr, HomXor, Truth
<1>0. /\ 2 * LweNoise + Drift < U
      /\ -LweNoise <= p - 2 * U * a /\ p - 2 * U * a <= LweNoise
      /\ -LweNoise <= q - 2 * U * b /\ q - 2 * U * b <= LweNoise
  BY <1>1 DEF GateBudget, Noise
<1>a. a = 0 \/ a = 1
  OBVIOUS
<1>b. b = 0 \/ b = 1
  OBVIOUS
<1>2. /\ truth = 1 => Quarter <= x - Drift /\ x + Drift < 3 * Quarter
      /\ truth = 0 => -Quarter <= x - j * Turn - Drift /\ x - j * Turn + Drift < Quarter
  <2>1. CASE g = "and"
    BY <1>0, <1>1, <1>a, <1>b, <2>1 DEF Linear, HomAnd, Truth, Turn
  <2>2. CASE g = "andnot"
    BY <1>0, <1>1, <1>a, <1>b, <2>2 DEF Linear, HomAndNot, Truth, Turn
  <2>3. CASE g = "or"
    BY <1>0, <1>1, <1>a, <1>b, <2>3 DEF Linear, HomOr, Truth, Turn
  <2>4. CASE g = "xor"
    BY <1>0, <1>1, <1>a, <1>b, <2>4 DEF Linear, HomXor, Truth, Turn
  <2>5. QED
    BY <2>1, <2>2, <2>3, <2>4 DEF HomGate
<1>3. QED
  BY <1>1, <1>2, BootstrapDecides DEF Turn

(* A key switch after a bootstrap stays within the noise a gate accepts. *)
LEMMA SwitchedNoise ==
  ASSUME NEW p \in Int, NEW m \in Int, p - m \in Noise(Boot)
  PROVE  \A q \in KeySwitch(p) : q \in Int /\ q - m \in Noise(LweNoise)
  BY GatesAssumption, NoiseTypes DEF GatesAssumption, KeySwitch, Noise
=============================================================================
