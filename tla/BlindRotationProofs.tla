------------------------- MODULE BlindRotationProofs -------------------------
(***************************************************************************)
(* Proofs about BlindRotation: the loop's invariant, and that the bootstrap *)
(* keeps the promise Gates' proofs start from.                             *)
(***************************************************************************)
EXTENDS BlindRotation, TLAPS

(* Of the lemmas shared with the gates' proofs these use only the          *)
(* arithmetic, which no constant of Gates enters.                          *)
Shared ==
  INSTANCE SharedLemmas WITH U <- 1, Fresh <- 0, Drift <- 0, Boot <- 0, Switch <- 0

-----------------------------------------------------------------------------
(* The scales of the torus and of the modulus 2N.                          *)

LEMMA NoGates == Shared!GatesAssumption
  BY DEF Shared!GatesAssumption

LEMMA PowersOfTwo ==
  /\ \A j \in Nat : pow2[j] \in Nat \ {0} /\ pow2[j + 1] = 2 * pow2[j]
  /\ \A j, k \in Nat : pow2[j + k] = pow2[j] * pow2[k]
  /\ \A j, k \in Nat : j <= k => pow2[j] <= pow2[k]
<1>1. Shared!pow2 = pow2
  BY DEF Shared!pow2, pow2
<1>2. \A j \in Nat : pow2[j] \in Nat \ {0}
  BY <1>1, Shared!Pow2Positive
<1>3. \A j \in Nat : pow2[j + 1] = 2 * pow2[j]
  BY <1>1, Shared!Pow2Recurrence
<1>4. ASSUME NEW j \in Nat, NEW k \in Nat PROVE pow2[j + k] = pow2[j] * pow2[k]
  BY <1>1, Shared!Pow2Adds
<1>5. ASSUME NEW j \in Nat, NEW k \in Nat, j <= k PROVE pow2[j] <= pow2[k]
  BY <1>1, <1>5, Shared!Pow2Grows
<1>6. QED
  BY <1>2, <1>3, <1>4, <1>5

(* A torus is 2N steps of the modulus 2N, a step is 2 * half, and the      *)
(* quarters of the circle are whole steps.                                 *)
LEMMA Scales ==
  /\ half \in Nat \ {0}
  /\ pow2[drop] = 2 * half
  /\ N \div 2 \in Nat \ {0}
  /\ N = 2 * (N \div 2)
  /\ M = 4 * (N \div 2)
  /\ Q = M * (2 * half)
  /\ Q \in Nat \ {0}
<1>0. /\ qbit \in Nat /\ N \in Nat /\ 2 * M <= Q
  BY BlindRotationAssumption DEF BlindRotationAssumption
<1>1. PICK j \in 1..qbit : N = pow2[j]
  BY BlindRotationAssumption DEF BlindRotationAssumption
<1>2. j - 1 \in Nat /\ (j - 1) + 1 = j /\ j \in Nat /\ j + 1 \in Nat
  BY <1>0
<1>3. N = 2 * pow2[j - 1] /\ pow2[j - 1] \in Nat \ {0}
  BY <1>1, <1>2, PowersOfTwo
<1>4. N \div 2 = pow2[j - 1]
  BY <1>3
<1>5. M = pow2[j + 1]
  BY <1>1, <1>2, PowersOfTwo DEF M
<1>6. j + 1 \in 1..qbit
  <2>1. pow2[(j + 1) + 1] <= pow2[qbit] /\ pow2[(j + 1) + 1] = 2 * pow2[j + 1]
    BY <1>0, <1>2, <1>5, PowersOfTwo DEF Q
  <2>2. ASSUME qbit < j + 1 PROVE FALSE
    <3>0. qbit <= j + 1
      BY <1>0, <1>2, <2>2
    <3>1. pow2[qbit] <= pow2[j + 1] /\ pow2[j + 1] \in Nat \ {0} /\ pow2[qbit] \in Nat
      BY <1>0, <1>2, <3>0, PowersOfTwo
    <3>2. QED
      BY <2>1, <3>1
  <2>3. QED
    BY <1>0, <1>2, <2>2
<1>7. PICK m \in 1..qbit : M = pow2[m] /\ drop = qbit - m
  <2>1. \E m \in 1..qbit : M = pow2[m]
    BY <1>5, <1>6
  <2>2. QED
    BY <2>1 DEF drop
<1>8. drop \in Nat /\ m \in Nat /\ m + drop = qbit
  BY <1>0, <1>7
<1>9. Q = M * pow2[drop] /\ Q \in Nat \ {0}
  BY <1>0, <1>7, <1>8, PowersOfTwo DEF Q
<1>10. drop # 0
  <2>1. SUFFICES ASSUME drop = 0 PROVE FALSE
    OBVIOUS
  <2>2. Q = M /\ M \in Nat \ {0}
    <3>1. m = qbit
      BY <1>0, <1>8, <2>1
    <3>2. QED
      BY <1>0, <1>7, <3>1, PowersOfTwo DEF Q
  <2>3. QED
    BY <1>0, <2>2
<1>11. drop - 1 \in Nat /\ (drop - 1) + 1 = drop
  BY <1>8, <1>10
<1>12. half \in Nat \ {0} /\ pow2[drop] = 2 * half
  BY <1>11, PowersOfTwo DEF half
<1>13. QED
  BY <1>3, <1>4, <1>9, <1>12 DEF M

LEMMA Splits ==
  ASSUME NEW d \in {N, M, Q}, NEW x \in Int
  PROVE  /\ x % d \in 0..(d - 1) /\ x \div d \in Int
         /\ x = (x \div d) * d + (x % d)
<1>1. d \in Nat \ {0}
  BY Scales
<1>2. QED
  BY <1>1, Shared!ModSplits

-----------------------------------------------------------------------------
(* Phases that are equal up to whole turns.                                *)

WholeTurns == {z * Q : z \in Int}

LEMMA TurnsAdd ==
  /\ WholeTurns \subseteq Int /\ 0 \in WholeTurns
  /\ \A x, y \in WholeTurns : x + y \in WholeTurns /\ x - y \in WholeTurns /\ -x \in WholeTurns
<1>1. Q \in Nat \ {0}
  BY Scales
<1>2. WholeTurns \subseteq Int /\ 0 \in WholeTurns
  <2>1. 0 * Q = 0
    BY <1>1
  <2>2. QED
    BY <1>1, <2>1 DEF WholeTurns
<1>3. ASSUME NEW x \in WholeTurns, NEW y \in WholeTurns
      PROVE  x + y \in WholeTurns /\ x - y \in WholeTurns /\ -x \in WholeTurns
  <2>1. PICK z \in Int, w \in Int : x = z * Q /\ y = w * Q
    BY DEF WholeTurns
  <2>2. x + y = (z + w) * Q /\ x - y = (z - w) * Q /\ -x = (-z) * Q
    BY <1>1, <2>1
  <2>3. z + w \in Int /\ z - w \in Int /\ -z \in Int
    OBVIOUS
  <2>4. QED
    BY <2>2, <2>3 DEF WholeTurns
<1>4. QED
  BY <1>2, <1>3

(* Reduction takes whole turns off, and nothing else. *)
LEMMA Reduction ==
  ASSUME NEW x \in Int
  PROVE  /\ x % Q \in 0..(Q - 1)
         /\ (x % Q) - x \in WholeTurns
         /\ x % Q = 0 <=> x \in WholeTurns
<1>1. Q \in Nat \ {0}
  BY Scales
<1>2. /\ x % Q \in 0..(Q - 1) /\ x \div Q \in Int
      /\ x = (x \div Q) * Q + (x % Q)
  BY <1>1, Shared!ModSplits
<1> DEFINE c == x \div Q  r == x % Q
<1>3. (x % Q) - x \in WholeTurns
  <2> HIDE DEF c, r
  <2>1. r - x = (-c) * Q /\ -c \in Int
    BY <1>1, <1>2 DEF c, r
  <2>2. QED
    BY <2>1 DEF WholeTurns, r
<1>4. x % Q = 0 => x \in WholeTurns
  <2> SUFFICES ASSUME x % Q = 0 PROVE x \in WholeTurns
    OBVIOUS
  <2> HIDE DEF c, r
  <2>1. r = 0 /\ c \in Int /\ x = c * Q + r
    BY <1>2 DEF c, r
  <2>2. x = c * Q
    BY <1>1, <2>1
  <2>3. QED
    BY <2>1, <2>2 DEF WholeTurns
<1>5. ASSUME x \in WholeTurns PROVE x % Q = 0
  <2>1. PICK z \in Int : x = z * Q
    BY <1>5 DEF WholeTurns
  <2>2. 0 \in 0..(Q - 1) /\ z * Q + 0 = x
    BY <1>1, <2>1
  <2>3. (z * Q + 0) % Q = 0
    BY <1>1, <2>2, Shared!ModUnique
  <2>4. QED
    BY <2>2, <2>3
<1>6. QED
  BY <1>2, <1>3, <1>4, <1>5

LEMMA SameResidue ==
  ASSUME NEW x \in Int, NEW r \in 0..(Q - 1), x - r \in WholeTurns
  PROVE  x % Q = r
<1>1. Q \in Nat \ {0}
  BY Scales
<1>2. PICK z \in Int : x - r = z * Q
  BY DEF WholeTurns
<1>3. x = z * Q + r
  BY <1>1, <1>2
<1>4. QED
  BY <1>1, <1>3, Shared!ModUnique

(* Near, without its remainder. *)
LEMMA NearTurns ==
  ASSUME NEW x \in Int, NEW y \in Int, NEW bound \in Nat
  PROVE  Near(x, y, bound) <=> \E d \in -bound..bound : x - y - d \in WholeTurns
<1>1. \A d \in -bound..bound : (x - y - d) % Q = 0 <=> x - y - d \in WholeTurns
  BY Reduction
<1>2. QED
  BY <1>1 DEF Near

LEMMA NearReduced ==
  ASSUME NEW x \in Int, NEW y \in Int, NEW bound \in Nat, Near(x, y, bound)
  PROVE  Near(x % Q, y, bound)
<1>1. PICK d \in -bound..bound : x - y - d \in WholeTurns
  BY NearTurns
<1>2. x % Q \in Int /\ (x % Q) - x \in WholeTurns
  BY Reduction
<1>3. ((x % Q) - x) + (x - y - d) \in WholeTurns
  BY <1>1, <1>2, TurnsAdd
<1>4. ((x % Q) - x) + (x - y - d) = (x % Q) - y - d
  BY <1>2
<1>5. QED
  BY <1>2, <1>3, <1>4, NearTurns

LEMMA NearNegated ==
  ASSUME NEW x \in Int, NEW y \in Int, NEW bound \in Nat, Near(x, y, bound)
  PROVE  Near(-x, -y, bound)
<1>1. PICK d \in -bound..bound : x - y - d \in WholeTurns
  BY NearTurns
<1>2. -(x - y - d) \in WholeTurns /\ -(x - y - d) = (-x) - (-y) - (-d)
  BY <1>1, TurnsAdd
<1>3. -d \in -bound..bound /\ -x \in Int /\ -y \in Int
  OBVIOUS
<1>4. QED
  BY <1>2, <1>3, NearTurns

LEMMA NearAddsError ==
  ASSUME NEW x \in Int, NEW y \in Int, NEW bound \in Nat, Near(x, y, bound),
         NEW more \in Nat, NEW e \in -more..more
  PROVE  Near(x + e, y, bound + more)
<1>1. PICK d \in -bound..bound : x - y - d \in WholeTurns
  BY NearTurns
<1>2. d + e \in -(bound + more)..(bound + more) /\ x + e \in Int /\ bound + more \in Nat
  OBVIOUS
<1>3. (x + e) - y - (d + e) = x - y - d
  OBVIOUS
<1>4. QED
  BY <1>1, <1>2, <1>3, NearTurns

-----------------------------------------------------------------------------
(* Rotation.                                                               *)

(* Positions on the circle of the 2N roots: the far half, where the test   *)
(* vector is mu/2.                                                         *)
Far(x) == x % M \in (N \div 2)..(3 * (N \div 2) - 1)

LEMMA PositionUnique ==
  ASSUME NEW x \in Int, NEW q \in Int, NEW r \in 0..(M - 1), x = q * M + r
  PROVE  x % M = r
<1>1. M \in Nat \ {0}
  BY Scales
<1>2. QED
  BY <1>1, Shared!ModUnique

(* N positions further is the opposite point. *)
LEMMA Opposite ==
  ASSUME NEW x \in Int, NEW w \in Int
  PROVE  Far(x + w * N) <=> IF w % 2 = 1 THEN ~Far(x) ELSE Far(x)
<1> DEFINE g == N \div 2
<1>0. g \in Nat \ {0} /\ N = 2 * g /\ M = 4 * g /\ M \in Nat \ {0}
  BY Scales
<1>a. x % M \in 0..(M - 1) /\ x \div M \in Int /\ x = (x \div M) * M + (x % M)
  BY Splits, Zenon
<1> DEFINE c == x \div M  r == x % M  t == w \div 2
<1>1. c \in Int /\ r \in 0..(M - 1) /\ x = c * M + r
  BY <1>a
<1>2. t \in Int /\ (w = 2 * t \/ w = 2 * t + 1) /\ (w % 2 = 1 <=> w = 2 * t + 1)
  OBVIOUS
<1> HIDE DEF g, c, r, t
<1>6. x + w * N \in Int
  BY <1>0
<1>3. CASE w = 2 * t
  <2>1. x + w * N = (c + t) * M + r /\ c + t \in Int
    BY <1>0, <1>1, <1>2, <1>3
  <2>2. (x + w * N) % M = r
    BY <1>0, <1>1, <1>6, <2>1, PositionUnique, Zenon
  <2>3. QED
    BY <1>2, <1>3, <2>2 DEF Far, r
<1>4. CASE w = 2 * t + 1
  <2>1. CASE r < N
    <3>1. x + w * N = (c + t) * M + (r + N) /\ c + t \in Int /\ r + N \in 0..(M - 1)
      BY <1>0, <1>1, <1>2, <1>4, <2>1
    <3>2. (x + w * N) % M = r + N
      BY <1>0, <1>6, <3>1, PositionUnique, Zenon
    <3>3. r + N \in g..(3 * g - 1) <=> ~(r \in g..(3 * g - 1))
      BY <1>0, <1>1, <2>1
    <3>4. QED
      BY <1>2, <1>4, <3>2, <3>3 DEF Far, r, g
  <2>2. CASE r >= N
    <3>1. /\ x + w * N = (c + t + 1) * M + (r - N)
          /\ c + t + 1 \in Int /\ r - N \in 0..(M - 1)
      BY <1>0, <1>1, <1>2, <1>4, <2>2
    <3>2. (x + w * N) % M = r - N
      BY <1>0, <1>6, <3>1, PositionUnique, Zenon
    <3>3. r - N \in g..(3 * g - 1) <=> ~(r \in g..(3 * g - 1))
      BY <1>0, <1>1, <2>2
    <3>4. QED
      BY <1>2, <1>4, <3>2, <3>3 DEF Far, r, g
  <2>3. QED
    BY <1>0, <1>1, <2>1, <2>2
<1>5. QED
  BY <1>2, <1>3, <1>4

(* A coefficient of a rotated polynomial is the one w whole lengths round, *)
(* negated when w is odd.                                                  *)
LEMMA RotateSource ==
  ASSUME NEW p, NEW m \in Int, NEW j \in Coefficients
  PROVE  \E src \in Coefficients, w \in Int :
           /\ src = (j - m) + w * N
           /\ rotate(p, m)[j] = IF w % 2 = 1 THEN (-p[src]) % Q ELSE p[src]
<1>1. N \in Nat \ {0} /\ M \in Nat \ {0} /\ M = 2 * N /\ j \in 0..(N - 1)
  BY Scales DEF Coefficients
<1>2. /\ m % M \in 0..(M - 1) /\ m \div M \in Int
      /\ m = (m \div M) * M + (m % M)
  BY Splits, Zenon
<1> DEFINE by == m % M  t == m \div M
<1>3. by \in 0..(M - 1) /\ t \in Int /\ m = t * M + by
  BY <1>2
<1> HIDE DEF by, t
<1> DEFINE start == j + M - by
<1>4. start \in Int
  BY <1>1, <1>3
<1> DEFINE src == start % N
           c == start \div N
<1>5. src \in 0..(N - 1) /\ c \in Int /\ start = c * N + src
  <2> HIDE DEF start
  <2>1. QED
    BY <1>4, Splits, Zenon
<1> HIDE DEF src, c
<1> DEFINE v == 2 - c  w == v + 2 * t
<1>6. v \in Int /\ w \in Int /\ src + by = v * N + j
  BY <1>1, <1>3, <1>5
<1>7. (src + by) \div N = v
  <2> HIDE DEF v
  <2>1. (v * N + j) \div N = v
    BY <1>1, <1>6, NoGates, Shared!ModUnique, ZenonT(30)
  <2>2. QED
    BY <1>6, <2>1
<1>8. src = (j - m) + w * N
  <2>1. w * N = v * N + t * M
    BY <1>1, <1>3, <1>6
  <2>2. w * N \in Int /\ v * N \in Int /\ t * M \in Int
    BY <1>1, <1>3, <1>6
  <2> HIDE DEF w, v
  <2>3. QED
    BY <1>1, <1>3, <1>5, <1>6, <2>1, <2>2
<1>9. v % 2 = 1 <=> w % 2 = 1
  BY <1>3, <1>6
<1>10. rotate(p, m)[j] = IF v % 2 = 1 THEN (-p[src]) % Q ELSE p[src]
  BY <1>7 DEF rotate, by, src
<1>11. QED
  BY <1>5, <1>6, <1>8, <1>9, <1>10 DEF Coefficients

(* The test vector turned back by t positions and with noise: what each    *)
(* coefficient stands near.                                                *)
Sample(c, x) == IF Far(x) THEN c ELSE -c

(* Rotating it by m turns it by m further, and the signs come out right.   *)
LEMMA RotateTurns ==
  ASSUME NEW p \in [Coefficients -> Int], NEW c \in Int, NEW t \in Int, NEW m \in Int,
         NEW bound \in Nat,
         \A j \in Coefficients : Near(p[j], Sample(c, j + t), bound)
  PROVE  \A j \in Coefficients :
           /\ rotate(p, m)[j] \in Int
           /\ Near(rotate(p, m)[j], Sample(c, j + (t - m)), bound)
<1> SUFFICES ASSUME NEW j \in Coefficients
             PROVE  /\ rotate(p, m)[j] \in Int
                    /\ Near(rotate(p, m)[j], Sample(c, j + (t - m)), bound)
  OBVIOUS
<1>1. N \in Nat /\ j \in Int
  BY Scales DEF Coefficients
<1>2. PICK src \in Coefficients, w \in Int :
        /\ src = (j - m) + w * N
        /\ rotate(p, m)[j] = IF w % 2 = 1 THEN (-p[src]) % Q ELSE p[src]
  BY RotateSource
<1> DEFINE x == j + (t - m)
<1>3. x \in Int /\ src + t = x + w * N
  BY <1>1, <1>2
<1>4. p[src] \in Int /\ Near(p[src], Sample(c, x + w * N), bound)
  BY <1>3
<1> HIDE DEF x
<1>5. Far(x + w * N) <=> IF w % 2 = 1 THEN ~Far(x) ELSE Far(x)
  BY <1>3, Opposite
<1>6. CASE w % 2 = 1
  <2>1. -Sample(c, x + w * N) = Sample(c, x) /\ Sample(c, x + w * N) \in Int
    BY <1>5, <1>6 DEF Sample
  <2>2. Near(-p[src], Sample(c, x), bound) /\ -p[src] \in Int /\ Sample(c, x) \in Int
    BY <1>4, <2>1, NearNegated
  <2>3. (-p[src]) % Q \in Int /\ Near((-p[src]) % Q, Sample(c, x), bound)
    BY <2>2, NearReduced, Reduction
  <2>4. QED
    BY <1>2, <1>6, <2>3 DEF x
<1>7. CASE ~(w % 2 = 1)
  <2>1. Sample(c, x + w * N) = Sample(c, x)
    BY <1>5, <1>7 DEF Sample
  <2>2. QED
    BY <1>2, <1>4, <1>7, <2>1 DEF x
<1>8. QED
  BY <1>6, <1>7

-----------------------------------------------------------------------------
(* The mod switches, and what their roundings add up to.                   *)

Switched == amount = [j \in Dim |-> mod_switch(a[j])]

TypeOK ==
  /\ secret \in [Dim -> {0, 1}]
  /\ a \in [Dim -> 0..(Q - 1)]
  /\ b \in 0..(Q - 1)
  /\ mu \in 0..(Q - 1)
  /\ amount \in [Dim -> 0..(M - 1)]
  /\ cand0 \in [Coefficients -> Int]
  /\ i \in 0..n
  /\ pc \in {"start", "rotate", "done"}
  /\ out \in Int

LEMMA DotRecurrence ==
  ASSUME TypeOK, NEW x \in [Dim -> Int]
  PROVE  /\ Dot(x, 0) = 0
         /\ \A m \in 0..n : Dot(x, m) \in Int
         /\ \A m \in Dim : Dot(x, m + 1) = Dot(x, m) + x[m] * secret[m]
<1> DEFINE sum[j \in 0..n] == IF j = 0 THEN 0 ELSE sum[j - 1] + x[j - 1] * secret[j - 1]
<1>1. n \in Nat /\ Dim = 0..(n - 1)
  BY BlindRotationAssumption DEF BlindRotationAssumption, Dim
<1>2. PICK d \in [0..(n - 1) -> Int] : \A j \in Dim : d[j] = x[j] * secret[j]
  <2>1. ASSUME NEW j \in Dim PROVE x[j] * secret[j] \in Int
    BY DEF TypeOK
  <2>2. [j \in Dim |-> x[j] * secret[j]] \in [0..(n - 1) -> Int]
    BY <1>1, <2>1
  <2>3. QED
    BY <2>2
<1>3. PICK f : f = [j \in 0..n |-> IF j = 0 THEN 0 ELSE f[j - 1] + d[j - 1]]
  <2> HIDE DEF sum
  <2>1. QED
    BY <1>1, NoGates, Shared!SumExists, Zenon DEF Shared!Summing
<1>4. \A g : [j \in 0..n |-> IF j = 0 THEN 0 ELSE g[j - 1] + d[j - 1]]
             = [j \in 0..n |-> IF j = 0 THEN 0 ELSE g[j - 1] + x[j - 1] * secret[j - 1]]
  BY <1>1, <1>2
<1>5. sum = [j \in 0..n |-> IF j = 0 THEN 0 ELSE sum[j - 1] + x[j - 1] * secret[j - 1]]
  <2>1. f = [j \in 0..n |-> IF j = 0 THEN 0 ELSE f[j - 1] + x[j - 1] * secret[j - 1]]
    BY <1>3, <1>4
  <2>2. QED
    BY <2>1, Zenon
<1>6. \A m \in 0..n : Dot(x, m) = sum[m]
  BY Zenon DEF Dot, sum
<1>7. PICK g : Shared!Summing(n, d, g) /\ \A m \in 0..n : Dot(x, m) = g[m]
  <2> HIDE DEF sum
  <2>1. sum = [j \in 0..n |-> IF j = 0 THEN 0 ELSE sum[j - 1] + d[j - 1]]
    BY <1>4, <1>5
  <2>2. QED
    BY <1>6, <2>1 DEF Shared!Summing
<1> HIDE DEF sum
<1>8. /\ g \in [0..n -> Int]
      /\ g[0] = 0
      /\ \A j \in 0..(n - 1) : g[j + 1] = g[j] + d[j]
  <2>1. n \in Nat /\ Shared!Summing(n, d, g)
    BY <1>1, <1>7
  <2>2. QED
    BY <2>1, NoGates, Shared!SumTyped, ZenonT(30)
<1>9. Dot(x, 0) = 0 /\ \A m \in 0..n : Dot(x, m) \in Int
  BY <1>1, <1>7, <1>8
<1>10. ASSUME NEW m \in Dim PROVE Dot(x, m + 1) = Dot(x, m) + x[m] * secret[m]
  <2>1. m \in 0..n /\ m + 1 \in 0..n /\ m \in 0..(n - 1)
    BY <1>1
  <2>2. Dot(x, m + 1) = g[m + 1] /\ Dot(x, m) = g[m] /\ d[m] = x[m] * secret[m]
    BY <1>2, <1>7, <2>1
  <2>3. QED
    BY <1>8, <2>1, <2>2
<1>11. QED
  BY <1>9, <1>10

(* Rounding to the modulus 2N moves a value by half a step at most.        *)
LEMMA ModSwitchRounds ==
  ASSUME NEW raw \in Int
  PROVE  /\ mod_switch(raw) \in 0..(M - 1)
         /\ \E d \in -half..half : mod_switch(raw) * (2 * half) - raw - d \in WholeTurns
<1> DEFINE u == 2 * half
           x == raw + half
<1>1. half \in Nat \ {0} /\ M \in Nat \ {0} /\ u \in Nat \ {0} /\ x \in Int /\ Q = M * u
  BY Scales
<1> HIDE DEF x, u
<1>2. x % u \in 0..(u - 1) /\ x \div u \in Int /\ x = (x \div u) * u + (x % u)
  BY <1>1, Shared!ModSplits
<1> DEFINE w == x \div u  r == x % u
<1>3. w \in Int /\ r \in 0..(u - 1) /\ x = w * u + r
  BY <1>2
<1> HIDE DEF w, r
<1>4. w % M \in 0..(M - 1) /\ w \div M \in Int /\ w = (w \div M) * M + (w % M)
  BY <1>3, Splits, Zenon
<1> DEFINE c == w \div M  s == w % M
<1>5. s \in 0..(M - 1) /\ c \in Int /\ w = c * M + s
  BY <1>4
<1>6. mod_switch(raw) = s
  BY Scales DEF mod_switch, w, x, u
<1> HIDE DEF c, s
<1>7. s * u - raw - (half - r) = (-c) * Q
  <2>1. raw = w * u + r - half
    BY <1>1, <1>3 DEF x
  <2>2. w * u = c * Q + s * u
    BY <1>1, <1>3, <1>5
  <2>3. w * u \in Int /\ c * Q \in Int /\ s * u \in Int /\ (-c) * Q = -(c * Q)
    BY <1>1, <1>3, <1>5
  <2>4. QED
    BY <1>1, <1>3, <2>1, <2>2, <2>3
<1>8. half - r \in -half..half /\ -c \in Int
  BY <1>1, <1>3, <1>5 DEF u
<1>9. s * u - raw - (half - r) \in WholeTurns
  BY <1>7, <1>8 DEF WholeTurns
<1>10. QED
  BY <1>5, <1>6, <1>8, <1>9 DEF u

(* Each secret bit that is 1 lets the rounding of its coefficient through. *)
LEMMA DotDrifts ==
  ASSUME TypeOK, Switched
  PROVE  \A m \in 0..n : \E d \in -(m * half)..(m * half) :
           Dot(amount, m) * (2 * half) - Dot(a, m) - d \in WholeTurns
<1>1. n \in Nat /\ half \in Nat \ {0} /\ Dim = 0..(n - 1)
  BY Scales, BlindRotationAssumption DEF BlindRotationAssumption, Dim
<1>2. amount \in [Dim -> Int] /\ a \in [Dim -> Int]
  BY Scales DEF TypeOK
<1> DEFINE Off(m) == Dot(amount, m) * (2 * half) - Dot(a, m)
           T == {m \in Nat : m <= n => \E d \in -(m * half)..(m * half) :
                                          Off(m) - d \in WholeTurns}
<1>3. 0 \in T
  <2>1. Off(0) - 0 = 0 /\ 0 \in -(0 * half)..(0 * half)
    BY <1>1, <1>2, DotRecurrence
  <2>2. QED
    BY <2>1, TurnsAdd
<1>4. ASSUME NEW m \in Nat, m \in T PROVE m + 1 \in T
  <2> SUFFICES ASSUME m + 1 <= n
               PROVE  \E d \in -((m + 1) * half)..((m + 1) * half) :
                        Off(m + 1) - d \in WholeTurns
    OBVIOUS
  <2>1. m \in Dim /\ m \in 0..n /\ m + 1 \in 0..n
    BY <1>1
  <2>2. PICK d \in -(m * half)..(m * half) : Off(m) - d \in WholeTurns
    BY <1>4, <2>1
  <2>3. /\ Dot(amount, m + 1) = Dot(amount, m) + amount[m] * secret[m]
        /\ Dot(a, m + 1) = Dot(a, m) + a[m] * secret[m]
        /\ Dot(amount, m) \in Int /\ Dot(a, m) \in Int
        /\ amount[m] \in Int /\ a[m] \in Int
    BY <1>2, <2>1, DotRecurrence
  <2>4. m * half \in Nat /\ (m + 1) * half = m * half + half
    BY <1>1
  <2>5. secret[m] = 0 \/ secret[m] = 1
    BY <2>1 DEF TypeOK
  <2>6. CASE secret[m] = 0
    <3>1. Off(m + 1) - d = Off(m) - d
      BY <1>1, <2>3, <2>6
    <3>2. d \in -((m + 1) * half)..((m + 1) * half)
      BY <1>1, <2>4
    <3>3. QED
      BY <2>2, <3>1, <3>2
  <2>7. CASE secret[m] = 1
    <3>1. amount[m] = mod_switch(a[m])
      BY <2>1 DEF Switched
    <3>2. PICK e \in -half..half : amount[m] * (2 * half) - a[m] - e \in WholeTurns
      BY <2>3, <3>1, ModSwitchRounds
    <3>3. Off(m + 1) - (d + e) = (Off(m) - d) + (amount[m] * (2 * half) - a[m] - e)
      <4>1. /\ Dot(amount, m + 1) = Dot(amount, m) + amount[m]
            /\ Dot(a, m + 1) = Dot(a, m) + a[m]
        BY <2>3, <2>7
      <4>2. /\ (Dot(amount, m) + amount[m]) * (2 * half)
                = Dot(amount, m) * (2 * half) + amount[m] * (2 * half)
            /\ Dot(amount, m) * (2 * half) \in Int /\ amount[m] * (2 * half) \in Int
        BY <1>1, <2>3
      <4>3. d \in Int /\ e \in Int
        BY <1>1, <2>4
      <4>4. QED
        BY <2>3, <4>1, <4>2, <4>3
    <3>4. d + e \in -((m + 1) * half)..((m + 1) * half)
      BY <1>1, <2>4
    <3>5. (Off(m) - d) + (amount[m] * (2 * half) - a[m] - e) \in WholeTurns
      BY <2>2, <3>2, TurnsAdd
    <3>6. QED
      BY <3>3, <3>4, <3>5
  <2>8. QED
    BY <2>5, <2>6, <2>7
<1> HIDE DEF T
<1>5. \A m \in Nat : m \in T
  BY <1>3, <1>4, NoGates, Shared!Induction, Zenon
<1>6. QED
  BY <1>1, <1>5 DEF T

(* At the end of the loop the test vector has been turned by the phase, up *)
(* to the n + 1 roundings.                                                 *)
LEMMA TurnedIsPhase ==
  ASSUME TypeOK, Switched, i = n
  PROVE  /\ Turned \in Int /\ Phase \in 0..(Q - 1)
         /\ \E d \in -((n + 1) * half)..((n + 1) * half) :
              Turned * (2 * half) - Phase - d \in WholeTurns
<1>1. /\ n \in Nat /\ half \in Nat \ {0} /\ b \in Int /\ n \in 0..n
      /\ amount \in [Dim -> Int] /\ a \in [Dim -> Int] /\ M \in Nat
  BY Scales, BlindRotationAssumption DEF BlindRotationAssumption, TypeOK
<1> DEFINE A == Dot(a, n)
           D == Dot(amount, n)
           B == mod_switch(b)
<1>2. A \in Int /\ D \in Int
  BY <1>1, DotRecurrence
<1>3. PICK d \in -(n * half)..(n * half) : D * (2 * half) - A - d \in WholeTurns
  BY <1>1, DotDrifts
<1>4. B \in Int
  BY <1>1, ModSwitchRounds
<1>5. PICK e \in -half..half : B * (2 * half) - b - e \in WholeTurns
  BY <1>1, ModSwitchRounds
<1>6. Turned = B - D
  BY DEF Turned
<1> HIDE DEF A, D, B
<1>7. Phase \in 0..(Q - 1) /\ Phase - (b - A) \in WholeTurns
  BY <1>1, <1>2, Reduction DEF Phase, A
<1> DEFINE x == (B * (2 * half) - b - e) - (D * (2 * half) - A - d) - (Phase - (b - A))
<1>8. x \in WholeTurns
  BY <1>3, <1>5, <1>7, TurnsAdd
<1>9. Phase \in Int /\ Turned \in Int
  BY <1>2, <1>4, <1>6, <1>7, Scales
<1>10. (B - D) * (2 * half) = B * (2 * half) - D * (2 * half)
  BY <1>1, <1>2, <1>4
<1>11. B * (2 * half) \in Int /\ D * (2 * half) \in Int
  BY <1>1, <1>2, <1>4
<1>12. Turned * (2 * half) - Phase - (e - d) = x
  BY <1>1, <1>2, <1>4, <1>6, <1>9, <1>10, <1>11
<1>13. e - d \in -((n + 1) * half)..((n + 1) * half)
  BY <1>1
<1>14. QED
  BY <1>7, <1>8, <1>9, <1>12, <1>13

-----------------------------------------------------------------------------
(* The decision.                                                           *)

(* A deviation of more than half a turn decides like a smaller one.        *)
LEMMA SmallDeviation ==
  ASSUME NEW bound \in Nat, NEW d \in -bound..bound
  PROVE  \E e \in -bound..bound : /\ d - e \in WholeTurns
                                  /\ -Q <= 2 * e /\ 2 * e <= Q
<1> DEFINE h == (N \div 2) * (4 * half)
<1>1. h \in Nat \ {0} /\ Q = 2 * h /\ Q \in Nat \ {0}
  BY Scales
<1> HIDE DEF h
<1>2. CASE -h <= d /\ d <= h
  BY <1>1, <1>2, TurnsAdd
<1>3. CASE d < -h \/ d > h
  <2> DEFINE r == (d + h) % Q
  <2>1. r \in 0..(Q - 1) /\ r - (d + h) \in WholeTurns
    BY <1>1, Reduction
  <2> HIDE DEF r
  <2>2. -(r - (d + h)) \in WholeTurns /\ -(r - (d + h)) = d - (r - h)
    BY <1>1, <2>1, TurnsAdd
  <2>3. r - h \in -bound..bound /\ -Q <= 2 * (r - h) /\ 2 * (r - h) <= Q
    BY <1>1, <1>3, <2>1
  <2>4. QED
    BY <2>2, <2>3
<1>4. QED
  BY <1>1, <1>2, <1>3

LEMMA PromiseScales ==
  /\ Q \div 8 = (N \div 2) * half
  /\ Promise!Turn = Q
  /\ Promise!Quarter = (N \div 2) * (2 * half)
<1> DEFINE u == (N \div 2) * half
<1>1. u \in Nat \ {0} /\ Q = 8 * u /\ (N \div 2) * (2 * half) = 2 * u
  BY Scales
<1> HIDE DEF u
<1>2. Q \div 8 = u
  BY <1>1
<1>3. QED
  BY <1>1, <1>2 DEF u, Promise!Turn, Promise!Quarter

(* The far half of the modulus 2N is Gates' far half of the circle.        *)
LEMMA FarIsInFarHalf ==
  ASSUME NEW t \in Int, NEW p \in Int, t * (2 * half) - p \in WholeTurns,
         -Q <= 2 * p, 2 * p <= 3 * Q
  PROVE  Promise!InFarHalf(p) <=> Far(t)
<1> DEFINE g == N \div 2
           u == g * half
           r == t % M
           c == t \div M
           s == r * (2 * half)
<1>1. /\ g \in Nat \ {0} /\ half \in Nat \ {0} /\ u \in Nat \ {0} /\ Q = 8 * u
      /\ M = 4 * g /\ Q = M * (2 * half) /\ M \in Nat
  BY Scales
<1>2. r \in 0..(M - 1) /\ c \in Int /\ t = c * M + r
  BY Splits, Zenon
<1> HIDE DEF g, u, r, c, s
<1>3. PICK y \in Int : t * (2 * half) - p = y * Q
  BY DEF WholeTurns
<1>4. s = p + (y - c) * Q /\ s \in Int
  <2>1. t * (2 * half) = c * Q + s /\ c * Q \in Int /\ s \in Int /\ y * Q \in Int
    BY <1>1, <1>2 DEF s
  <2>2. (y - c) * Q = y * Q - c * Q
    BY <1>1, <1>2
  <2>3. QED
    BY <1>3, <2>1, <2>2
<1>5. /\ 0 <= s /\ s < 8 * u
      /\ Far(t) <=> 2 * u <= s /\ s < 6 * u
  <2>1. r \in Nat /\ r <= 4 * g - 1
    BY <1>1, <1>2
  <2>2. Far(t) <=> g <= r /\ r <= 3 * g - 1
    BY <1>1, <2>1 DEF Far, r, g
  <2>3. s <= (4 * g - 1) * (2 * half)
    BY <1>1, <2>1 DEF s
  <2>4. g <= r => g * (2 * half) <= s
    BY <1>1, <2>1 DEF s
  <2>5. r < g => s <= (g - 1) * (2 * half)
    BY <1>1, <2>1 DEF s
  <2>6. r <= 3 * g - 1 => s <= (3 * g - 1) * (2 * half)
    BY <1>1, <2>1 DEF s
  <2>7. r > 3 * g - 1 => 3 * g * (2 * half) <= s
    BY <1>1, <2>1 DEF s
  <2>8. /\ g * (2 * half) = 2 * u /\ (g - 1) * (2 * half) = 2 * u - 2 * half
        /\ (4 * g - 1) * (2 * half) = 8 * u - 2 * half
        /\ (3 * g - 1) * (2 * half) = 6 * u - 2 * half
        /\ 3 * g * (2 * half) = 6 * u
    BY <1>1 DEF u
  <2>9. 0 <= s
    BY <1>1, <2>1 DEF s
  <2>10. QED
    BY <1>1, <1>4, <2>1, <2>2, <2>3, <2>4, <2>5, <2>6, <2>7, <2>8, <2>9
<1>6. PICK z \in Int : z = y - c
  BY <1>2
<1>7. s = p + z * (8 * u)
  BY <1>1, <1>4, <1>6
<1>8. z \in {-1, 0, 1}
  <2>1. -4 * u <= p /\ p <= 12 * u
    BY <1>1
  <2>2. CASE z >= 2
    <3>1. z * (8 * u) >= 16 * u
      BY <1>1, <2>2
    <3>2. QED
      BY <1>1, <1>4, <1>5, <1>7, <2>1, <3>1
  <2>3. CASE z <= -2
    <3>1. z * (8 * u) <= -16 * u
      BY <1>1, <2>3
    <3>2. QED
      BY <1>1, <1>4, <1>5, <1>7, <2>1, <3>1
  <2>4. QED
    BY <1>6, <2>2, <2>3
<1>9. Promise!InFarHalf(p) <=> \E k \in -3..3 : 2 * u <= p + k * (8 * u) /\ p + k * (8 * u) < 6 * u
  BY <1>1, PromiseScales DEF Promise!InFarHalf, Promise!Turns, u, g
<1>10. ASSUME Far(t) PROVE Promise!InFarHalf(p)
  BY <1>5, <1>7, <1>8, <1>9, <1>10
<1>11. ASSUME NEW k \in -3..3, 2 * u <= p + k * (8 * u), p + k * (8 * u) < 6 * u
       PROVE  Far(t)
  <2>1. z * (8 * u) \in {-8 * u, 0, 8 * u}
    BY <1>1, <1>8
  <2>2. k \in {-3, -2, -1, 0, 1, 2, 3}
    OBVIOUS
  <2>3. s = p + k * (8 * u)
    BY <1>1, <1>4, <1>5, <1>7, <1>8, <1>11, <2>2
  <2>4. QED
    BY <1>5, <1>11, <2>3
<1>12. QED
  BY <1>9, <1>10, <1>11

-----------------------------------------------------------------------------
(* The loop.                                                               *)

LEMMA StartTurns ==
  ASSUME NEW c \in Int, NEW k \in Int
  PROVE  \A j \in Coefficients :
           /\ rotate(generate(c), -k)[j] \in Int
           /\ Near(rotate(generate(c), -k)[j], Sample(c, j + k), 0)
<1>1. ASSUME NEW j \in Coefficients
      PROVE  generate(c)[j] \in Int /\ Near(generate(c)[j], Sample(c, j + 0), 0)
  <2>1. /\ N \div 2 \in Nat \ {0} /\ N = 2 * (N \div 2) /\ M = 4 * (N \div 2)
        /\ j \in 0..(N - 1) /\ j + 0 = j
    BY Scales DEF Coefficients
  <2>2. j \in 0..(M - 1) /\ j = 0 * M + j /\ 0 \in Int /\ j \in Int
    BY <2>1
  <2>3. j % M = j
    BY <2>2, PositionUnique, Zenon
  <2>4. Far(j) <=> j >= N \div 2
    BY <2>1, <2>3 DEF Far
  <2>5. \A x \in Int : Near(x, x, 0)
    <3>1. \A x \in Int : x - x - 0 = 0 /\ 0 \in -0..0
      OBVIOUS
    <3>2. QED
      BY <3>1, TurnsAdd, NearTurns
  <2>6. (-c) % Q \in Int /\ Near((-c) % Q, -c, 0) /\ Near(c, c, 0)
    <3>1. -c \in Int
      OBVIOUS
    <3>2. QED
      BY <2>5, <3>1, NearReduced, Reduction
  <2>7. generate(c)[j] = IF Far(j) THEN c ELSE (-c) % Q
    BY <2>4 DEF generate
  <2>8. QED
    BY <2>1, <2>6, <2>7 DEF Sample
<1>2. generate(c) \in [Coefficients -> Int]
  BY <1>1 DEF generate
<1>3. -k \in Int /\ 0 \in Int /\ 0 \in Nat /\ 0 - (-k) = k
  OBVIOUS
<1>4. \A j \in Coefficients :
        /\ rotate(generate(c), -k)[j] \in Int
        /\ Near(rotate(generate(c), -k)[j], Sample(c, j + (0 - (-k))), 0)
  BY <1>1, <1>2, <1>3, RotateTurns, Zenon
<1>5. QED
  BY <1>3, <1>4

(* One CMux: the accumulator is turned by m if the secret bit is 1, and    *)
(* picks up one error either way.                                          *)
LEMMA RoundTurns ==
  ASSUME NEW p \in [Coefficients -> Int], NEW c \in Int, NEW t \in Int, NEW m \in Int,
         NEW bound \in Nat, NEW e \in Error, NEW s \in {0, 1},
         \A j \in Coefficients : Near(p[j], Sample(c, j + t), bound)
  PROVE  \A j \in Coefficients :
           /\ CMux(s, p, rotate(p, m), e)[j] \in Int
           /\ Near(CMux(s, p, rotate(p, m), e)[j], Sample(c, j + (t - m * s)), bound + Err)
<1> SUFFICES ASSUME NEW j \in Coefficients
             PROVE  /\ CMux(s, p, rotate(p, m), e)[j] \in Int
                    /\ Near(CMux(s, p, rotate(p, m), e)[j],
                            Sample(c, j + (t - m * s)), bound + Err)
  OBVIOUS
<1> DEFINE r == rotate(p, m)[j]
<1>1. r \in Int /\ Near(r, Sample(c, j + (t - m)), bound)
  BY RotateTurns
<1>2. p[j] \in Int /\ Near(p[j], Sample(c, j + t), bound)
  OBVIOUS
<1>3. e[j] \in -Err..Err /\ Err \in Nat /\ e[j] \in Int
  BY BlindRotationAssumption DEF BlindRotationAssumption
<1>4. CMux(s, p, rotate(p, m), e)[j] = (s * (r - p[j]) + e[j] + p[j]) % Q
  BY DEF CMux
<1> HIDE DEF r
<1>5. PICK y \in Int : /\ y = p[j] \/ y = r
                       /\ Near(y, Sample(c, j + (t - m * s)), bound)
                       /\ s * (r - p[j]) + e[j] + p[j] = y + e[j]
  <2>1. CASE s = 0
    <3>1. s * (r - p[j]) + e[j] + p[j] = p[j] + e[j] /\ t - m * s = t
      BY <1>1, <1>2, <1>3, <2>1
    <3>2. QED
      BY <1>2, <3>1
  <2>2. CASE s = 1
    <3>1. s * (r - p[j]) + e[j] + p[j] = r + e[j] /\ t - m * s = t - m
      BY <1>1, <1>2, <1>3, <2>2
    <3>2. QED
      BY <1>1, <3>1
  <2>3. QED
    BY <2>1, <2>2
<1> DEFINE target == Sample(c, j + (t - m * s))
           w == y + e[j]
<1>6. target \in Int /\ w \in Int /\ bound + Err \in Nat
  BY <1>3 DEF Sample
<1>7. Near(w, target, bound + Err)
  <2> HIDE DEF target
  <2>1. QED
    BY <1>3, <1>5, <1>6, NearAddsError DEF target
<1>8. w % Q \in Int /\ Near(w % Q, target, bound + Err)
  <2> HIDE DEF target, w
  <2>1. QED
    BY <1>6, <1>7, NearReduced, Reduction
<1>9. QED
  BY <1>4, <1>5, <1>8

(* The sum of products as a function of the secret, to speak of two states. *)
DotBy(s, x, m) ==
  LET sum[j \in 0..n] == IF j = 0 THEN 0 ELSE sum[j - 1] + x[j - 1] * s[j - 1]
  IN  sum[m]

LEMMA TurnedBy ==
  /\ Turned = mod_switch(b) - DotBy(secret, amount, i)
  /\ \A x, m : Dot(x, m) = DotBy(secret, x, m)
  BY Zenon DEF Turned, Dot, DotBy

(* The inductive invariant: the loop's own, on switched coefficients.      *)
Inv ==
  /\ TypeOK
  /\ pc = "start" => i = 0
  /\ pc # "start" => Switched
  /\ pc = "done" => i = n
  /\ AccumulatorIsTurnedTestVector

LEMMA AccumulatorSamples ==
  AccumulatorIsTurnedTestVector <=>
    (pc # "start" =>
       \A j \in Coefficients : Near(cand0[j], Sample(mu \div 2, j + Turned), i * Err))
  BY DEF AccumulatorIsTurnedTestVector, Sample, Far

LEMMA InitInv == Init => Inv
<1> SUFFICES ASSUME Init PROVE Inv
  OBVIOUS
<1>1. Mask \subseteq 0..(Q - 1) /\ Mu \subseteq 0..(Q - 1) /\ n \in Nat /\ M \in Nat \ {0}
  BY Scales, BlindRotationAssumption DEF BlindRotationAssumption
<1>2. TypeOK
  <2>1. [j \in Dim |-> 0] \in [Dim -> 0..(M - 1)]
    BY <1>1
  <2>2. a \in [Dim -> 0..(Q - 1)]
    BY <1>1, Zenon DEF Init
  <2>4. 0 \in 0..n
    BY <1>1
  <2>3. QED
    BY <1>1, <2>1, <2>2, <2>4 DEF Init, TypeOK
<1>3. QED
  BY <1>2 DEF Init, Inv, AccumulatorIsTurnedTestVector

LEMMA NextInv == Inv /\ [Next]_vars => Inv'
<1> SUFFICES ASSUME Inv, [Next]_vars PROVE Inv'
  OBVIOUS
<1>0. TypeOK /\ n \in Nat /\ Err \in Nat /\ mu \div 2 \in Int /\ b \in Int
  BY BlindRotationAssumption DEF Inv, TypeOK, BlindRotationAssumption
<1>1. CASE Start
  <2>1. /\ pc' = "rotate" /\ i' = 0 /\ i = 0 /\ secret' = secret /\ a' = a /\ b' = b
        /\ mu' = mu /\ out' = out
    BY <1>1 DEF Start, Inv
  <2>2. Switched' /\ amount' \in [Dim -> 0..(M - 1)]
    <3>1. \A j \in Dim : mod_switch(a[j]) \in 0..(M - 1)
      BY <1>0, ModSwitchRounds DEF TypeOK
    <3>2. QED
      BY <1>1, <2>1, <3>1 DEF Start, Switched
  <2>3. PICK x : x = amount'
    OBVIOUS
  <2>4. Turned' = mod_switch(b)
    <3>1. Turned' = mod_switch(b) - DotBy(secret, x, 0)
      BY <2>1, <2>3, Zenon DEF Turned, Dot, DotBy
    <3>2. x \in [Dim -> Int]
      BY <2>2, <2>3, Scales
    <3>3. DotBy(secret, x, 0) = 0
      BY <1>0, <3>2, DotRecurrence, TurnedBy
    <3>4. mod_switch(b) \in Int
      BY <1>0, ModSwitchRounds
    <3>5. QED
      BY <3>1, <3>3, <3>4
  <2>5. \A j \in Coefficients :
          cand0'[j] \in Int /\ Near(cand0'[j], Sample(mu \div 2, j + mod_switch(b)), 0)
    <3>1. mod_switch(b) \in Int
      BY <1>0, ModSwitchRounds
    <3>2. QED
      BY <1>0, <1>1, <3>1, StartTurns DEF Start
  <2>6. cand0' \in [Coefficients -> Int]
    BY <1>1, <2>5 DEF Start, rotate
  <2>7. TypeOK'
    BY <1>0, <2>1, <2>2, <2>6 DEF TypeOK
  <2>8. AccumulatorIsTurnedTestVector'
    <3>1. i' * Err = 0
      BY <1>0, <2>1
    <3>2. QED
      BY <2>1, <2>4, <2>5, <3>1, AccumulatorSamples DEF AccumulatorIsTurnedTestVector, Sample, Far
  <2>9. QED
    BY <2>1, <2>2, <2>7, <2>8 DEF Inv
<1>2. CASE Round
  <2>1. /\ pc = "rotate" /\ i < n /\ i' = i + 1 /\ secret' = secret /\ a' = a /\ b' = b
        /\ mu' = mu /\ amount' = amount /\ pc' = pc /\ out' = out
    BY <1>2 DEF Round
  <2>2. PICK e \in Error : cand0' = CMux(secret[i], cand0, rotate(cand0, amount[i]), e)
    BY <1>2 DEF Round
  <2>3. i \in Dim /\ i \in Nat /\ i + 1 \in 0..n
    BY <1>0, <2>1 DEF TypeOK, Dim
  <2>4. amount \in [Dim -> Int] /\ amount[i] \in Int /\ secret[i] \in {0, 1} /\ i \in 0..n
    BY <1>0, <2>3, Scales DEF TypeOK
  <2>5. Turned \in Int /\ Turned' = Turned - amount[i] * secret[i]
    <3>1. Turned' = mod_switch(b) - DotBy(secret, amount, i + 1)
      BY <2>1, Zenon DEF Turned, Dot, DotBy
    <3>2. /\ Dot(amount, i + 1) = Dot(amount, i) + amount[i] * secret[i]
          /\ Dot(amount, i) \in Int
      BY <1>0, <2>3, <2>4, DotRecurrence
    <3>3. DotBy(secret, amount, i + 1) = Dot(amount, i) + amount[i] * secret[i]
      BY <3>2, TurnedBy, Zenon
    <3>4. mod_switch(b) \in Int /\ Turned = mod_switch(b) - Dot(amount, i)
      BY <1>0, ModSwitchRounds DEF Turned
    <3>5. amount[i] * secret[i] \in Int
      BY <2>4
    <3>6. QED
      BY <3>1, <3>2, <3>3, <3>4, <3>5
  <2>6. /\ cand0 \in [Coefficients -> Int] /\ i * Err \in Nat
        /\ \A j \in Coefficients : Near(cand0[j], Sample(mu \div 2, j + Turned), i * Err)
    BY <1>0, <2>1, <2>3, AccumulatorSamples DEF Inv, TypeOK
  <2>7. \A j \in Coefficients :
          /\ cand0'[j] \in Int
          /\ Near(cand0'[j], Sample(mu \div 2, j + Turned'), i * Err + Err)
    <3>1. PICK p \in [Coefficients -> Int], c \in Int, t \in Int, m \in Int, s \in {0, 1}, bound \in Nat :
            /\ p = cand0 /\ c = mu \div 2 /\ t = Turned /\ m = amount[i] /\ s = secret[i]
            /\ bound = i * Err
      BY <1>0, <2>4, <2>5, <2>6
    <3>2. \A j \in Coefficients : Near(p[j], Sample(c, j + t), bound)
      BY <2>6, <3>1
    <3>3. \A j \in Coefficients :
            /\ CMux(s, p, rotate(p, m), e)[j] \in Int
            /\ Near(CMux(s, p, rotate(p, m), e)[j], Sample(c, j + (t - m * s)), bound + Err)
      BY <3>2, RoundTurns, ZenonT(30)
    <3>4. cand0' = CMux(s, p, rotate(p, m), e) /\ Turned' = t - m * s
      BY <2>2, <2>5, <3>1
    <3>5. QED
      BY <3>1, <3>3, <3>4
  <2>8. cand0' \in [Coefficients -> Int]
    BY <2>2, <2>7 DEF CMux
  <2>9. TypeOK'
    BY <1>0, <2>1, <2>3, <2>8 DEF TypeOK
  <2>10. AccumulatorIsTurnedTestVector'
    <3>1. i' * Err = i * Err + Err
      BY <1>0, <2>1, <2>3
    <3>2. QED
      BY <2>1, <2>7, <3>1 DEF AccumulatorIsTurnedTestVector, Sample, Far
  <2>11. QED
    BY <2>1, <2>3, <2>9, <2>10 DEF Inv, Switched
<1>3. CASE Extract
  <2>1. /\ pc' = "done" /\ i = n /\ i' = i /\ secret' = secret /\ a' = a /\ b' = b
        /\ mu' = mu /\ amount' = amount /\ cand0' = cand0 /\ pc = "rotate"
        /\ out' = (mu \div 2 + cand0[0]) % Q
    BY <1>3 DEF Extract
  <2>2. out' \in Int
    <3>1. 0 \in Coefficients
      BY Scales DEF Coefficients
    <3>2. mu \div 2 + cand0[0] \in Int
      BY <1>0, <3>1 DEF TypeOK
    <3>3. QED
      BY <2>1, <3>2, Reduction
  <2>3. TypeOK'
    BY <1>0, <2>1, <2>2 DEF TypeOK
  <2>4. Turned' = Turned
    BY <2>1, Zenon DEF Turned, Dot
  <2>5. AccumulatorIsTurnedTestVector'
    BY <2>1, <2>4 DEF Inv, AccumulatorIsTurnedTestVector
  <2>6. QED
    BY <2>1, <2>3, <2>5 DEF Inv, Switched
<1>4. CASE UNCHANGED vars
  <2>1. /\ pc' = pc /\ i' = i /\ secret' = secret /\ a' = a /\ b' = b
        /\ mu' = mu /\ amount' = amount /\ cand0' = cand0 /\ out' = out
    BY <1>4 DEF vars
  <2>2. Turned' = Turned
    BY <2>1, Zenon DEF Turned, Dot
  <2>3. QED
    BY <2>1, <2>2 DEF Inv, TypeOK, Switched, AccumulatorIsTurnedTestVector
<1>5. QED
  BY <1>1, <1>2, <1>3, <1>4 DEF Next, Done

(* After i rounds every coefficient of the accumulator is the test         *)
(* vector's, turned back by the switched phase so far, within i errors:    *)
(* for every ring dimension, torus width, secret, input and noise          *)
(* (blindrotate.hpp:35-56).                                                *)
THEOREM AccumulatorTurns == Spec => []AccumulatorIsTurnedTestVector
<1>1. Inv => AccumulatorIsTurnedTestVector
  BY DEF Inv
<1>2. QED
  BY <1>1, InitInv, NextInv, PTL DEF Spec

-----------------------------------------------------------------------------
(* The promise.                                                            *)

(* The deviation of the decision, within what Gates calls the drift.       *)
LEMMA DecisionDrifts ==
  ASSUME Inv, i = n, pc # "start"
  PROVE  \E d \in Promise!Noise((n + 1) * half) : Promise!InFarHalf(Phase + d) <=> Far(Turned)
<1>1. /\ Turned \in Int /\ Phase \in 0..(Q - 1)
      /\ \E d \in -((n + 1) * half)..((n + 1) * half) :
           Turned * (2 * half) - Phase - d \in WholeTurns
  BY TurnedIsPhase DEF Inv
<1>2. PICK d \in -((n + 1) * half)..((n + 1) * half) :
        Turned * (2 * half) - Phase - d \in WholeTurns
  BY <1>1
<1>3. (n + 1) * half \in Nat /\ Q \in Nat \ {0} /\ half \in Nat
  BY Scales, BlindRotationAssumption DEF BlindRotationAssumption
<1>4. PICK e \in -((n + 1) * half)..((n + 1) * half) :
        d - e \in WholeTurns /\ -Q <= 2 * e /\ 2 * e <= Q
  BY <1>3, SmallDeviation
<1>5. Phase \in Int /\ d \in Int /\ e \in Int /\ Turned * (2 * half) \in Int
  BY <1>1, <1>3
<1>6. (Turned * (2 * half) - Phase - d) + (d - e) \in WholeTurns
  BY <1>2, <1>4, TurnsAdd
<1>7. (Turned * (2 * half) - Phase - d) + (d - e) = Turned * (2 * half) - (Phase + e)
  BY <1>5
<1>8. Phase + e \in Int /\ -Q <= 2 * (Phase + e) /\ 2 * (Phase + e) <= 3 * Q
  BY <1>1, <1>3, <1>4, <1>5
<1>9. Promise!InFarHalf(Phase + e) <=> Far(Turned)
  BY <1>1, <1>6, <1>7, <1>8, FarIsInFarHalf
<1>10. QED
  BY <1>4, <1>9 DEF Promise!Noise

(* mu is twice its half, or one more; the one counts as noise.             *)
LEMMA ResultIsPromised ==
  ASSUME Inv, i = n, pc # "start"
  PROVE  \E p \in Promise!GateBootstrap(mu, Phase) :
           (mu \div 2 + cand0[0]) % Q = p % Promise!Turn
<1> DEFINE h == mu \div 2
           far == Far(Turned)
<1>1. /\ h \in Int /\ mu \in Int /\ (mu = 2 * h \/ mu = 2 * h + 1) /\ cand0[0] \in Int
      /\ n * Err \in Nat /\ 0 \in Coefficients
  <2>1. mu \in Int /\ 0 \in Coefficients
    BY Scales DEF Inv, TypeOK, Coefficients
  <2>2. cand0[0] \in Int
    BY <2>1 DEF Inv, TypeOK
  <2>3. n * Err \in Nat
    BY BlindRotationAssumption DEF BlindRotationAssumption
  <2>4. QED
    BY <2>1, <2>2, <2>3
<1>2. Turned \in Int /\ 0 + Turned = Turned
  BY TurnedIsPhase DEF Inv
<1>3. Near(cand0[0], IF far THEN h ELSE -h, n * Err)
  BY <1>1, <1>2, AccumulatorSamples DEF Inv, Sample
<1> HIDE DEF far, h
<1>4. PICK x \in -(n * Err)..(n * Err) : cand0[0] - (IF far THEN h ELSE -h) - x \in WholeTurns
  <2> DEFINE y == IF far THEN h ELSE -h
  <2>1. y \in Int
    BY <1>1
  <2> HIDE DEF y
  <2>2. Near(cand0[0], y, n * Err)
    BY <1>3 DEF y
  <2>3. \E x \in -(n * Err)..(n * Err) : cand0[0] - y - x \in WholeTurns
    BY <1>1, <2>1, <2>2, NearTurns
  <2>4. QED
    BY <2>3 DEF y
<1>5. PICK e \in -(n * Err + 1)..(n * Err + 1) :
        (IF far THEN mu ELSE 0) + e = (IF far THEN 2 * h ELSE 0) + x
  <2>1. CASE far /\ mu = 2 * h + 1
    <3>1. x - 1 \in -(n * Err + 1)..(n * Err + 1) /\ mu + (x - 1) = 2 * h + x
      BY <1>1, <2>1
    <3>2. QED
      BY <2>1, <3>1
  <2>2. CASE ~(far /\ mu = 2 * h + 1)
    <3>1. x \in -(n * Err + 1)..(n * Err + 1)
      BY <1>1
    <3>2. QED
      BY <1>1, <2>2, <3>1
  <2>3. QED
    BY <2>1, <2>2
<1> DEFINE p == (IF far THEN mu ELSE 0) + e
<1>6. p \in Int /\ h + cand0[0] \in Int
  BY <1>1
<1>7. (h + cand0[0]) - p \in WholeTurns
  <2>1. (h + cand0[0]) - p = cand0[0] - (IF far THEN h ELSE -h) - x
    BY <1>1, <1>5
  <2>2. QED
    BY <1>4, <2>1
<1>8. PICK d \in Promise!Noise((n + 1) * half) : Promise!InFarHalf(Phase + d) <=> far
  BY DecisionDrifts DEF far
<1>9. p \in Promise!GateBootstrap(mu, Phase)
  <2>1. e \in Promise!Noise(n * Err + 1)
    BY DEF Promise!Noise
  <2>2. p = (IF Promise!InFarHalf(Phase + d) THEN mu ELSE 0) + e
    BY <1>8
  <2> HIDE DEF p
  <2>3. QED
    BY <2>1, <2>2 DEF Promise!GateBootstrap
<1> HIDE DEF p
<1>10. (h + cand0[0]) % Q = p % Q
  <2>1. p % Q \in 0..(Q - 1) /\ (p % Q) - p \in WholeTurns
    BY <1>6, Reduction
  <2>2. (h + cand0[0]) - (p % Q) \in WholeTurns
    <3>1. ((h + cand0[0]) - p) - ((p % Q) - p) \in WholeTurns
      BY <1>7, <2>1, TurnsAdd
    <3>2. ((h + cand0[0]) - p) - ((p % Q) - p) = (h + cand0[0]) - (p % Q)
      BY <1>6, <2>1, Scales
    <3>3. QED
      BY <3>1, <3>2
  <2>3. QED
    BY <1>6, <2>1, <2>2, SameResidue
<1>11. QED
  BY <1>9, <1>10, PromiseScales DEF h

(* Blind rotation implements the one-step bootstrap of Gates, for every    *)
(* dimension and width: the gates' proofs may start from it.               *)
THEOREM BootstrapKeepsPromise == Spec => DecidesAsGatesNeed
<1>1. Init => Promise!Init
  <2> SUFFICES ASSUME Init PROVE Promise!Init
    OBVIOUS
  <2>1. Inv
    BY InitInv
  <2>2. Phase \in 0..(Q - 1) /\ mu \in 0..(Q - 1)
    <3>1. mu \in 0..(Q - 1) /\ b \in Int /\ a \in [Dim -> Int] /\ n \in 0..n
      BY <2>1, BlindRotationAssumption DEF Inv, TypeOK, BlindRotationAssumption
    <3>2. b - Dot(a, n) \in Int
      BY <2>1, <3>1, DotRecurrence DEF Inv
    <3>3. QED
      BY <3>1, <3>2, Reduction DEF Phase
  <2>3. QED
    BY <2>2, PromiseScales DEF Init, Promise!Init
<1>2. Inv /\ [Next]_vars => [Promise!Bootstrap]_(Promise!vars)
  <2> SUFFICES ASSUME Inv, [Next]_vars PROVE [Promise!Bootstrap]_(Promise!vars)
    OBVIOUS
  <2>1. secret' = secret /\ a' = a /\ b' = b /\ mu' = mu
    BY DEF Next, Start, Round, Extract, Done, vars
  <2>2. Phase' = Phase
    BY <2>1, Zenon DEF Phase, Dot
  <2>3. CASE Start \/ Round \/ UNCHANGED vars
    <3>1. (pc = "done")' = (pc = "done") /\ out' = out
      BY <2>3 DEF Start, Round, vars
    <3>2. QED
      BY <2>1, <2>2, <3>1 DEF Promise!vars
  <2>4. CASE Extract
    <3>1. pc = "rotate" /\ i = n /\ pc' = "done" /\ out' = (mu \div 2 + cand0[0]) % Q
      BY <2>4 DEF Extract
    <3>2. PICK p \in Promise!GateBootstrap(mu, Phase) : out' = p % Promise!Turn
      BY <3>1, ResultIsPromised
    <3>3. QED
      BY <2>1, <2>2, <3>1, <3>2 DEF Promise!Bootstrap
  <2>5. QED
    BY <2>3, <2>4 DEF Next, Done
<1>3. QED
  BY <1>1, <1>2, InitInv, NextInv, PTL DEF Spec, DecidesAsGatesNeed, Promise!Spec
=============================================================================
