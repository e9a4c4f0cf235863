------------------------------ MODULE DialProofs ------------------------------
(***************************************************************************)
(* Proofs about Dial, for every width of word and torus and every number   *)
(* of slots: the bit-serial division, the three branches of index(), and   *)
(* the margin.                                                             *)
(***************************************************************************)
EXTENDS Dial, TLAPS

(* Of the lemmas shared with the gates' proofs these use only the          *)
(* arithmetic, which no constant of Gates enters.                          *)
Shared ==
  INSTANCE SharedLemmas WITH U <- 1, Fresh <- 0, Drift <- 0, Boot <- 0, Switch <- 0

LEMMA NoGates == Shared!GatesAssumption
  BY DEF Shared!GatesAssumption

LEMMA PowersOfTwo ==
  /\ \A j \in Nat : pow2[j] \in Nat \ {0} /\ pow2[j + 1] = 2 * pow2[j]
  /\ \A j, m \in Nat : pow2[j + m] = pow2[j] * pow2[m]
  /\ \A j, m \in Nat : j <= m => pow2[j] <= pow2[m]
<1>1. Shared!pow2 = pow2
  BY DEF Shared!pow2, pow2
<1>2. \A j \in Nat : pow2[j] \in Nat \ {0}
  BY <1>1, Shared!Pow2Positive
<1>3. \A j \in Nat : pow2[j + 1] = 2 * pow2[j]
  BY <1>1, Shared!Pow2Recurrence
<1>4. ASSUME NEW j \in Nat, NEW m \in Nat PROVE pow2[j + m] = pow2[j] * pow2[m]
  BY <1>1, Shared!Pow2Adds
<1>5. ASSUME NEW j \in Nat, NEW m \in Nat, j <= m PROVE pow2[j] <= pow2[m]
  BY <1>1, <1>5, Shared!Pow2Grows
<1>6. QED
  BY <1>2, <1>3, <1>4, <1>5

-----------------------------------------------------------------------------
(* Division.                                                               *)

LEMMA Quotient ==
  ASSUME NEW x \in Int, NEW d \in Nat \ {0}, NEW c \in Int, NEW r \in 0..(d - 1),
         x = c * d + r
  PROVE  x \div d = c /\ x % d = r
  BY NoGates, Shared!ModUnique, ZenonT(30)

LEMMA Splits ==
  ASSUME NEW x \in Int, NEW d \in Nat \ {0}
  PROVE  \E c \in Int, r \in 0..(d - 1) :
           x = c * d + r /\ x \div d = c /\ x % d = r
<1>1. /\ x % d \in 0..(d - 1) /\ x \div d \in Int
      /\ x = (x \div d) * d + (x % d)
  BY NoGates, Shared!ModSplits, ZenonT(30)
<1>2. QED
  BY <1>1, Zenon

LEMMA Fits ==
  ASSUME NEW d \in Nat \ {0}, NEW x \in 0..(d - 1)
  PROVE  x % d = x /\ x \div d = 0
<1>1. x \in Int /\ 0 \in Int /\ x = 0 * d + x
  OBVIOUS
<1>2. QED
  BY <1>1, Quotient, Zenon

(* A common factor cancels. *)
LEMMA QuotientCancels ==
  ASSUME NEW x \in Int, NEW d \in Nat \ {0}, NEW f \in Nat \ {0}
  PROVE  (f * x) \div (f * d) = x \div d
<1>1. PICK c \in Int, r \in 0..(d - 1) : x = c * d + r /\ x \div d = c
  BY Splits
<1>2. f * r \in 0..(f * d - 1) /\ f * d \in Nat \ {0} /\ f * x \in Int
  <2>1. f * r >= 0 /\ f * r <= f * (d - 1)
    OBVIOUS
  <2>2. f * (d - 1) = f * d - f /\ f * d \in Nat \ {0} /\ f * x \in Int
    OBVIOUS
  <2>3. QED
    BY <2>1, <2>2
<1>3. f * x = c * (f * d) + f * r
  BY <1>1
<1>4. PICK y \in Int, e \in Nat \ {0}, s \in Int :
        y = f * x /\ e = f * d /\ s = f * r /\ s \in 0..(e - 1)
  BY <1>2
<1>5. y \div e = c
  BY <1>3, <1>4, Quotient
<1>6. QED
  BY <1>1, <1>4, <1>5

(* Multiples of m do not matter modulo m. *)
LEMMA MultipleDrops ==
  ASSUME NEW x \in Int, NEW c \in Int, NEW m \in Nat \ {0}
  PROVE  (x + c * m) % m = x % m
<1>1. PICK q \in Int, r \in 0..(m - 1) : x = q * m + r /\ x % m = r
  BY Splits
<1>2. x + c * m = (q + c) * m + r /\ q + c \in Int /\ x + c * m \in Int
  BY <1>1
<1>3. QED
  BY <1>1, <1>2, Quotient, Zenon

-----------------------------------------------------------------------------
(* Widths.                                                                 *)

Typed ==
  /\ width \in Width
  /\ resolution \in Resolution
  /\ raw \in 0..resolution

LEMMA Scales ==
  ASSUME Typed
  PROVE  /\ half \in Nat \ {0} /\ qbit \in Nat \ {0} /\ qbit <= width.digits
         /\ width.digits \in {half, 2 * half}
         /\ pow2[half] \in Nat \ {0} /\ DoubleWords = pow2[half] * pow2[half]
         /\ resolution \in 1..(pow2[half] - 1)
         /\ pow2[qbit - 1] \in Nat \ {0} /\ Q = 2 * pow2[qbit - 1]
         /\ Words \in Nat \ {0} /\ pow2[half] <= Words
         /\ \E turns \in Nat \ {0} : Words = turns * Q
<1>1. /\ half \in Nat \ {0} /\ qbit \in Nat \ {0} /\ qbit <= width.digits
      /\ width.digits \in {half, 2 * half}
      /\ resolution \in 1..(pow2[half] - 1)
  BY DialAssumption DEF DialAssumption, Typed, qbit
<1>2. 2 * half = half + half /\ width.digits \in Nat /\ half <= width.digits
  BY <1>1
<1>3. pow2[half] \in Nat \ {0} /\ DoubleWords = pow2[half] * pow2[half]
  BY <1>1, <1>2, PowersOfTwo DEF DoubleWords
<1>4. pow2[qbit - 1] \in Nat \ {0} /\ Q = 2 * pow2[qbit - 1]
  <2>1. qbit - 1 \in Nat /\ (qbit - 1) + 1 = qbit
    BY <1>1
  <2>2. QED
    BY <2>1, PowersOfTwo DEF Q
<1>5. Words \in Nat \ {0} /\ pow2[half] <= Words
  BY <1>1, <1>2, PowersOfTwo DEF Words
<1>6. \E turns \in Nat \ {0} : Words = turns * Q
  <2>1. width.digits - qbit \in Nat /\ (width.digits - qbit) + qbit = width.digits /\ qbit \in Nat
    BY <1>1, <1>2
  <2>2. Words = pow2[width.digits - qbit] * Q /\ pow2[width.digits - qbit] \in Nat \ {0}
    BY <2>1, PowersOfTwo DEF Words, Q
  <2>3. QED
    BY <2>2
<1>7. QED
  BY <1>1, <1>3, <1>4, <1>5, <1>6

-----------------------------------------------------------------------------
(* The bit-serial division.                                                *)

Inv ==
  /\ Typed
  /\ i \in 0..qbit
  /\ remainder \in Int /\ quotient \in Int /\ value \in Int /\ noise \in Int
  /\ pc \in {"divide", "encoded", "noisy"}
  /\ DivisionIsExact
  /\ pc = "noisy" =>
       /\ IsDial
       /\ value = (((raw % resolution) * Q) \div resolution + noise) % Q

(* The quotient has as many bits as the loop has gone round. *)
LEMMA QuotientBits ==
  ASSUME Inv, pc = "divide"
  PROVE  quotient \in 0..(pow2[i] - 1)
<1>1. /\ remainder \in 0..(resolution - 1) /\ resolution \in Nat \ {0}
      /\ quotient * resolution + remainder = (raw % resolution) * pow2[i]
      /\ quotient \in Int /\ raw \in Int
  BY Scales DEF Inv, DivisionIsExact, Typed
<1>2. PICK r \in 0..(resolution - 1) : raw % resolution = r
  BY <1>1, Splits
<1>3. PICK p \in Nat \ {0} : p = pow2[i]
  <2>1. i \in Nat
    BY Scales DEF Inv
  <2>2. QED
    BY <2>1, PowersOfTwo
<1>4. quotient * resolution + remainder = r * p
  BY <1>1, <1>2, <1>3
<1>5. quotient >= 0
  <2>1. SUFFICES ASSUME quotient <= -1 PROVE FALSE
    BY <1>1
  <2>2. quotient * resolution <= -resolution
    BY <1>1, <2>1
  <2>3. r * p >= 0 /\ r * p \in Int /\ quotient * resolution \in Int
    BY <1>1, <1>2, <1>3
  <2>4. QED
    BY <1>1, <1>4, <2>2, <2>3
<1>6. quotient < p
  <2>1. SUFFICES ASSUME quotient >= p PROVE FALSE
    BY <1>1, <1>3
  <2>2. quotient * resolution >= p * resolution
    BY <1>1, <1>3, <2>1
  <2>3. r * p <= (resolution - 1) * p /\ (resolution - 1) * p = p * resolution - p
    BY <1>1, <1>2, <1>3
  <2>4. r * p \in Int /\ quotient * resolution \in Int /\ p * resolution \in Int
    BY <1>1, <1>2, <1>3
  <2>5. QED
    BY <1>1, <1>3, <1>4, <2>2, <2>3, <2>4
<1>7. QED
  BY <1>1, <1>3, <1>5, <1>6

LEMMA InitInv == Init => Inv
<1> SUFFICES ASSUME Init PROVE Inv
  OBVIOUS
<1>1. Typed /\ 0 \in 0..qbit /\ pow2[0] = 1
  <2>1. Typed
    BY DEF Init, Typed
  <2>2. pow2[0] = 1
    BY Shared!Pow2Recurrence DEF Shared!pow2, pow2
  <2>3. QED
    BY <2>1, <2>2, Scales
<1>2. PICK r \in 0..(resolution - 1) : raw % resolution = r
  BY <1>1, Scales, Splits, SMTT(30) DEF Typed
<1>3. r \in Int /\ r = r * pow2[0] /\ 0 * resolution + r = r
  BY <1>1, <1>2, Scales
<1>4. DivisionIsExact
  BY <1>2, <1>3 DEF Init, DivisionIsExact
<1>5. QED
  BY <1>1, <1>2, <1>3, <1>4 DEF Init, Inv

LEMMA NextInv == Inv /\ [Next]_vars => Inv'
<1> SUFFICES ASSUME Inv, [Next]_vars PROVE Inv'
  OBVIOUS
<1>0. /\ Typed /\ qbit \in Nat \ {0} /\ i \in 0..qbit /\ resolution \in Nat \ {0}
      /\ raw \in Int /\ Q \in Nat \ {0}
  BY Scales DEF Inv, Typed
<1>r. PICK r \in 0..(resolution - 1) : raw % resolution = r
  BY <1>0, Splits
<1>1. CASE Divide
  <2>1. /\ pc = "divide" /\ i < qbit /\ i' = i + 1 /\ pc' = "divide"
        /\ width' = width /\ resolution' = resolution /\ raw' = raw
        /\ noise' = noise /\ value' = value
    BY <1>1 DEF Divide
  <2>2. PICK W \in Nat \ {0} : W = Words /\ resolution < W
    BY <1>0, Scales
  <2>3. /\ remainder \in 0..(resolution - 1)
        /\ quotient * resolution + remainder = r * pow2[i]
    BY <1>r, <2>1 DEF Inv, DivisionIsExact
  <2>4. PICK q \in Nat, p \in Nat \ {0} :
          /\ q = quotient /\ p = pow2[i] /\ q <= p - 1 /\ pow2[i + 1] = 2 * p
    <3>1. i \in Nat /\ pow2[i] \in Nat \ {0} /\ pow2[i + 1] = 2 * pow2[i]
      BY <1>0, PowersOfTwo
    <3>2. quotient \in 0..(pow2[i] - 1)
      BY <2>1, QuotientBits
    <3>3. QED
      BY <3>1, <3>2
  <2>5. PICK bit \in {0, 1} :
          /\ bit = IF GoesIn(2 * remainder) THEN 1 ELSE 0
          /\ remainder' = (2 * remainder - bit * resolution) % W
          /\ quotient' = ((2 * q) % W) + bit
    <3>1. \E bit \in {0, 1} : bit = IF GoesIn(2 * remainder) THEN 1 ELSE 0
      OBVIOUS
    <3>2. QED
      BY <1>1, <2>2, <2>4, <3>1 DEF Divide
  <2>6. GoesIn(2 * remainder) <=> 2 * remainder >= resolution
    <3>1. CASE 2 * remainder < W
      <4>1. 2 * remainder \in 0..(W - 1)
        BY <1>0, <2>3, <3>1
      <4>2. (2 * remainder) % W = 2 * remainder
        BY <4>1, Fits
      <4>3. QED
        BY <1>0, <2>2, <2>3, <3>1, <4>2 DEF GoesIn
    <3>2. CASE 2 * remainder >= W
      BY <1>0, <2>2, <2>3, <3>2 DEF GoesIn
    <3>3. QED
      BY <1>0, <2>3, <3>1, <3>2
  <2>7. remainder' = 2 * remainder - bit * resolution /\ remainder' \in 0..(resolution - 1)
    <3>1. PICK d \in Int : d = 2 * remainder - bit * resolution
      BY <1>0, <2>3
    <3>2. d \in 0..(resolution - 1)
      BY <1>0, <2>3, <2>5, <2>6, <3>1
    <3>3. d \in 0..(W - 1)
      BY <1>0, <2>2, <3>2
    <3>4. QED
      BY <2>5, <3>1, <3>2, <3>3, Fits
  <2>8. quotient' = 2 * q + bit
    <3>1. 2 * q \in 0..(W - 1)
      <4>1. i + 1 \in Nat /\ width.digits \in Nat /\ i + 1 <= width.digits
        BY <1>0, <2>1, Scales
      <4>2. 2 * p <= W
        <5>1. pow2[i + 1] <= pow2[width.digits]
          BY <4>1, PowersOfTwo, Zenon
        <5>2. QED
          BY <2>2, <2>4, <5>1 DEF Words
      <4>3. QED
        BY <2>4, <4>2
    <3>2. (2 * q) % W = 2 * q
      BY <3>1, Fits
    <3>3. QED
      BY <2>5, <3>2
  <2>9. quotient' * resolution + remainder' = r * pow2[i + 1]
    <3>1. /\ (2 * q + bit) * resolution + (2 * remainder - bit * resolution)
             = 2 * (q * resolution + remainder)
          /\ r * (2 * p) = 2 * (r * p)
      BY <1>0, <2>3, <2>5
    <3>2. QED
      BY <2>3, <2>4, <2>7, <2>8, <3>1
  <2>10. DivisionIsExact'
    BY <1>r, <2>1, <2>7, <2>9 DEF DivisionIsExact
  <2>11. i + 1 \in 0..qbit /\ quotient' \in Int /\ remainder' \in Int /\ qbit' = qbit
    BY <1>0, <2>1, <2>7, <2>8 DEF qbit
  <2>12. QED
    BY <2>1, <2>10, <2>11 DEF Inv, Typed
<1>2. CASE Encode
  <2>1. /\ pc = "divide" /\ i = qbit /\ i' = i /\ pc' = "encoded"
        /\ width' = width /\ resolution' = resolution /\ raw' = raw
        /\ noise' = noise /\ value' = quotient % Q /\ remainder' = remainder
        /\ quotient' = quotient
    BY <1>2 DEF Encode
  <2>2. quotient \in 0..(Q - 1)
    BY <2>1, QuotientBits DEF Q
  <2>3. value' = quotient
    BY <1>0, <2>1, <2>2, Fits
  <2>4. /\ remainder \in 0..(resolution - 1)
        /\ quotient * resolution + remainder = r * Q
    BY <1>r, <2>1 DEF Inv, DivisionIsExact, Q
  <2>5. r * Q \in Int /\ quotient \in Int
    BY <1>0, <1>r, <2>2
  <2>6. (r * Q) \div resolution = quotient
    BY <1>0, <2>4, <2>5, Quotient
  <2>7. Q' = Q /\ qbit' = qbit
    BY <2>1 DEF Q, qbit
  <2>8. DivisionIsExact'
    BY <1>r, <2>1, <2>3, <2>6, <2>7 DEF DivisionIsExact
  <2>9. QED
    BY <2>1, <2>3, <2>5, <2>7, <2>8 DEF Inv, Typed
<1>3. CASE Disturb
  <2>1. /\ pc = "encoded" /\ i' = i /\ pc' = "noisy" /\ IsDial
        /\ width' = width /\ resolution' = resolution /\ raw' = raw
        /\ remainder' = remainder /\ quotient' = quotient
    BY <1>3 DEF Disturb
  <2>2. PICK e \in Int : noise' = e /\ value' = (value + e) % Q
    BY <1>0, <1>3 DEF Disturb
  <2>3. value = (r * Q) \div resolution /\ value \in Int
    BY <1>r, <2>1 DEF Inv, DivisionIsExact
  <2>4. Q' = Q /\ qbit' = qbit /\ IsDial'
    BY <2>1 DEF Q, qbit, IsDial, k
  <2>5. (value + e) % Q \in Int
    BY <1>0, <2>3, Splits
  <2>6. QED
    BY <1>r, <2>1, <2>2, <2>3, <2>4, <2>5 DEF Inv, Typed, DivisionIsExact
<1>4. CASE UNCHANGED vars
  BY <1>4 DEF vars, Inv, Typed, DivisionIsExact, IsDial, k, qbit, Q
<1>5. QED
  BY <1>1, <1>2, <1>3, <1>4 DEF Next, Done

(* The constructor's quotient is the floor of raw * 2^qbit / resolution at *)
(* every width, though a doubling may leave the word (torus.hpp).          *)
THEOREM DivisionExact == Spec => []DivisionIsExact
<1>1. Inv => DivisionIsExact
  BY DEF Inv
<1>2. QED
  BY <1>1, InitInv, NextInv, PTL DEF Spec

-----------------------------------------------------------------------------
(* index().                                                                *)

(* The slot nearest to x, in arithmetic no word limits. *)
Nearest(x) == ((x * resolution + pow2[qbit - 1]) \div Q) % resolution

LEMMA NearestIsRounded ==
  ASSUME Typed, NEW x \in Int
  PROVE  ((2 * x * resolution + Q) \div (2 * Q)) % resolution = Nearest(x)
<1>1. /\ resolution \in Nat \ {0} /\ pow2[qbit - 1] \in Nat \ {0} /\ Q = 2 * pow2[qbit - 1]
      /\ Q \in Nat \ {0}
  BY Scales
<1>2. PICK y \in Int : y = x * resolution + pow2[qbit - 1]
  BY <1>1
<1>3. 2 * x * resolution + Q = 2 * y
  <2>1. 2 * x * resolution = 2 * (x * resolution) /\ x * resolution \in Int
    BY <1>1
  <2>2. QED
    BY <1>1, <1>2, <2>1
<1>4. (2 * y) \div (2 * Q) = y \div Q
  BY <1>1, QuotientCancels
<1>5. QED
  BY <1>2, <1>3, <1>4 DEF Nearest

(* A power of two: k is its logarithm. *)
LEMMA Logarithm ==
  ASSUME Typed, is_power_of_two
  PROVE  k \in Nat /\ resolution = pow2[k]
<1>1. half \in Nat \ {0} /\ resolution \in Nat \ {0}
  BY Scales
<1>2. PICK j \in 0..half : resolution = pow2[j]
  BY DEF is_power_of_two
<1>3. j \in Nat /\ resolution <= pow2[j] /\ (j > 0 => resolution > pow2[j - 1])
  <2>1. ASSUME j > 0 PROVE resolution > pow2[j - 1]
    <3>1. j - 1 \in Nat /\ (j - 1) + 1 = j
      BY <1>1, <2>1
    <3>2. pow2[j] = 2 * pow2[j - 1] /\ pow2[j - 1] \in Nat \ {0}
      BY <3>1, PowersOfTwo
    <3>3. QED
      BY <1>2, <3>2
  <2>2. QED
    BY <1>1, <1>2, <2>1
<1>4. /\ k \in 0..half /\ resolution <= pow2[k] /\ (k > 0 => resolution > pow2[k - 1])
  BY <1>3 DEF k
<1>5. PICK m \in Nat : m = k
  BY <1>1, <1>4
<1>6. PICK res \in Nat, pj \in Nat, pm \in Nat :
        /\ res = resolution /\ pj = pow2[j] /\ pm = pow2[m]
        /\ res = pj /\ res <= pm
  BY <1>1, <1>2, <1>3, <1>4, <1>5, PowersOfTwo
<1>7. ~ (j < m)
  <2>1. SUFFICES ASSUME j < m PROVE FALSE
    OBVIOUS
  <2>2. m - 1 \in Nat /\ j <= m - 1 /\ m > 0
    BY <1>3, <2>1
  <2>3. PICK q \in Nat : q = pow2[m - 1] /\ pj <= q
    BY <1>3, <1>6, <2>2, PowersOfTwo
  <2>4. res > q
    BY <1>4, <1>5, <1>6, <2>2, <2>3
  <2>5. QED
    BY <1>6, <2>3, <2>4
<1>8. ~ (m < j)
  <2>1. SUFFICES ASSUME m < j PROVE FALSE
    OBVIOUS
  <2>2. j - 1 \in Nat /\ m <= j - 1 /\ j > 0
    BY <1>3, <2>1
  <2>3. PICK q \in Nat : q = pow2[j - 1] /\ pm <= q
    BY <1>6, <2>2, PowersOfTwo
  <2>4. res > q
    BY <1>3, <1>6, <2>2, <2>3
  <2>5. QED
    BY <1>6, <2>3, <2>4
<1>9. QED
  BY <1>2, <1>3, <1>5, <1>7, <1>8

LEMMA ShiftIsNearest ==
  ASSUME Typed, is_power_of_two, qbit > k, NEW x \in 0..(Q - 1)
  PROVE  ShiftIndex(x) = Nearest(x)
<1>1. k \in Nat /\ resolution = pow2[k] /\ resolution \in Nat \ {0} /\ qbit \in Nat
  BY Logarithm, Scales
<1> DEFINE drop == qbit - k
<1>2. drop - 1 \in Nat /\ (drop - 1) + 1 = drop /\ drop \in Nat /\ k + drop = qbit
      /\ k + (drop - 1) = qbit - 1
  BY <1>1
<1> HIDE DEF drop
<1>3. PICK g \in Nat \ {0}, d \in Nat \ {0} :
        g = pow2[drop - 1] /\ d = pow2[drop] /\ d = 2 * g
  <2>1. /\ pow2[drop - 1] \in Nat \ {0} /\ pow2[drop] \in Nat \ {0}
        /\ pow2[(drop - 1) + 1] = 2 * pow2[drop - 1]
    BY <1>2, PowersOfTwo, Zenon
  <2>2. QED
    BY <1>2, <2>1
<1>4. PICK res \in Nat \ {0}, y \in Int, W \in Nat \ {0}, turns \in Nat \ {0} :
        /\ res = resolution /\ y = x + g /\ W = Words /\ W = turns * Q
  BY <1>1, <1>3, Scales, SMTT(30)
<1>5. Q = res * d /\ pow2[qbit - 1] = res * g
  <2>1. pow2[k + drop] = pow2[k] * pow2[drop]
    BY <1>1, <1>2, PowersOfTwo
  <2>2. pow2[k + (drop - 1)] = pow2[k] * pow2[drop - 1]
    BY <1>1, <1>2, PowersOfTwo
  <2>3. QED
    BY <1>1, <1>2, <1>3, <1>4, <2>1, <2>2 DEF Q
<1>6. Nearest(x) = (y \div d) % res
  <2>1. PICK z \in Int : z = x
    BY Scales
  <2>2. z * res + res * g = res * y
    BY <1>4, <2>1
  <2>3. (res * y) \div (res * d) = y \div d
    BY QuotientCancels
  <2>4. QED
    BY <1>4, <1>5, <2>1, <2>2, <2>3 DEF Nearest
<1>7. ShiftIndex(x) = ((y % W) \div d) % res
  BY <1>1, <1>3, <1>4 DEF ShiftIndex, drop
<1>8. PICK c \in Int, r \in 0..(W - 1) : y = c * W + r /\ y % W = r
  BY <1>4, Splits
<1>9. PICK e \in Int, s \in 0..(d - 1) : r = e * d + s /\ r \div d = e
  BY Splits
<1>10. PICK w \in Int, v \in Int : w = c * turns /\ v = e + w * res
  OBVIOUS
<1>11. y = v * d + s
  <2>1. c * W = w * (res * d)
    BY <1>4, <1>5, <1>10
  <2>2. v * d = e * d + w * (res * d)
    BY <1>10
  <2>3. QED
    BY <1>8, <1>9, <2>1, <2>2
<1>12. y \div d = v
  BY <1>11, Quotient
<1>13. v % res = e % res
  BY <1>10, MultipleDrops
<1>14. QED
  BY <1>6, <1>7, <1>8, <1>9, <1>12, <1>13

LEMMA ProductIsNearest ==
  ASSUME Typed, qbit <= half, NEW x \in 0..(Q - 1)
  PROVE  ProductIndex(x) = Nearest(x)
<1>1. PICK p \in Nat \ {0}, h \in Nat \ {0} : p = pow2[half] /\ h = pow2[qbit - 1]
  BY Scales
<1>2. /\ resolution \in 1..(p - 1) /\ Q = 2 * h /\ DoubleWords = p * p
  BY <1>1, Scales
<1>3. Q <= p
  BY <1>1, Scales, PowersOfTwo DEF Q
<1>4. x * resolution \in Nat /\ x * resolution <= (p - 1) * (p - 1)
  <2>1. x \in Nat /\ x <= p - 1 /\ resolution \in Nat /\ resolution <= p - 1
    BY <1>1, <1>2, <1>3
  <2>2. x * resolution <= x * (p - 1) /\ x * (p - 1) <= (p - 1) * (p - 1)
    BY <1>1, <2>1
  <2>3. QED
    BY <1>1, <2>1, <2>2
<1>5. (p - 1) * (p - 1) = p * p - 2 * p + 1 /\ p * p \in Nat \ {0}
  BY <1>1
<1>6. x * resolution + h \in 0..(p * p - 1)
  BY <1>1, <1>2, <1>3, <1>4, <1>5
<1>7. (x * resolution + h) % DoubleWords = x * resolution + h
  BY <1>2, <1>5, <1>6, Fits
<1>8. QED
  BY <1>1, <1>7 DEF ProductIndex, Nearest

(* A carry out of a word shows in the sum being less than what was there. *)
Carried(sum, u) == IF sum < u THEN 1 ELSE 0

LEMMA Carry ==
  ASSUME NEW d \in Nat \ {0}, NEW u \in 0..(d - 1), NEW v \in 0..(d - 1)
  PROVE  /\ (u + v) % d \in 0..(d - 1)
         /\ u + v = Carried((u + v) % d, u) * d + ((u + v) % d)
<1>1. PICK y \in Int : y = u + v
  OBVIOUS
<1>2. CASE y < d
  <2>1. y % d = y
    BY <1>1, <1>2, Fits
  <2>2. QED
    BY <1>1, <1>2, <2>1 DEF Carried
<1>3. CASE y >= d
  <2>1. y - d \in 0..(d - 1) /\ y = 1 * d + (y - d) /\ 1 \in Int
    BY <1>1, <1>3
  <2>2. PICK z \in 0..(d - 1) : z = y - d
    BY <2>1
  <2>3. y % d = z
    BY <2>1, <2>2, Quotient
  <2>4. z < u
    BY <1>1, <2>2
  <2>5. QED
    BY <1>1, <2>1, <2>2, <2>3, <2>4 DEF Carried
<1>4. QED
  BY <1>1, <1>2, <1>3

(* The product of x and res, with h added, from two halves of B each: its  *)
(* high word and its low one.                                              *)
LEMMA HighAndLow ==
  ASSUME NEW B \in Nat \ {0}, NEW x \in 0..(B * B - 1),
         NEW res \in 1..(B - 1), NEW h \in 0..(B * B - 1)
  PROVE  LET a == (x \div B) * res
             b == (x % B) * res
             a_lo == (a * B) % (B * B)
             low == (a_lo + b) % (B * B)
             low_rounded == (low + h) % (B * B)
         IN  /\ low_rounded \in 0..(B * B - 1)
             /\ \E hi \in Nat :
                  /\ hi = (a \div B) + Carried(low, a_lo) + Carried(low_rounded, low)
                  /\ x * res + h = hi * (B * B) + low_rounded
<1> DEFINE a == (x \div B) * res
           b == (x % B) * res
           a_lo == (a * B) % (B * B)
           low == (a_lo + b) % (B * B)
           low_rounded == (low + h) % (B * B)
<1>d. PICK D \in Nat \ {0} : D = B * B
  <2>1. B * B \in Nat \ {0}
    OBVIOUS
  <2>2. QED
    BY <2>1
<1>0. /\ a = (x \div B) * res /\ b = (x % B) * res
      /\ a_lo = (a * B) % D /\ low = (a_lo + b) % D
      /\ low_rounded = (low + h) % D
      /\ h \in 0..(D - 1)
  BY <1>d, Zenon
<1> HIDE DEF a, b, a_lo, low, low_rounded
<1>1. PICK a1 \in Int, b1 \in 0..(B - 1) :
        x = a1 * B + b1 /\ x \div B = a1 /\ x % B = b1
  <2>1. x \in Int
    OBVIOUS
  <2>2. QED
    BY <2>1, Splits, Zenon
<1>2. a1 >= 0
  <2>1. SUFFICES ASSUME a1 <= -1 PROVE FALSE
    OBVIOUS
  <2>2. a1 * B <= -B /\ a1 * B \in Int
    BY <2>1
  <2>3. QED
    BY <1>1, <2>2
<1>3. a = a1 * res /\ b = b1 * res /\ a \in Nat /\ b \in Nat
  BY <1>0, <1>1, <1>2
<1>4. b \in 0..(D - 1)
  <2>1. b1 * res <= b1 * (B - 1) /\ b1 * (B - 1) <= (B - 1) * (B - 1)
    BY <1>1
  <2>2. (B - 1) * (B - 1) = B * B - 2 * B + 1
    OBVIOUS
  <2>3. b1 * (B - 1) \in Int /\ B * B \in Int
    BY <1>1
  <2>4. QED
    BY <1>3, <1>d, <2>1, <2>2, <2>3
<1>5. PICK q1 \in Int, r1 \in 0..(B - 1) : a = q1 * B + r1 /\ a \div B = q1
  <2>1. a \in Int
    BY <1>3
  <2>2. QED
    BY <2>1, Splits, Zenon
<1>6. q1 \in Nat
  <2>1. SUFFICES ASSUME q1 <= -1 PROVE FALSE
    OBVIOUS
  <2>2. q1 * B <= -B /\ q1 * B \in Int
    BY <2>1
  <2>3. QED
    BY <1>3, <1>5, <2>2
<1>7. PICK lo \in 0..(D - 1) : lo = r1 * B
  <2>1. r1 * B >= 0 /\ r1 * B <= (B - 1) * B /\ (B - 1) * B = B * B - B
    BY <1>5
  <2>2. r1 * B \in Int /\ B * B \in Int
    BY <1>5
  <2>3. QED
    BY <1>d, <2>1, <2>2
<1>8. a_lo = lo
  <2>1. PICK y \in Int : y = a * B
    BY <1>3
  <2>2. y = q1 * D + lo
    BY <1>5, <1>7, <1>d, <2>1
  <2>3. y % D = lo
    BY <2>2, Quotient
  <2>4. QED
    BY <1>0, <2>1, <2>3
<1>9. PICK c \in {0, 1} : c = Carried(low, a_lo)
  BY Zenon DEF Carried
<1>10. low \in 0..(D - 1) /\ lo + b = c * D + low
  <2>1. low = (lo + b) % D /\ c = Carried(low, lo)
    BY <1>0, <1>8, <1>9, Zenon
  <2>2. /\ (lo + b) % D \in 0..(D - 1)
        /\ lo + b = Carried((lo + b) % D, lo) * D + ((lo + b) % D)
    BY <1>4, Carry, Zenon
  <2>3. QED
    BY <2>1, <2>2
<1>11. PICK c2 \in {0, 1} : c2 = Carried(low_rounded, low)
  BY Zenon DEF Carried
<1>12. low_rounded \in 0..(D - 1) /\ low + h = c2 * D + low_rounded
  <2>1. low_rounded = (low + h) % D
    BY <1>0, Zenon
  <2>2. /\ (low + h) % D \in 0..(D - 1)
        /\ low + h = Carried((low + h) % D, low) * D + ((low + h) % D)
    BY <1>0, <1>10, Carry, Zenon
  <2>3. QED
    BY <1>11, <2>1, <2>2
<1>13. PICK hi \in Nat : hi = q1 + c + c2
  BY <1>6, <1>9, <1>11
<1>14. x * res + h = hi * D + low_rounded
  <2>1. x * res = a * B + b
    BY <1>1, <1>3
  <2>2. a * B = q1 * D + lo
    BY <1>5, <1>7, <1>d
  <2>3. hi * D = q1 * D + c * D + c2 * D
    BY <1>9, <1>11, <1>13
  <2>4. /\ x * res \in Int /\ a * B \in Int /\ q1 * D \in Int /\ c * D \in Int
        /\ c2 * D \in Int /\ hi * D \in Int
    BY <1>3, <1>9, <1>11
  <2>5. low \in Int /\ low_rounded \in Int /\ b \in Int /\ lo \in Int /\ h \in Int
    BY <1>0, <1>3, <1>7, <1>10, <1>12
  <2>6. QED
    BY <1>10, <1>12, <2>1, <2>2, <2>3, <2>4, <2>5
<1>15. /\ low_rounded \in 0..(B * B - 1)
       /\ hi = (a \div B) + Carried(low, a_lo) + Carried(low_rounded, low)
       /\ x * res + h = hi * (B * B) + low_rounded
  BY <1>5, <1>9, <1>11, <1>12, <1>13, <1>14, <1>d
<1>16. QED
  BY <1>15 DEF a, b, a_lo, low, low_rounded

LEMMA HalvesIsNearest ==
  ASSUME Typed, qbit > half, NEW x \in 0..(Q - 1)
  PROVE  HalvesIndex(x) = Nearest(x)
<1>1. PICK B \in Nat \ {0}, h \in Nat \ {0}, D \in Nat \ {0} :
        B = pow2[half] /\ h = pow2[qbit - 1] /\ D = DoubleWords /\ D = B * B
  <2>1. pow2[half] * pow2[half] \in Nat \ {0}
    BY Scales
  <2>2. QED
    BY <2>1, Scales
<1>2. /\ resolution \in 1..(B - 1) /\ Q = 2 * h
      /\ qbit \in Nat \ {0} /\ half \in Nat \ {0} /\ qbit <= 2 * half
  BY <1>1, Scales
<1>3. PICK R \in Nat \ {0} : R = pow2[2 * half - qbit] /\ D = R * Q
  <2>1. 2 * half - qbit \in Nat /\ (2 * half - qbit) + qbit = 2 * half
    BY <1>2
  <2>2. pow2[(2 * half - qbit) + qbit] = pow2[2 * half - qbit] * pow2[qbit]
        /\ pow2[2 * half - qbit] \in Nat \ {0}
    BY <1>2, <2>1, PowersOfTwo
  <2>3. QED
    BY <1>1, <2>1, <2>2 DEF Q, DoubleWords
<1>4. Q <= D /\ h < Q
  <2>1. R * Q >= Q
    BY <1>2, <1>3
  <2>2. QED
    BY <1>1, <1>2, <1>3, <2>1
<1>5. x \in 0..(D - 1) /\ h \in 0..(D - 1)
  BY <1>1, <1>2, <1>4
<1> DEFINE a == (x \div B) * resolution
           b == (x % B) * resolution
           a_lo == (a * B) % (B * B)
           low == (a_lo + b) % (B * B)
           low_rounded == (low + h) % (B * B)
<1>6. /\ low_rounded \in 0..(B * B - 1)
      /\ \E hi \in Nat :
           /\ hi = (a \div B) + Carried(low, a_lo)
                              + Carried(low_rounded, low)
           /\ x * resolution + h = hi * (B * B) + low_rounded
  <2>1. resolution \in 1..(B - 1) /\ x \in 0..(B * B - 1) /\ h \in 0..(B * B - 1)
    BY <1>1, <1>2, <1>5
  <2>2. QED
    BY <2>1, HighAndLow, ZenonT(30)
<1>7. PICK hi \in Nat :
        /\ hi = (a \div B) + Carried(low, a_lo)
                           + Carried(low_rounded, low)
        /\ x * resolution + h = hi * (B * B) + low_rounded
  BY <1>6, Zenon
<1>8. HalvesIndex(x) =
        (IF qbit = 2 * half THEN hi ELSE (low_rounded \div Q) + ((hi * R) % D)) % resolution
  BY <1>1, <1>3, <1>7, Zenon DEF HalvesIndex, Carried
<1> HIDE DEF a, b, a_lo, low, low_rounded
<1>9. PICK y \in Int, lr \in 0..(D - 1) :
        y = x * resolution + h /\ lr = low_rounded /\ y = hi * D + lr
  BY <1>1, <1>2, <1>6, <1>7
<1>10. Nearest(x) = (y \div Q) % resolution
  BY <1>1, <1>9 DEF Nearest
<1>11. CASE qbit = 2 * half
  <2>1. Q = D
    BY <1>1, <1>11 DEF Q, DoubleWords
  <2>2. y \div D = hi
    BY <1>9, Quotient
  <2>3. QED
    BY <1>8, <1>10, <1>11, <2>1, <2>2
<1>12. CASE qbit # 2 * half
  <2>1. PICK q \in Nat \ {0} : q = Q
    BY <1>2
  <2>2. PICK e \in Int, s \in 0..(q - 1) : lr = e * q + s /\ lr \div q = e
    BY <1>9, <2>1, Splits
  <2>3. PICK t \in Nat : t = hi * R
    BY <1>3, <1>7
  <2>4. t < D
    <3>1. hi * D = t * q
      BY <1>3, <1>7, <2>1, <2>3
    <3>2. y < q * (resolution + 1)
      <4>1. x * resolution <= q * resolution /\ q * (resolution + 1) = q * resolution + q
        BY <1>2, <2>1
      <4>2. x * resolution \in Int /\ q * resolution \in Int
        BY <1>2, <2>1
      <4>3. QED
        BY <1>1, <1>4, <1>9, <2>1, <4>1, <4>2
    <3>3. t < B
      <4>1. SUFFICES ASSUME t >= B PROVE FALSE
        BY <1>1, <2>3
      <4>2. t * q >= B * q /\ B * q >= (resolution + 1) * q
        BY <1>1, <1>2, <2>1, <2>3, <4>1
      <4>3. t * q \in Int /\ B * q \in Int /\ (resolution + 1) * q \in Int
            /\ (resolution + 1) * q = q * (resolution + 1)
        BY <1>1, <1>2, <2>1, <2>3
      <4>4. QED
        BY <1>9, <3>1, <3>2, <4>2, <4>3
    <3>4. B <= B * B
      BY <1>1
    <3>5. QED
      BY <1>1, <2>3, <3>3, <3>4
  <2>5. t % D = t
    BY <2>3, <2>4, Fits
  <2>6. PICK u \in Int : u = e + t
    BY <2>2, <2>3
  <2>7. y = u * q + s
    <3>1. u * q = e * q + t * q /\ t * q = hi * D
      BY <1>3, <1>7, <2>1, <2>2, <2>3, <2>6
    <3>2. e * q \in Int /\ t * q \in Int /\ hi * D \in Int /\ s \in Int
      BY <1>7, <2>1, <2>2, <2>3
    <3>3. QED
      BY <1>9, <2>2, <3>1, <3>2
  <2>8. y \div q = u
    BY <1>9, <2>7, Quotient
  <2>9. QED
    BY <1>8, <1>9, <1>10, <1>12, <2>1, <2>2, <2>3, <2>5, <2>6, <2>8
<1>13. QED
  BY <1>11, <1>12

(* What is read is the nearest slot, whichever branch reads it. *)
LEMMA ReadsNearest ==
  ASSUME Inv, pc = "noisy"
  PROVE  value \in 0..(Q - 1) /\ index(value) = Nearest(value)
<1>1. Typed /\ IsDial /\ qbit > k /\ qbit \in Nat /\ half \in Nat /\ Q \in Nat \ {0}
  BY Scales DEF Inv, IsDial
<1>2. PICK y \in Int : value = y % Q
  <2>1. raw % resolution \in Int /\ resolution \in Nat \ {0} /\ noise \in Int
    <3>1. raw \in Int /\ resolution \in Nat \ {0} /\ noise \in Int
      BY <1>1, Scales DEF Inv, Typed
    <3>2. QED
      BY <3>1, Splits
  <2>2. (raw % resolution) * Q \in Int
    BY <1>1, <2>1
  <2>3. ((raw % resolution) * Q) \div resolution \in Int
    BY <2>1, <2>2, Splits
  <2>4. value = (((raw % resolution) * Q) \div resolution + noise) % Q
    BY DEF Inv
  <2>5. QED
    BY <2>1, <2>3, <2>4
<1>3. value \in 0..(Q - 1)
  BY <1>1, <1>2, Splits
<1>4. CASE is_power_of_two
  <2>1. index(value) = ShiftIndex(value)
    BY <1>4 DEF index
  <2>2. QED
    BY <1>1, <1>3, <1>4, <2>1, ShiftIsNearest
<1>5. CASE ~ is_power_of_two /\ qbit <= half
  <2>1. index(value) = ProductIndex(value)
    BY <1>1, <1>5 DEF index
  <2>2. QED
    BY <1>1, <1>3, <1>5, <2>1, ProductIsNearest
<1>6. CASE ~ is_power_of_two /\ qbit > half
  <2>1. index(value) = HalvesIndex(value)
    BY <1>1, <1>6 DEF index
  <2>2. QED
    BY <1>1, <1>3, <1>6, <2>1, HalvesIsNearest
<1>7. QED
  BY <1>1, <1>3, <1>4, <1>5, <1>6

(* index() rounds to the nearest slot, halves up, whichever of its branches *)
(* is compiled: the shift, the product in one word, or the product in two   *)
(* halves with both carries (dial.hpp).                                     *)
THEOREM IndexNearest == Spec => []IndexIsNearestSlot
<1>1. Inv => IndexIsNearestSlot
  <2> SUFFICES ASSUME Inv, pc = "noisy"
               PROVE  index(value) = ((2 * value * resolution + Q) \div (2 * Q)) % resolution
    BY DEF IndexIsNearestSlot
  <2>1. Typed /\ value \in Int
    BY DEF Inv
  <2>2. QED
    BY <2>1, NearestIsRounded, ReadsNearest
<1>2. QED
  BY <1>1, InitInv, NextInv, PTL DEF Spec

-----------------------------------------------------------------------------
(* The margin.                                                             *)

(* Noise below the margin(), added to a slot's value, does not move the    *)
(* slot read back, though the value was already rounded down (dial.hpp).   *)
THEOREM MarginSurvives == Spec => []SurvivesNoiseBelowMargin
<1>1. Inv => SurvivesNoiseBelowMargin
  <2> SUFFICES ASSUME Inv, pc = "noisy", HasMargin, noise \in (1 - margin)..(margin - 1)
               PROVE  index(value) = raw
    BY DEF SurvivesNoiseBelowMargin
  <2>1. Typed /\ IsDial /\ index(value) = Nearest(value)
    BY ReadsNearest DEF Inv
  <2>2. PICK res \in Nat \ {0}, h \in Nat \ {0}, q \in Nat \ {0} :
          res = resolution /\ h = pow2[qbit - 1] /\ q = Q /\ q = 2 * h
    BY <2>1, Scales
  <2>3. PICK slot \in 0..(res - 1) : slot = raw /\ raw % res = slot
    <3>1. raw \in 0..(res - 1)
      BY <2>1, <2>2 DEF Typed, IsDial
    <3>2. QED
      BY <2>2, <3>1, Fits
  <2>4. PICK m \in Int, left \in 0..(2 * res - 1) : q = m * (2 * res) + left /\ margin = m
    <3>1. 2 * res \in 0..(pow2[half] - 1) /\ pow2[half] \in Nat \ {0}
      BY <2>1, <2>2, Scales DEF HasMargin
    <3>2. (2 * res) % pow2[half] = 2 * res
      BY <3>1, Fits
    <3>3. 2 * res \in Nat \ {0}
      BY <2>2
    <3>4. \E m \in Int, left \in 0..(2 * res - 1) : q = m * (2 * res) + left /\ q \div (2 * res) = m
      <4>1. q \in Int
        BY <2>2
      <4>2. QED
        BY <3>3, <4>1, Splits, Zenon
    <3>5. margin = q \div (2 * res)
      BY <2>2, <3>2 DEF margin
    <3>6. QED
      BY <3>4, <3>5, Zenon
  <2>5. PICK p \in Int : p = slot * q
    BY <2>2, <2>3
  <2>6. PICK v \in Int, rho \in 0..(res - 1) : p = v * res + rho /\ p \div res = v
    <3>1. \E v \in Int, rho \in 0..(res - 1) :
            p = v * res + rho /\ p \div res = v /\ p % res = rho
      BY <2>2, Splits, ZenonT(30)
    <3>2. QED
      BY <3>1, Zenon
  <2>7. PICK e \in Int : e = noise /\ e >= 1 - m /\ e <= m - 1
    BY <2>4
  <2>8. PICK t \in Int, x \in 0..(q - 1) : v + e = t * q + x /\ value = x
    <3>1. value = (v + e) % q
      BY <2>2, <2>3, <2>5, <2>6, <2>7 DEF Inv
    <3>2. v + e \in Int
      BY <2>6, <2>7
    <3>3. QED
      BY <2>2, <3>1, <3>2, Splits
  <2>9. PICK off \in Int : off = h - rho + e * res
    BY <2>2, <2>6, <2>7
  <2>10. off \in 0..(q - 1)
    <3>1. m * res <= h
      <4>1. m * (2 * res) = 2 * (m * res) /\ m * res \in Int
        BY <2>2, <2>4
      <4>2. QED
        BY <2>2, <2>4, <4>1
    <3>2. (1 - m) * res <= e * res /\ e * res <= (m - 1) * res
      BY <2>2, <2>4, <2>7
    <3>3. (1 - m) * res = res - m * res /\ (m - 1) * res = m * res - res
      BY <2>2, <2>4
    <3>4. m * res \in Int /\ e * res \in Int
      BY <2>2, <2>4, <2>7
    <3>5. QED
      BY <2>2, <2>6, <2>9, <3>1, <3>2, <3>3, <3>4
  <2>11. PICK y \in Int, c \in Int : y = x * res + h /\ c = slot + (-t) * res
    BY <2>2, <2>3, <2>8
  <2>12. y = c * q + off
    <3>1. PICK w \in Int : w = t * q
      BY <2>2, <2>8
    <3>2. v + e = w + x /\ x \in Int /\ e \in Int /\ rho \in Int /\ slot \in Int
      BY <2>3, <2>6, <2>7, <2>8, <3>1
    <3>3. v * res + e * res = w * res + x * res
      <4>1. v \in Int /\ res \in Int
        BY <2>2, <2>6
      <4>2. (v + e) * res = v * res + e * res /\ (w + x) * res = w * res + x * res
        BY <3>1, <3>2, <4>1
      <4>3. QED
        BY <3>2, <4>2
    <3>4. c * q = slot * q - w * res
      <4>1. (slot + (-t) * res) * q = slot * q - (t * q) * res
        BY <2>2, <2>8, <3>2
      <4>2. QED
        BY <2>11, <3>1, <4>1
    <3>5. /\ v * res \in Int /\ e * res \in Int /\ w * res \in Int
          /\ slot * q \in Int /\ x * res \in Int
      BY <2>2, <2>6, <3>1, <3>2
    <3>6. slot * q = v * res + rho /\ h \in Int
      BY <2>2, <2>5, <2>6
    <3>7. y = x * res + h /\ off = h - rho + e * res
      BY <2>9, <2>11
    <3>8. QED
      BY <3>2, <3>3, <3>4, <3>5, <3>6, <3>7
  <2>13. y \div q = c
    BY <2>10, <2>12, Quotient
  <2>14. c % res = slot
    <3>1. slot % res = slot
      BY <2>2, Fits
    <3>2. -t \in Int /\ slot \in Int
      BY <2>3, <2>8
    <3>3. (slot + (-t) * res) % res = slot % res
      BY <2>2, <3>2, MultipleDrops, ZenonT(30)
    <3>4. QED
      BY <2>11, <3>1, <3>3
  <2>15. Nearest(value) = (y \div q) % res
    BY <2>2, <2>8, <2>11 DEF Nearest
  <2>16. QED
    BY <2>1, <2>3, <2>13, <2>14, <2>15
<1>2. QED
  BY <1>1, InitInv, NextInv, PTL DEF Spec
=============================================================================
