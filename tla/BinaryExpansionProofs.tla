----------------------- MODULE BinaryExpansionProofs -----------------------
(* TLAPS proofs about BinaryExpansion, for every number of slots, in any   *)
(* interleaving of their chains: each carries its prefix match, and the    *)
(* whole output is one-hot.                                                *)
EXTENDS BinaryExpansion, SharedLemmas, FiniteSetTheorems

LEMMA kNat == k \in Nat
<1>1. IsFiniteSet(0..H)
  BY FS_Interval, BinaryExpansionAssumption DEF BinaryExpansionAssumption
<1>2. IsFiniteSet({i \in 0..H : pow2[i] < H})
  BY <1>1, FS_Subset
<1>3. QED
  BY <1>2, FS_CardinalityType DEF k

LEMMA BitIsBit == \A h, i : Bit(h, i) \in {0, 1}
  BY DEF Bit

(* Mapping a slot's ready operand: acc, switched if it has to be. *)
LEMMA MaterializedNoise ==
  ASSUME TypeOK, SlotIsPrefixMatch, NEW h \in Slots, NEW p \in Materialized(h)
  PROVE  /\ p \in Int
         /\ p - (IF Matches(h, step[h]) THEN Quarter ELSE 0) \in Noise(LweNoise)
<1> DEFINE m == IF Matches(h, step[h]) THEN Quarter ELSE 0
<1>1. m \in Int /\ acc[h] \in Int
  BY NoiseTypes DEF TypeOK
<1>2. acc[h] - m \in Noise(IF shape[h] = "lwe" THEN LweNoise ELSE Boot)
  BY DEF SlotIsPrefixMatch
<1>3. CASE shape[h] = "lwe"
  BY <1>1, <1>2, <1>3 DEF Materialized
<1>4. CASE shape[h] # "lwe"
  BY <1>1, <1>2, <1>4, SwitchedNoise DEF Materialized
<1>5. QED
  BY <1>3, <1>4

-----------------------------------------------------------------------------
(* One round of a slot's chain. *)
LEMMA StepResult ==
  ASSUME GateBudget, TypeOK, InputsBounded, SlotIsPrefixMatch,
         NEW h \in Slots, step[h] < k, NEW p \in Materialized(h),
         NEW gate, gate = IF Bit(h, step[h]) = 1 THEN "and" ELSE "andnot"
  PROVE  \A r \in GateBootstrap(Quarter, Linear(gate, p, v[step[h]])) :
           /\ r \in Int
           /\ r - (IF Matches(h, step[h] + 1) THEN Quarter ELSE 0) \in Noise(Boot)
<1> DEFINE i == step[h]
           a == IF Matches(h, i) THEN 1 ELSE 0
           b == bits[i]
<1>1. i \in Nat /\ i \in Inputs /\ k \in Nat
  BY kNat DEF TypeOK, Inputs
<1>2. /\ p \in Int /\ p - Quarter * a \in Noise(LweNoise)
      /\ v[i] \in Int /\ v[i] - Quarter * b \in Noise(LweNoise)
      /\ a \in {0, 1} /\ b \in {0, 1} /\ gate \in HomGate
  <2>1. Quarter * a = IF Matches(h, i) THEN Quarter ELSE 0
    BY NoiseTypes
  <2>2. QED
    BY <1>1, <2>1, MaterializedNoise DEF TypeOK, InputsBounded, HomGate
<1>3. Matches(h, i + 1) <=> Matches(h, i) /\ b = Bit(h, i)
  <2>1. 0..((i + 1) - 1) = (0..(i - 1)) \cup {i}
    BY <1>1
  <2>2. QED
    BY <2>1 DEF Matches
<1>4. Truth(gate, a, b) = IF Matches(h, i + 1) THEN 1 ELSE 0
  BY <1>2, <1>3, BitIsBit DEF Truth
<1>5. Quarter * Truth(gate, a, b) = IF Matches(h, i + 1) THEN Quarter ELSE 0
  BY <1>4, NoiseTypes
<1>6. \A r \in GateBootstrap(Quarter, Linear(gate, p, v[i])) :
        r \in Int /\ r - Quarter * Truth(gate, a, b) \in Noise(Boot)
  BY <1>2, GateCorrect
<1>7. QED
  BY <1>5, <1>6

LEMMA InitInv ==
  Init => TypeOK /\ InputsBounded /\ SlotIsPrefixMatch
<1> SUFFICES ASSUME Init PROVE TypeOK /\ InputsBounded /\ SlotIsPrefixMatch
  OBVIOUS
<1> USE NoiseTypes, kNat
<1>1. PICK e \in [Inputs -> Noise(LweNoise)] : v = [i \in Inputs |-> Quarter * bits[i] + e[i]]
  BY DEF Init
<1>2. ASSUME NEW i \in Inputs
      PROVE  v[i] \in Int /\ v[i] - Quarter * bits[i] \in Noise(LweNoise)
  <2>1. e[i] \in Noise(LweNoise) /\ e[i] \in Int /\ bits[i] \in Int /\ Quarter * bits[i] \in Int
    BY <1>1 DEF Init
  <2>2. v[i] = Quarter * bits[i] + e[i]
    BY <1>1
  <2>3. v[i] - Quarter * bits[i] = e[i]
    BY <2>1, <2>2
  <2>4. QED
    BY <2>1, <2>2, <2>3
<1>3. TypeOK
  BY <1>1, <1>2 DEF Init, TypeOK
<1>4. SlotIsPrefixMatch
  <2>1. ASSUME NEW h \in Slots PROVE Matches(h, step[h])
    BY DEF Init, Matches
  <2>2. 0 \in Noise(LweNoise)
    BY DEF Noise
  <2>3. QED
    BY <2>1, <2>2 DEF Init, SlotIsPrefixMatch
<1>5. QED
  BY <1>2, <1>3, <1>4 DEF InputsBounded

LEMMA NextInv ==
  ASSUME GateBudget
  PROVE  TypeOK /\ InputsBounded /\ SlotIsPrefixMatch /\ [Next]_vars
           => (TypeOK /\ InputsBounded /\ SlotIsPrefixMatch)'
<1> SUFFICES ASSUME TypeOK, InputsBounded, SlotIsPrefixMatch, [Next]_vars
             PROVE  (TypeOK /\ InputsBounded /\ SlotIsPrefixMatch)'
  OBVIOUS
<1>1. CASE UNCHANGED vars
  BY <1>1 DEF vars, TypeOK, InputsBounded, SlotIsPrefixMatch, Matches, Inputs
<1>2. ASSUME NEW h \in Slots, Step(h)
      PROVE  (TypeOK /\ InputsBounded /\ SlotIsPrefixMatch)'
  <2> DEFINE i == step[h]
             gate == IF Bit(h, i) = 1 THEN "and" ELSE "andnot"
             m == IF Matches(h, i + 1) THEN Quarter ELSE 0
  <2>1. PICK ready \in Materialized(h) :
          \E out \in GateBootstrap(Quarter, Linear(gate, ready, v[i])) :
            IF FuseKeySwitch
            THEN \E q \in KeySwitch(out) : acc' = [acc EXCEPT ![h] = q]
            ELSE acc' = [acc EXCEPT ![h] = out]
    BY <1>2 DEF Step
  <2>2. PICK out \in GateBootstrap(Quarter, Linear(gate, ready, v[i])) :
          IF FuseKeySwitch
          THEN \E q \in KeySwitch(out) : acc' = [acc EXCEPT ![h] = q]
          ELSE acc' = [acc EXCEPT ![h] = out]
    BY <2>1
  <2>3. i < k
    BY <1>2 DEF Step
  <2>4. out \in Int /\ out - m \in Noise(Boot)
    BY <2>3, StepResult
  <2>5. m \in Int
    BY NoiseTypes
  <2>6. \A q \in KeySwitch(out) : q \in Int /\ q - m \in Noise(LweNoise)
    BY <2>4, <2>5, SwitchedNoise
  <2>7. \E p \in Int : /\ acc' = [acc EXCEPT ![h] = p]
                       /\ p - m \in Noise(IF FuseKeySwitch THEN LweNoise ELSE Boot)
    BY <2>2, <2>4, <2>6 DEF TypeOK
  <2>8. /\ step' = [step EXCEPT ![h] = i + 1]
        /\ shape' = [shape EXCEPT ![h] = IF FuseKeySwitch THEN "lwe" ELSE "rlwe"]
        /\ UNCHANGED <<FuseKeySwitch, v, bits>>
    BY <1>2 DEF Step
  <2>9. TypeOK'
    BY <2>3, <2>7, <2>8, kNat DEF TypeOK
  <2>10. SlotIsPrefixMatch'
    <3>1. \A g \in Slots, n \in Nat : Matches(g, n)' <=> Matches(g, n)
      BY <2>8 DEF Matches
    <3>2. QED
      BY <2>7, <2>8, <3>1 DEF TypeOK, SlotIsPrefixMatch
  <2>11. InputsBounded'
    BY <2>8 DEF InputsBounded
  <2>12. QED
    BY <2>9, <2>10, <2>11
<1>3. ASSUME NEW h \in Slots, Materialize(h)
      PROVE  (TypeOK /\ InputsBounded /\ SlotIsPrefixMatch)'
  <2>1. PICK q \in Materialized(h) : acc' = [acc EXCEPT ![h] = q]
    BY <1>3 DEF Materialize
  <2>2. q \in Int /\ q - (IF Matches(h, step[h]) THEN Quarter ELSE 0) \in Noise(LweNoise)
    BY MaterializedNoise
  <2>3. shape' = [shape EXCEPT ![h] = "lwe"] /\ UNCHANGED <<FuseKeySwitch, v, bits, step>>
    BY <1>3 DEF Materialize
  <2>4. TypeOK' /\ InputsBounded'
    BY <2>1, <2>2, <2>3 DEF TypeOK, InputsBounded
  <2>5. SlotIsPrefixMatch'
    BY <2>1, <2>2, <2>3 DEF TypeOK, SlotIsPrefixMatch, Matches
  <2>6. QED
    BY <2>4, <2>5
<1>4. QED
  BY <1>1, <1>2, <1>3 DEF Next

(* Every chain carries its prefix match, with the noise of one bootstrap,  *)
(* for any number of slots.                                                *)
THEOREM ChainsCarryPrefixMatch ==
  ASSUME GateBudget
  PROVE  Spec => []SlotIsPrefixMatch
<1>1. QED
  BY InitInv, NextInv, PTL DEF Spec

-----------------------------------------------------------------------------
(* Binary numbers.                                                         *)

(* std::bit_width(H - 1) bits are enough to name every slot. *)
LEMMA EnoughBits == H <= pow2[k]
<1> DEFINE S == {i \in Nat : H <= pow2[i]}
<1>0. H \in Nat \ {0}
  BY BinaryExpansionAssumption DEF BinaryExpansionAssumption
<1>1. H \in S
  BY <1>0, Pow2Exceeds, Pow2Positive
<1>2. PICK m \in S : \A j \in S : m <= j
  BY <1>1, LeastNatural
<1>3. {i \in 0..H : pow2[i] < H} = 0..(m - 1)
  <2>1. ASSUME NEW i \in 0..H, pow2[i] < H PROVE i \in 0..(m - 1)
    <3>1. pow2[m] <= pow2[i] \/ i < m
      BY <1>2, Pow2Grows
    <3>2. pow2[i] \in Nat /\ pow2[m] \in Nat
      BY <1>2, Pow2Positive
    <3>3. QED
      BY <1>0, <1>2, <2>1, <3>1, <3>2
  <2>2. ASSUME NEW i \in 0..(m - 1) PROVE i \in 0..H /\ pow2[i] < H
    <3>1. i \in Nat /\ i \notin S
      BY <1>2
    <3>2. pow2[i] \in Nat /\ m <= H
      BY <1>1, <1>2, <3>1, Pow2Positive
    <3>3. QED
      BY <1>0, <1>2, <3>1, <3>2
  <2>3. QED
    BY <2>1, <2>2
<1>4. Cardinality(0..(m - 1)) = m
  BY <1>2, FS_Interval
<1>5. QED
  BY <1>2, <1>3, <1>4 DEF k

(* One bit more. *)
LEMMA BitSplits ==
  ASSUME NEW h \in Nat, NEW j \in Nat
  PROVE  /\ h % pow2[j] \in 0..(pow2[j] - 1)
         /\ h % pow2[j + 1] = (h % pow2[j]) + Bit(h, j) * pow2[j]
<1> DEFINE p == pow2[j]
           q == h \div p
           r == h % p
           c == q \div 2
           b == q % 2
<1>1. p \in Nat \ {0} /\ pow2[j + 1] = 2 * p
  BY Pow2Positive, Pow2Recurrence
<1>2. r \in 0..(p - 1) /\ q \in Int /\ h = q * p + r
  <2> HIDE DEF p
  <2>1. p \in Nat \ {0} /\ h \in Int
    BY <1>1
  <2>2. QED
    BY <2>1, ModSplits, Zenon
<1>3. c \in Int /\ b \in {0, 1} /\ q = c * 2 + b
  BY <1>2
<1>4. Bit(h, j) = b
  BY <1>3 DEF Bit
<1> HIDE DEF p, q, r, c, b
<1>5. h = c * (2 * p) + (r + b * p)
  BY <1>1, <1>2, <1>3
<1>6. r + b * p \in 0..((2 * p) - 1) /\ 2 * p \in Nat \ {0}
  BY <1>1, <1>2, <1>3
<1>7. h % (2 * p) = r + b * p
  BY <1>3, <1>5, <1>6, ModUnique
<1>8. QED
  BY <1>1, <1>2, <1>4, <1>7 DEF p, r

LEMMA SameDigits ==
  ASSUME NEW p \in Nat, NEW x \in 0..(p - 1), NEW y \in 0..(p - 1),
         NEW a \in {0, 1}, NEW b \in {0, 1}, x + a * p = y + b * p
  PROVE  x = y /\ a = b
<1>1. a = 0 \/ a = 1
  OBVIOUS
<1>2. b = 0 \/ b = 1
  OBVIOUS
<1>3. QED
  BY <1>1, <1>2

(* InputValue adds the input's bits up, one power of two after another. *)
LEMMA InputSums ==
  ASSUME TypeOK
  PROVE  \E low \in [0..k -> Int] :
           /\ low[0] = 0
           /\ \A j \in Inputs : low[j + 1] = low[j] + bits[j] * pow2[j]
           /\ InputValue = low[k]
<1> DEFINE d == [j \in Inputs |-> bits[j] * pow2[j]]
           low[n \in 0..k] == IF n = 0 THEN 0 ELSE low[n - 1] + bits[n - 1] * pow2[n - 1]
<1>1. k \in Nat
  BY kNat
<1>2. d \in [0..(k - 1) -> Int]
  <2>1. ASSUME NEW j \in Inputs PROVE bits[j] * pow2[j] \in Int
    <3>1. bits[j] \in {0, 1} /\ pow2[j] \in Nat
      BY <1>1, Pow2Positive DEF TypeOK, Inputs
    <3>2. bits[j] = 0 \/ bits[j] = 1
      BY <3>1
    <3>3. QED
      BY <3>1, <3>2
  <2>2. QED
    BY <2>1 DEF Inputs
<1>3. PICK f : f = [n \in 0..k |-> IF n = 0 THEN 0 ELSE f[n - 1] + d[n - 1]]
  <2> HIDE DEF d
  <2>1. QED
    BY <1>1, <1>2, SumExists DEF Summing
<1>4. \A g : [n \in 0..k |-> IF n = 0 THEN 0 ELSE g[n - 1] + d[n - 1]]
             = [n \in 0..k |-> IF n = 0 THEN 0 ELSE g[n - 1] + bits[n - 1] * pow2[n - 1]]
  BY <1>1 DEF Inputs
<1>5. low = [n \in 0..k |-> IF n = 0 THEN 0 ELSE low[n - 1] + bits[n - 1] * pow2[n - 1]]
  BY <1>3, <1>4, ZenonT(30)
<1>6. InputValue = low[k]
  BY DEF InputValue
<1>7. low = [j \in 0..k |-> IF j = 0 THEN 0 ELSE low[j - 1] + d[j - 1]]
  <2> HIDE DEF low
  <2>1. QED
    BY <1>4, <1>5
<1>8. PICK g : Summing(k, d, g) /\ InputValue = g[k]
  <2> HIDE DEF low, d
  <2>1. QED
    BY <1>6, <1>7 DEF Summing
<1>9. /\ g \in [0..k -> Int]
      /\ g[0] = 0
      /\ \A j \in 0..(k - 1) : g[j + 1] = g[j] + d[j]
  <2> HIDE DEF d
  <2>1. QED
    BY <1>1, <1>2, <1>8, SumTyped, Zenon
<1>10. QED
  BY <1>8, <1>9 DEF Inputs

(* A slot matches the whole input just if it is the input. *)
LEMMA MatchIsValue ==
  ASSUME TypeOK, NEW h \in Slots
  PROVE  Matches(h, k) <=> InputValue = h
<1>0. k \in Nat /\ h \in Nat /\ h < pow2[k] /\ pow2[k] \in Nat \ {0}
  BY kNat, EnoughBits, Pow2Positive, BinaryExpansionAssumption DEF Slots, BinaryExpansionAssumption
<1>1. PICK low \in [0..k -> Int] :
        /\ low[0] = 0
        /\ \A j \in Inputs : low[j + 1] = low[j] + bits[j] * pow2[j]
        /\ InputValue = low[k]
  BY InputSums
<1>2. h % pow2[k] = h
  <2> DEFINE p == pow2[k]
  <2>1. p \in Int /\ h \in 0..(p - 1) /\ 0 \in Int /\ 0 * p + h = h
    BY <1>0
  <2> HIDE DEF p
  <2>2. (0 * p + h) % p = h
    BY <2>1, ModUnique
  <2>3. QED
    BY <2>1, <2>2 DEF p
<1>3. \A j \in Inputs : /\ bits[j] \in {0, 1} /\ Bit(h, j) \in {0, 1}
                        /\ j \in Nat /\ j + 1 \in 0..k /\ j \in 0..k
  BY <1>0, BitIsBit DEF TypeOK, Inputs
<1>4. ASSUME Matches(h, k) PROVE InputValue = h
  <2> DEFINE S == {j \in Nat : j <= k => low[j] = h % pow2[j]}
  <2>1. 0 \in S
    <3>1. pow2[0] = 1
      BY Pow2Recurrence
    <3>2. QED
      BY <1>0, <1>1, <3>1
  <2>2. ASSUME NEW j \in Nat, j \in S PROVE j + 1 \in S
    <3> SUFFICES ASSUME j + 1 <= k PROVE low[j + 1] = h % pow2[j + 1]
      OBVIOUS
    <3>1. j \in Inputs /\ j <= k
      BY <1>0 DEF Inputs
    <3>2. bits[j] = Bit(h, j)
      BY <1>4, <3>1 DEF Matches, Inputs
    <3>3. low[j] = h % pow2[j]
      BY <2>2, <3>1
    <3>4. low[j + 1] = low[j] + bits[j] * pow2[j]
      BY <1>1, <3>1
    <3>5. h % pow2[j + 1] = (h % pow2[j]) + Bit(h, j) * pow2[j]
      BY <1>0, BitSplits
    <3>6. QED
      BY <3>2, <3>3, <3>4, <3>5
  <2> HIDE DEF S
  <2>3. k \in S
    BY <1>0, <2>1, <2>2, Induction
  <2>4. QED
    BY <1>0, <1>1, <1>2, <2>3 DEF S
<1>5. ASSUME InputValue = h PROVE Matches(h, k)
  <2>1. \A j \in 0..k : low[j] \in 0..(pow2[j] - 1)
    <3> DEFINE S == {j \in Nat : j <= k => low[j] \in 0..(pow2[j] - 1)}
    <3>1. 0 \in S
      BY <1>1, Pow2Recurrence
    <3>2. ASSUME NEW j \in Nat, j \in S PROVE j + 1 \in S
      <4> SUFFICES ASSUME j + 1 <= k PROVE low[j + 1] \in 0..(pow2[j + 1] - 1)
        OBVIOUS
      <4>1. j \in Inputs /\ j <= k
        BY <1>0 DEF Inputs
      <4>2. pow2[j] \in Nat /\ pow2[j + 1] = 2 * pow2[j]
        BY Pow2Positive, Pow2Recurrence
      <4>3. low[j] \in 0..(pow2[j] - 1) /\ low[j + 1] = low[j] + bits[j] * pow2[j]
        BY <1>1, <3>2, <4>1
      <4>4. bits[j] = 0 \/ bits[j] = 1
        BY <1>3, <4>1
      <4>5. QED
        BY <4>2, <4>3, <4>4
    <3> HIDE DEF S
    <3>3. \A j \in Nat : j \in S
      BY <3>1, <3>2, Induction
    <3>4. QED
      BY <1>0, <3>3 DEF S
  <2>2. ASSUME NEW j \in Inputs, low[j + 1] = h % pow2[j + 1]
        PROVE  low[j] = h % pow2[j] /\ bits[j] = Bit(h, j)
    <3>1. /\ j \in Nat /\ j \in 0..k /\ pow2[j] \in Nat
          /\ bits[j] \in {0, 1} /\ Bit(h, j) \in {0, 1}
      BY <1>3, Pow2Positive
    <3>2. low[j] + bits[j] * pow2[j] = (h % pow2[j]) + Bit(h, j) * pow2[j]
      BY <1>0, <1>1, <2>2, <3>1, BitSplits
    <3>3. low[j] \in 0..(pow2[j] - 1) /\ h % pow2[j] \in 0..(pow2[j] - 1)
      BY <1>0, <2>1, <3>1, BitSplits
    <3>4. QED
      BY <3>1, <3>2, <3>3, SameDigits
  <2> DEFINE S == {i \in Nat : i <= k => low[k - i] = h % pow2[k - i]}
  <2>3. 0 \in S
    <3>1. k - 0 = k /\ 0 <= k
      BY <1>0
    <3>2. QED
      BY <1>1, <1>2, <1>5, <3>1
  <2>4. ASSUME NEW i \in Nat, i \in S PROVE i + 1 \in S
    <3> SUFFICES ASSUME i + 1 <= k PROVE low[k - (i + 1)] = h % pow2[k - (i + 1)]
      OBVIOUS
    <3>1. /\ k - (i + 1) \in Inputs /\ (k - (i + 1)) + 1 = k - i /\ i <= k
      BY <1>0 DEF Inputs
    <3>2. low[k - i] = h % pow2[k - i]
      BY <2>4, <3>1
    <3>3. QED
      BY <2>2, <3>1, <3>2
  <2> HIDE DEF S
  <2>5. \A i \in Nat : i \in S
    BY <2>3, <2>4, Induction
  <2>6. ASSUME NEW j \in Inputs PROVE bits[j] = Bit(h, j)
    <3>1. k - (j + 1) \in Nat /\ k - (j + 1) <= k /\ k - (k - (j + 1)) = j + 1
      BY <1>0 DEF Inputs
    <3>2. low[j + 1] = h % pow2[j + 1]
      BY <2>5, <3>1 DEF S
    <3>3. QED
      BY <2>2, <3>2
  <2>7. QED
    BY <2>6 DEF Matches, Inputs
<1>6. QED
  BY <1>4, <1>5

-----------------------------------------------------------------------------

(* Noise below an eighth of a turn leaves a boolean where it was. *)
LEMMA BooleanReads ==
  ASSUME GateBudget, NEW p \in Int, NEW x \in {0, 1},
         p - Quarter * x \in Noise(LweNoise) \/ p - Quarter * x \in Noise(Boot)
  PROVE  Reads(4, p, x)
<1> USE GatesAssumption DEF GatesAssumption, Quarter, Turn
<1>1. LweNoise \in Nat /\ Boot <= LweNoise /\ 2 * LweNoise + Drift < U
  BY NoiseTypes DEF GateBudget, Eighth
<1>2. p - 2 * U * x > -U /\ p - 2 * U * x < U
  BY <1>1 DEF Noise
<1>3. x = 0 \/ x = 1
  OBVIOUS
<1>4. LET e == 2 * 4 * (p + 0 * Turn) - 2 * x * Turn IN -Turn <= e /\ e < Turn
  BY <1>2, <1>3
<1>5. 0 \in Turns
  BY DEF Turns
<1>6. QED
  BY <1>4, <1>5 DEF Reads

(* The finished output of an expansion of any size is the one-hot code of  *)
(* its input (l.21-25), fused or not, materialized or not; an input beyond *)
(* the last slot reads as zeros.                                           *)
THEOREM OutputIsOneHot ==
  ASSUME GateBudget
  PROVE  Spec => []OneHot
<1>1. ASSUME TypeOK, SlotIsPrefixMatch PROVE OneHot
  <2> SUFFICES ASSUME \A h \in Slots : step[h] = k, NEW h \in Slots
               PROVE  Reads(4, acc[h], IF InputValue = h THEN 1 ELSE 0)
    BY DEF OneHot
  <2> DEFINE x == IF InputValue = h THEN 1 ELSE 0
  <2>1. Matches(h, step[h]) <=> x = 1
    BY <1>1, MatchIsValue
  <2>2. Quarter * x = IF Matches(h, step[h]) THEN Quarter ELSE 0
    BY <2>1, NoiseTypes
  <2>3. acc[h] \in Int /\ x \in {0, 1}
    BY <1>1 DEF TypeOK
  <2>4. acc[h] - Quarter * x \in Noise(LweNoise) \/ acc[h] - Quarter * x \in Noise(Boot)
    BY <1>1, <2>2 DEF SlotIsPrefixMatch
  <2> HIDE DEF x
  <2>5. Reads(4, acc[h], x)
    BY <2>3, <2>4, BooleanReads
  <2>6. QED
    BY <2>5 DEF x
<1>2. QED
  BY <1>1, InitInv, NextInv, PTL DEF Spec
=============================================================================
