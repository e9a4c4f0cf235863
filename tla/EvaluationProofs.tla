-------------------------- MODULE EvaluationProofs --------------------------
(***************************************************************************)
(* TLAPS proofs about what a program reads and what it hands over.         *)
(* Evaluation: for any number of wires, any torus scale and any noise      *)
(* bounds and resolutions within the budget, a program of any length and   *)
(* depth reads its results right.  Serialization: whatever is packed into  *)
(* a buffer, and wherever it is cut, comes out as it went in or throws.    *)
(***************************************************************************)
EXTENDS Evaluation, Serialization, SharedLemmas

LEMMA DivExact ==
  ASSUME NEW n \in Int, NEW r \in Nat \ {0}
  PROVE  (n * r) \div r = n
  OBVIOUS

(* Where the slots of a resolution lie. *)
LEMMA SlotIs ==
  ASSUME NEW r \in Resolution, NEW v \in Nat
  PROVE  /\ Slot(r, v) \in Int
         /\ r * Slot(r, v) = Turn * v
         /\ Slot(r, v) = v * (Turn \div r)
<1> USE GatesAssumption, EvaluationAssumption DEF GatesAssumption, EvaluationAssumption
<1>1. r \in Nat \ {0} /\ Turn \in Nat /\ Turn % r = 0
  BY NoiseTypes
<1>2. PICK s \in Int : s = Turn \div r
  BY <1>1
<1>3. Turn = s * r
  BY <1>1, <1>2
<1>4. Turn * v = (s * v) * r
  BY <1>1, <1>2, <1>3
<1>5. Slot(r, v) = s * v
  <2>1. s * v \in Int
    BY <1>2
  <2>2. ((s * v) * r) \div r = s * v
    BY ONLY <1>1, <2>1, DivExact
  <2>3. QED
    BY <1>4, <2>2 DEF Slot
<1>6. QED
  BY <1>1, <1>2, <1>4, <1>5

LEMMA QuarterSlot ==
  ASSUME NEW v \in {0, 1}
  PROVE  Slot(4, v) = Quarter * v
  BY GatesAssumption DEF GatesAssumption, Slot, Turn, Quarter

-----------------------------------------------------------------------------
(* Type correctness                                                        *)

LEMMA TruthIsBit == \A g \in HomGate, a, b \in {0, 1} : Truth(g, a, b) \in {0, 1}
  BY DEF Truth, HomGate

LEMMA BootstrapInt ==
  ASSUME NEW mu \in Int, NEW p \in Int
  PROVE  \A r \in GateBootstrap(mu, p) : r \in Int
<1> SUFFICES ASSUME NEW r \in GateBootstrap(mu, p) PROVE r \in Int
  OBVIOUS
<1>1. PICK d \in Noise(Drift), e \in Noise(Boot) :
        r = (IF InFarHalf(p + d) THEN mu ELSE 0) + e
  BY DEF GateBootstrap
<1>2. QED
  BY <1>1, NoiseTypes, GatesAssumption DEF GatesAssumption, Noise

LEMMA LinearInt ==
  ASSUME NEW g \in HomGate, NEW p \in Int, NEW q \in Int
  PROVE  Linear(g, p, q) \in Int
  BY NoiseTypes DEF HomGate, Linear, HomAnd, HomAndNot, HomOr, HomXor

LEMMA AssignTypeOK ==
  ASSUME TypeOK, NEW w \in Wire, NEW s \in {"lwe", "rlwe"}, NEW p \in Int,
         NEW r \in Resolution, NEW v \in Nat, v < r, Assign(w, s, p, r, v)
  PROVE  TypeOK'
  BY EvaluationAssumption DEF EvaluationAssumption, TypeOK, Assign

LEMMA NextTypeOK == TypeOK /\ [Next]_vars => TypeOK'
<1> SUFFICES ASSUME TypeOK, [Next]_vars PROVE TypeOK'
  OBVIOUS
<1> USE EvaluationAssumption DEF EvaluationAssumption
<1>q. Quarter \in Int /\ \A b \in Nat : Noise(b) \subseteq Int
  BY NoiseTypes
<1>s. ASSUME NEW p \in Int PROVE \A q \in KeySwitch(p) : q \in Int
  BY <1>q, GatesAssumption DEF KeySwitch, GatesAssumption, Noise
<1>1. CASE UNCHANGED vars
  BY <1>1 DEF vars, TypeOK
<1>2. ASSUME NEW w \in Wire, NEW r \in Resolution, NEW v \in 0..r, Lift(w, r, v)
      PROVE  TypeOK'
  <2>1. PICK e \in Noise(Fresh) : Assign(w, "lwe", Slot(r, v) + e, r, v)
    BY <1>2 DEF Lift
  <2>2. Slot(r, v) + e \in Int /\ v \in Nat /\ v < r
    BY <1>2, <1>q, SlotIs, GatesAssumption DEF Lift, GatesAssumption
  <2>3. QED
    BY <2>1, <2>2, AssignTypeOK
<1>3. ASSUME NEW w \in Wire, Materialize(w) PROVE TypeOK'
  BY <1>3, <1>s DEF Materialize, TypeOK, is_ready
<1>4. ASSUME NEW g \in HomGate, NEW a \in Wire, NEW b \in Wire, NEW w \in Wire,
             HomOp(g, a, b, w) \/ HomOpFused(g, a, b, w)
      PROVE  TypeOK'
  <2>1. value[a] \in {0, 1} /\ value[b] \in {0, 1}
    BY <1>4 DEF HomOp, HomOpFused, GateReady
  <2>2. Truth(g, value[a], value[b]) \in Nat /\ Truth(g, value[a], value[b]) < 4
    BY <2>1, TruthIsBit
  <2>3. \A p \in GateBootstrap(Quarter, Linear(g, phase[a], phase[b])) : p \in Int
    BY <1>q, LinearInt, BootstrapInt DEF TypeOK
  <2>4. QED
    BY <1>4, <1>s, <2>2, <2>3, AssignTypeOK DEF HomOp, HomOpFused
<1>5. ASSUME NEW a \in Wire, NEW in \in Resolution, NEW out \in Resolution,
             NEW w \in Wire, Reslot(a, in, out, w) \/ ReslotFused(a, in, out, w)
      PROVE  TypeOK'
  <2>1. value[a] \in Nat /\ value[a] < out
    BY <1>5 DEF Reslot, ReslotFused, ReslotReady
  <2>2. (in \div 2) * phase[a] \in Int /\ Slot(out, 1) \in Int
    BY SlotIs DEF TypeOK
  <2>3. \A p \in Reslotted(phase[a], in, out) : p \in Int
    BY <2>2, BootstrapInt DEF Reslotted
  <2>4. QED
    BY <1>5, <1>s, <2>1, <2>3, AssignTypeOK DEF Reslot, ReslotFused
<1>6. QED
  BY <1>1, <1>2, <1>3, <1>4, <1>5 DEF Next

(* Every wire is one of Cipher's two shapes or not yet set, and names a    *)
(* slot its resolution has.                                                *)
THEOREM TypeCorrect == Spec => []TypeOK
<1>1. Init => TypeOK
  BY EvaluationAssumption DEF Init, TypeOK, EvaluationAssumption
<1>2. QED
  BY <1>1, NextTypeOK, PTL DEF Spec

-----------------------------------------------------------------------------
(* Noise                                                                   *)

(* A Reslot decides for slot 1 exactly when its operand is in slot 1. *)
LEMMA ReslotCorrect ==
  ASSUME NEW in \in Resolution, NEW out \in Resolution, ResolutionBudget(in),
         NEW a \in {0, 1}, NEW p \in Int, p - Slot(in, a) \in Noise(LweNoise)
  PROVE  \A r \in Reslotted(p, in, out) :
           r \in Int /\ r - Slot(out, a) \in Noise(Boot)
<1> USE GatesAssumption, EvaluationAssumption DEF GatesAssumption, EvaluationAssumption
<1> DEFINE m == in \div 2
<1>1. m \in Nat /\ in = 2 * m /\ in \in Nat /\ LweNoise \in Nat /\ Turn = 8 * U
  BY NoiseTypes DEF Turn
<1>2. m * Slot(in, a) = 4 * U * a
  <2>1. in * Slot(in, a) = 8 * U * a /\ Slot(in, a) \in Int
    BY <1>1, SlotIs
  <2>2. 2 * (m * Slot(in, a)) = 2 * (4 * U * a)
    BY <1>1, <2>1
  <2>3. QED
    BY <1>1, <2>1, <2>2
<1>3. PICK e \in Int : e = p - Slot(in, a) /\ -LweNoise <= e /\ e <= LweNoise
  BY <1>1, SlotIs DEF Noise
<1>4. m * p = 4 * U * a + m * e
  <2>1. PICK s \in Int : s = Slot(in, a)
    BY SlotIs
  <2>2. p = s + e
    BY <1>3, <2>1
  <2>3. m * (s + e) = m * s + m * e
    BY <1>1, <2>1
  <2>4. QED
    BY <1>2, <2>1, <2>2, <2>3
<1>5. -(m * LweNoise) <= m * e /\ m * e <= m * LweNoise
  BY <1>1, <1>3
<1>6. m * LweNoise + Drift < 2 * U
  BY DEF ResolutionBudget, Quarter
<1>7. /\ a = 1 => Quarter <= m * p - Drift /\ m * p + Drift < 3 * Quarter
      /\ a = 0 => /\ -Quarter <= m * p - 0 * Turn - Drift
                  /\ m * p - 0 * Turn + Drift < Quarter
  BY <1>1, <1>3, <1>4, <1>5, <1>6 DEF Quarter
<1>8. Slot(out, 1) \in Int /\ Slot(out, 1) * a = Slot(out, a) /\ m * p \in Int
  <2>1. Slot(out, 1) \in Int /\ Slot(out, 1) = 1 * (Turn \div out) /\ Slot(out, 0) = 0 * (Turn \div out)
    BY SlotIs
  <2>2. Turn \div out \in Int
    BY <1>1
  <2>3. m * p \in Int
    BY <1>1
  <2>4. CASE a = 0
    BY <2>1, <2>2, <2>3, <2>4
  <2>5. CASE a = 1
    BY <2>1, <2>3, <2>5
  <2>6. QED
    BY <2>4, <2>5
<1>9. QED
  BY <1>7, <1>8, BootstrapDecides DEF Reslotted

LEMMA AssignBounded ==
  ASSUME TypeOK, NoiseStaysBounded, NEW w \in Wire, NEW s \in {"lwe", "rlwe"},
         NEW p, NEW r, NEW v,
         p - Slot(r, v) \in Noise(NoiseOf(s)), Assign(w, s, p, r, v)
  PROVE  NoiseStaysBounded'
  BY DEF TypeOK, NoiseStaysBounded, Assign

LEMMA NextBounded ==
  ASSUME GateBudget, \A r \in Resolution : ResolutionBudget(r)
  PROVE  TypeOK /\ NoiseStaysBounded /\ [Next]_vars => NoiseStaysBounded'
<1> SUFFICES ASSUME TypeOK, NoiseStaysBounded, [Next]_vars PROVE NoiseStaysBounded'
  OBVIOUS
<1>l. NoiseOf("lwe") = LweNoise /\ NoiseOf("rlwe") = Boot
  BY DEF NoiseOf
<1>r. ASSUME NEW w \in Wire, is_ready(w)
      PROVE  phase[w] \in Int /\ phase[w] - Slot(res[w], value[w]) \in Noise(LweNoise)
  BY <1>l, <1>r DEF NoiseStaysBounded, TypeOK, is_ready
<1>1. CASE UNCHANGED vars
  BY <1>1 DEF vars, NoiseStaysBounded
<1>2. ASSUME NEW w \in Wire, NEW r \in Resolution, NEW v \in 0..r, Lift(w, r, v)
      PROVE  NoiseStaysBounded'
  <2>1. PICK e \in Noise(Fresh) : Assign(w, "lwe", Slot(r, v) + e, r, v)
    BY <1>2 DEF Lift
  <2>2. Slot(r, v) \in Int /\ e \in Int /\ -Fresh <= e /\ e <= Fresh
    BY SlotIs, GatesAssumption DEF Noise, GatesAssumption
  <2>3. (Slot(r, v) + e) - Slot(r, v) \in Noise(LweNoise)
    BY <2>2, NoiseTypes, GatesAssumption DEF Noise, GatesAssumption
  <2>4. QED
    BY <1>l, <2>1, <2>3, AssignBounded
<1>3. ASSUME NEW w \in Wire, Materialize(w) PROVE NoiseStaysBounded'
  <2>1. CASE is_ready(w)
    BY <1>3, <2>1 DEF Materialize, NoiseStaysBounded, TypeOK, is_ready
  <2>2. CASE shape[w] = "rlwe"
    <3>1. PICK q \in KeySwitch(phase[w]) : phase' = [phase EXCEPT ![w] = q]
      BY <1>3, <2>2 DEF Materialize, is_ready
    <3>2. /\ phase[w] \in Int /\ Slot(res[w], value[w]) \in Int
          /\ phase[w] - Slot(res[w], value[w]) \in Noise(Boot)
      BY <1>l, <2>2, SlotIs DEF TypeOK, NoiseStaysBounded
    <3>3. q - Slot(res[w], value[w]) \in Noise(LweNoise)
      BY <3>1, <3>2, SwitchedNoise
    <3>4. QED
      BY <1>3, <1>l, <3>1, <3>3 DEF Materialize, NoiseStaysBounded, TypeOK
  <2>3. QED
    BY <1>3, <2>1, <2>2 DEF Materialize, TypeOK, is_ready
<1>4. ASSUME NEW g \in HomGate, NEW a \in Wire, NEW b \in Wire, NEW w \in Wire,
             HomOp(g, a, b, w) \/ HomOpFused(g, a, b, w)
      PROVE  NoiseStaysBounded'
  <2> DEFINE x == Linear(g, phase[a], phase[b])
             t == Truth(g, value[a], value[b])
  <2>1. /\ value[a] \in {0, 1} /\ value[b] \in {0, 1}
        /\ res[a] = 4 /\ res[b] = 4 /\ is_ready(a) /\ is_ready(b)
    BY <1>4 DEF HomOp, HomOpFused, GateReady
  <2>2. /\ phase[a] \in Int /\ phase[a] - Quarter * value[a] \in Noise(LweNoise)
        /\ phase[b] \in Int /\ phase[b] - Quarter * value[b] \in Noise(LweNoise)
    BY <1>r, <2>1, QuarterSlot
  <2>3. t \in {0, 1} /\ Slot(4, t) = Quarter * t
    BY <2>1, TruthIsBit, QuarterSlot
  <2>4. \A p \in GateBootstrap(Quarter, x) : p \in Int /\ p - Slot(4, t) \in Noise(Boot)
    BY <2>1, <2>2, <2>3, GateCorrect
  <2>5. \A p \in GateBootstrap(Quarter, x) : \A q \in KeySwitch(p) :
          q - Slot(4, t) \in Noise(LweNoise)
    BY <2>3, <2>4, NoiseTypes, SwitchedNoise
  <2>6. QED
    BY <1>4, <1>l, <2>4, <2>5, AssignBounded DEF HomOp, HomOpFused
<1>5. ASSUME NEW a \in Wire, NEW in \in Resolution, NEW out \in Resolution,
             NEW w \in Wire, Reslot(a, in, out, w) \/ ReslotFused(a, in, out, w)
      PROVE  NoiseStaysBounded'
  <2> DEFINE t == value[a]
  <2>1. t \in {0, 1} /\ res[a] = in /\ is_ready(a)
    BY <1>5 DEF Reslot, ReslotFused, ReslotReady
  <2>2. phase[a] \in Int /\ phase[a] - Slot(in, t) \in Noise(LweNoise)
    BY <1>r, <2>1
  <2>3. \A p \in Reslotted(phase[a], in, out) :
          p \in Int /\ p - Slot(out, t) \in Noise(Boot)
    BY <2>1, <2>2, ReslotCorrect
  <2>4. Slot(out, t) \in Int
    BY <2>1, SlotIs
  <2>5. \A p \in Reslotted(phase[a], in, out) : \A q \in KeySwitch(p) :
          q - Slot(out, t) \in Noise(LweNoise)
    BY <2>3, <2>4, SwitchedNoise
  <2>6. QED
    BY <1>5, <1>l, <2>3, <2>5, AssignBounded DEF Reslot, ReslotFused
<1>6. QED
  BY <1>1, <1>2, <1>3, <1>4, <1>5 DEF Next

(* A wire's noise depends on its shape alone, however it was computed. *)
THEOREM NoiseBounded ==
  ASSUME GateBudget, \A r \in Resolution : ResolutionBudget(r)
  PROVE  Spec => []NoiseStaysBounded
<1>1. Init => NoiseStaysBounded
  BY DEF Init, NoiseStaysBounded
<1>2. QED
  BY <1>1, TypeCorrect, NextBounded, PTL DEF Spec

(* Whatever a program computes, it can drop any of its wires at any time   *)
(* and read the value the wire is meant to carry.                          *)
THEOREM ProgramsReadRight ==
  ASSUME GateBudget, \A r \in Resolution : ResolutionBudget(r)
  PROVE  Spec => []EveryWireDrops
<1>1. TypeOK /\ NoiseStaysBounded => EveryWireDrops
  <2> SUFFICES ASSUME TypeOK, NoiseStaysBounded, NEW w \in Wire, shape[w] # "none"
               PROVE  Reads(res[w], phase[w], value[w])
    BY DEF EveryWireDrops
  <2> DEFINE r == res[w]  v == value[w]  s == Slot(r, v)
  <2>1. r \in Resolution /\ v \in Nat /\ phase[w] \in Int
    BY DEF TypeOK
  <2>2. s \in Int /\ r * s = Turn * v /\ r \in Nat /\ Turn \in Nat
    BY <2>1, SlotIs, NoiseTypes, EvaluationAssumption DEF EvaluationAssumption
  <2>3. NoiseOf(shape[w]) \in Nat /\ NoiseOf(shape[w]) <= LweNoise
    BY NoiseTypes, GatesAssumption DEF NoiseOf, GatesAssumption
  <2>4. PICK e \in Int : phase[w] = s + e /\ -LweNoise <= e /\ e <= LweNoise
    <3>1. phase[w] - s \in Noise(NoiseOf(shape[w]))
      BY DEF NoiseStaysBounded
    <3>2. QED
      BY <2>1, <2>2, <2>3, <3>1, NoiseTypes DEF Noise
  <2>5. 2 * (r * LweNoise) < Turn
    BY <2>1 DEF ResolutionBudget
  <2>6. -(r * LweNoise) <= r * e /\ r * e <= r * LweNoise
    BY <2>2, <2>4, NoiseTypes
  <2>7. 2 * r * (phase[w] + 0 * Turn) - 2 * v * Turn = 2 * (r * e)
    <3>1. 2 * r * (s + e) = 2 * (r * s) + 2 * (r * e)
      BY <2>2, <2>4
    <3>2. QED
      BY <2>1, <2>2, <2>4, <3>1
  <2>8. 0 \in Turns
    BY DEF Turns
  <2>9. -Turn <= 2 * (r * e) /\ 2 * (r * e) < Turn
    BY <2>2, <2>4, <2>5, <2>6, NoiseTypes
  <2>10. QED
    BY <2>7, <2>8, <2>9 DEF Reads
<1>2. QED
  BY <1>1, TypeCorrect, NoiseBounded, PTL

-----------------------------------------------------------------------------
(* What a program hands to another role: the transport.                    *)

(* Words and bytes.                                                        *)

(* A remainder by a product is the remainder by one factor and, that many  *)
(* times, the quotient's remainder by the other.                           *)
LEMMA RemainderByProduct ==
  ASSUME NEW a \in Nat \ {0}, NEW b \in Nat \ {0}, NEW x \in Nat
  PROVE  x % (a * b) = (x % a) + ((x \div a) % b) * a
<1>1. PICK q \in Int, r \in 0..(a - 1) : x \div a = q /\ x % a = r /\ x = q * a + r
  BY ModSplits
<1>2. PICK u \in Int, w \in 0..(b - 1) : q % b = w /\ q = u * b + w
  BY ModSplits
<1>3. a * b \in Nat \ {0}
  BY SMT
<1>4. w * a + r \in 0..(a * b - 1)
  <2>1. w * a \in Int /\ 0 <= w * a
    BY SMT
  <2>2. w * a <= (b - 1) * a
    BY SMT
  <2>3. (b - 1) * a = a * b - a
    BY SMT
  <2>4. QED
    BY <1>3, <2>1, <2>2, <2>3
<1>5. x = u * (a * b) + (w * a + r)
  <2>1. q * a = u * (a * b) + w * a
    BY <1>2, SMT
  <2>2. QED
    BY <1>1, <1>3, <2>1
<1>6. x % (a * b) = w * a + r
  <2> DEFINE d == a * b
             s == w * a + r
  <2>1. d \in Nat \ {0} /\ s \in 0..(d - 1) /\ x = u * d + s
    BY <1>3, <1>4, <1>5
  <2> HIDE DEF d, s
  <2>2. x % d = s
    BY <2>1, RemainderIs
  <2>3. QED
    BY <2>2 DEF d, s
<1>7. QED
  BY <1>1, <1>2, <1>6

LEMMA DigitTyped ==
  ASSUME NEW a \in Nat \ {0}, NEW b \in Nat \ {0}, NEW x \in Nat
  PROVE  (x \div a) % b \in Nat
<1>1. x \div a \in Int
  BY ModSplits
<1>2. (x \div a) % b \in 0..(b - 1)
  BY <1>1, ModSplits
<1>3. QED
  BY <1>2

(* A scalar is read back from its bytes. *)
LEMMA WordComesBack ==
  ASSUME NEW t \in ScalarType, Fits(t), NEW x \in Nat, x < t.mod, NEW p \in Nat,
         \A j \in 0..(t.bytes - 1) : ByteAt(p + j) = BytesOf(x, t.bytes)[j + 1]
  PROVE  WordAt(p, t) = x
<1>1. PICK bytes \in Nat \ {0} : t.bytes = bytes
  BY SerializationAssumption DEF ScalarType
<1>2. PICK m \in Nat \ {0} : t.mod = m
  BY DEF ScalarType
<1>3. Octet \in Nat \ {0} /\ \A j \in Nat : Octet * j \in Nat
  BY SerializationAssumption
<1>4. \A j \in Nat : pow2[Octet * j] \in Nat \ {0}
  BY <1>3, Pow2Positive
<1> DEFINE f == [j \in 0..(bytes - 1) |-> ByteAt(p + j) * pow2[Octet * j]]
           s == [j \in 0..bytes |-> x % pow2[Octet * j]]
<1>5. \A j \in 0..(bytes - 1) :
        f[j] = ((x \div pow2[Octet * j]) % pow2[Octet]) * pow2[Octet * j]
  <2> SUFFICES ASSUME NEW j \in 0..(bytes - 1)
               PROVE  ByteAt(p + j) = (x \div pow2[Octet * j]) % pow2[Octet]
    OBVIOUS
  <2>1. ByteAt(p + j) = BytesOf(x, bytes)[j + 1]
    BY <1>1
  <2>2. j + 1 \in 1..bytes /\ (j + 1) - 1 = j
    OBVIOUS
  <2>3. QED
    BY <2>1, <2>2 DEF BytesOf
<1>6. ASSUME NEW j \in 0..(bytes - 1)
      PROVE  /\ f[j] \in Int
             /\ x % pow2[Octet * (j + 1)] = (x % pow2[Octet * j]) + f[j]
  <2>1. PICK a \in Nat \ {0} : a = pow2[Octet * j]
    BY <1>4
  <2>2. PICK b \in Nat \ {0} : b = pow2[Octet]
    BY <1>3, Pow2Positive
  <2>3. pow2[Octet * (j + 1)] = a * b
    <3>1. Octet * (j + 1) = Octet * j + Octet
      BY <1>3
    <3>2. QED
      BY <1>3, <2>1, <2>2, <3>1, Pow2Adds
  <2>4. f[j] = ((x \div a) % b) * a
    BY <1>5, <2>1, <2>2
  <2>5. x % (a * b) = (x % a) + ((x \div a) % b) * a
    BY RemainderByProduct
  <2>6. ((x \div a) % b) * a \in Int
    <3>1. PICK w \in Nat : w = (x \div a) % b
      BY DigitTyped
    <3>2. w * a \in Int
      BY SMT
    <3>3. QED
      BY <3>1, <3>2
  <2>7. QED
    BY <2>1, <2>3, <2>4, <2>5, <2>6
<1>7. f \in [0..(bytes - 1) -> Int]
  BY <1>6
<1>8. s \in [0..bytes -> Int]
  <2>1. \A j \in 0..bytes : x % pow2[Octet * j] \in Int
    BY <1>4, ModSplits
  <2>2. QED
    BY <2>1
<1>9. s[0] = 0
  BY <1>3, Pow2Recurrence, Octet * 0 = 0, x % 1 = 0
<1>10. \A j \in 0..(bytes - 1) : s[j + 1] = s[j] + f[j]
  BY <1>6
<1>11. s[bytes] = x
  <2>1. x < pow2[Octet * bytes] /\ pow2[Octet * bytes] \in Nat \ {0}
    BY <1>1, <1>2, <1>4 DEF Fits
  <2>2. QED
    BY <2>1, RemainderOfSmall
<1>12. Sum(f, bytes) = x
  <2> HIDE DEF f, s
  <2>1. QED
    BY <1>7, <1>8, <1>9, <1>10, <1>11, SumIs
<1>13. x % m = x
  BY <1>2, RemainderOfSmall
<1>14. QED
  BY <1>1, <1>2, <1>12, <1>13 DEF WordAt

-----------------------------------------------------------------------------
(* What a type's scalars take, and where each is.                          *)

IsType(T) == T \in Seq(ScalarType) /\ \A j \in DOMAIN T : Fits(T[j])

Handable(T, v) == IsType(T) /\ v \in Seq(Nat) /\ IsValue(T, v)

Offsets(T, s) ==
  /\ s \in [0..Len(T) -> Nat]
  /\ s[0] = 0
  /\ \A j \in 0..(Len(T) - 1) : s[j + 1] = s[j] + T[j + 1].bytes
  /\ s[Len(T)] = SizeOf(T)

LEMMA BytesPositive ==
  ASSUME NEW T \in Seq(ScalarType), NEW j \in 0..(Len(T) - 1)
  PROVE  j + 1 \in DOMAIN T /\ T[j + 1] \in ScalarType /\ T[j + 1].bytes \in Nat \ {0}
<1>1. j + 1 \in 1..Len(T) /\ DOMAIN T = 1..Len(T)
  OBVIOUS
<1>2. T[j + 1] \in ScalarType
  BY <1>1
<1>3. QED
  BY <1>1, <1>2, SerializationAssumption DEF ScalarType

LEMMA OffsetsExist ==
  ASSUME NEW T \in Seq(ScalarType)
  PROVE  SizeOf(T) \in Nat /\ \E s : Offsets(T, s)
<1> DEFINE n == Len(T)
           f == [j \in 0..(n - 1) |-> T[j + 1].bytes]
<1>1. n \in Nat /\ f \in [0..(n - 1) -> Nat]
  BY BytesPositive
<1>2. f \in [0..(n - 1) -> Int] /\ \A j \in 0..(n - 1) : f[j] = T[j + 1].bytes
  BY <1>1
<1>3. SizeOf(T) = Sum(f, n)
  BY DEF SizeOf
<1> HIDE DEF f
<1>4. PICK s \in [0..n -> Int] :
        /\ s[0] = 0
        /\ \A j \in 0..(n - 1) : s[j + 1] = s[j] + f[j]
        /\ Sum(f, n) = s[n]
  <2> HIDE DEF n
  <2>1. QED
    BY <1>1, <1>2, SumSteps, Zenon
<1> DEFINE S == {j \in Nat : j <= n => s[j] \in Nat}
<1>5. 0 \in S
  BY <1>4
<1>6. ASSUME NEW j \in Nat, j \in S PROVE j + 1 \in S
  <2> SUFFICES ASSUME j + 1 <= n PROVE s[j + 1] \in Nat
    OBVIOUS
  <2>1. j \in 0..(n - 1) /\ j <= n
    BY <1>1
  <2>2. s[j] \in Nat /\ f[j] \in Nat
    BY <1>1, <1>6, <2>1
  <2>3. QED
    BY <1>4, <2>1, <2>2
<1> HIDE DEF S
<1>7. \A j \in Nat : j \in S
  BY <1>5, <1>6, Induction, Zenon
<1>8. s \in [0..n -> Nat]
  <2>1. \A j \in 0..n : s[j] \in Nat
    BY <1>1, <1>7 DEF S
  <2>2. QED
    BY <1>4, <2>1
<1>9. s[n] \in Nat
  BY <1>1, <1>8
<1>10. QED
  BY <1>2, <1>3, <1>4, <1>8, <1>9 DEF Offsets

-----------------------------------------------------------------------------
(* Writing.                                                                *)

Bytes(v, T, j) == BytesOf(v[j + 1], T[j + 1].bytes)

Writing(T, v, w) ==
  w = [j \in 0..Len(T) |-> IF j = 0 THEN <<>> ELSE w[j - 1] \o BytesOf(v[j], T[j].bytes)]

LEMMA BytesTyped ==
  ASSUME NEW x \in Nat, NEW bytes \in Nat
  PROVE  BytesOf(x, bytes) \in Seq(Nat) /\ Len(BytesOf(x, bytes)) = bytes
<1>1. ASSUME NEW j \in 1..bytes
      PROVE  (x \div pow2[Octet * (j - 1)]) % pow2[Octet] \in Nat
  <2>1. Octet \in Nat /\ Octet * (j - 1) \in Nat
    BY SerializationAssumption
  <2>2. PICK a \in Nat \ {0}, b \in Nat \ {0} : a = pow2[Octet * (j - 1)] /\ b = pow2[Octet]
    BY <2>1, Pow2Positive
  <2>3. QED
    BY <2>2, DigitTyped
<1>2. QED
  BY <1>1 DEF BytesOf

LEMMA WritingExists ==
  ASSUME NEW T \in Seq(ScalarType), NEW v \in Seq(Nat), Len(v) = Len(T)
  PROVE  \E w \in [0..Len(T) -> Seq(Nat)] :
           /\ w[0] = <<>>
           /\ \A j \in 0..(Len(T) - 1) : w[j + 1] = w[j] \o Bytes(v, T, j)
           /\ Written(T, v) = w[Len(T)]
<1> DEFINE n == Len(T)
           G == [j \in 0..(n - 1) |-> [b \in Seq(Nat) |-> b \o Bytes(v, T, j)]]
<1>1. \A j \in 0..(n - 1) : Bytes(v, T, j) \in Seq(Nat)
  <2> SUFFICES ASSUME NEW j \in 0..(n - 1) PROVE Bytes(v, T, j) \in Seq(Nat)
    OBVIOUS
  <2>1. T[j + 1].bytes \in Nat
    BY BytesPositive
  <2>2. v[j + 1] \in Nat
    OBVIOUS
  <2>3. QED
    BY <2>1, <2>2, BytesTyped DEF Bytes
<1>2. n \in Nat /\ <<>> \in Seq(Nat) /\ G \in [0..(n - 1) -> [Seq(Nat) -> Seq(Nat)]]
  BY <1>1
<1>3. PICK w \in [0..n -> Seq(Nat)] :
        w[0] = <<>> /\ \A j \in 0..(n - 1) : w[j + 1] = G[j][w[j]]
  <2> HIDE DEF G, n
  <2>1. \E w \in [0..n -> Seq(Nat)] : Loops(w, n, <<>>, G)
    BY <1>2, LoopExists, Zenon
  <2>2. QED
    BY <2>1 DEF Loops
<1>4. \A j \in 0..(n - 1) : w[j + 1] = w[j] \o Bytes(v, T, j)
  <2> SUFFICES ASSUME NEW j \in 0..(n - 1) PROVE w[j + 1] = w[j] \o Bytes(v, T, j)
    OBVIOUS
  <2>1. j \in 0..n /\ w[j] \in Seq(Nat)
    BY <1>2, <1>3
  <2>2. QED
    BY <1>3, <2>1
<1>5. \E g : Writing(T, v, g)
  <2>1. ASSUME NEW j \in 0..n
        PROVE  w[j] = IF j = 0 THEN <<>> ELSE w[j - 1] \o BytesOf(v[j], T[j].bytes)
    <3>1. CASE j = 0
      BY <1>3, <3>1
    <3>2. CASE j # 0
      <4>1. j - 1 \in 0..(n - 1) /\ (j - 1) + 1 = j
        BY <1>2, <3>2
      <4>2. QED
        BY <1>4, <3>2, <4>1 DEF Bytes
    <3>3. QED
      BY <3>1, <3>2
  <2>2. w = [j \in 0..n |-> IF j = 0 THEN <<>> ELSE w[j - 1] \o BytesOf(v[j], T[j].bytes)]
    BY <1>3, <2>1
  <2>3. Writing(T, v, w)
    BY <2>2 DEF Writing
  <2>4. QED
    BY <2>3
<1> DEFINE after[j \in 0..Len(T)] ==
      IF j = 0 THEN <<>> ELSE after[j - 1] \o BytesOf(v[j], T[j].bytes)
<1>6. PICK g : Writing(T, v, g) /\ Written(T, v) = g[Len(T)]
  <2>1. Writing(T, v, after)
    BY <1>5, Zenon DEF Writing
  <2>2. Written(T, v) = after[Len(T)]
    BY Zenon DEF Written, after
  <2> HIDE DEF after
  <2>3. QED
    BY <2>1, <2>2
<1> HIDE DEF after, G
<1>7. g[0] = <<>> /\ \A j \in 0..(n - 1) : g[j + 1] = g[j] \o Bytes(v, T, j)
  <2>1. g[0] = <<>>
    BY <1>2, <1>6 DEF Writing
  <2>2. ASSUME NEW j \in 0..(n - 1) PROVE g[j + 1] = g[j] \o Bytes(v, T, j)
    <3>1. j + 1 \in 0..Len(T) /\ j + 1 # 0 /\ (j + 1) - 1 = j
      BY <1>2
    <3>2. g[j + 1] = g[(j + 1) - 1] \o BytesOf(v[j + 1], T[j + 1].bytes)
      BY <1>6, <3>1, ZenonT(30) DEF Writing
    <3>3. QED
      BY <3>1, <3>2 DEF Bytes
  <2>3. QED
    BY <2>1, <2>2
<1> DEFINE S == {j \in Nat : j <= n => g[j] = w[j]}
<1>8. 0 \in S
  BY <1>3, <1>7
<1>9. ASSUME NEW j \in Nat, j \in S PROVE j + 1 \in S
  <2> SUFFICES ASSUME j + 1 <= n PROVE g[j + 1] = w[j + 1]
    OBVIOUS
  <2>1. j \in 0..(n - 1) /\ j <= n
    BY <1>2
  <2>2. QED
    BY <1>4, <1>7, <1>9, <2>1
<1> HIDE DEF S
<1>10. n \in S
  BY <1>2, <1>8, <1>9, Induction
<1>11. g[n] = w[n]
  BY <1>2, <1>10 DEF S
<1>12. QED
  BY <1>3, <1>4, <1>6, <1>11

(* Each scalar's bytes stand at its offset. *)
Spelled(T, v, s, b, m) ==
  \A i \in 0..(m - 1) : \A x \in 1..T[i + 1].bytes : b[s[i] + x] = Bytes(v, T, i)[x]

LEMMA WrittenIs ==
  ASSUME NEW T, NEW v, Handable(T, v), NEW s, Offsets(T, s)
  PROVE  /\ Written(T, v) \in Seq(Nat)
         /\ Len(Written(T, v)) = SizeOf(T)
         /\ Spelled(T, v, s, Written(T, v), Len(T))
         /\ \A i \in 0..(Len(T) - 1) : s[i] + T[i + 1].bytes <= SizeOf(T)
<1> DEFINE n == Len(T)
<1>1. T \in Seq(ScalarType) /\ v \in Seq(Nat) /\ Len(v) = n /\ n \in Nat
  BY DEF Handable, IsType, IsValue
<1>2. PICK w \in [0..n -> Seq(Nat)] :
        /\ w[0] = <<>>
        /\ \A j \in 0..(n - 1) : w[j + 1] = w[j] \o Bytes(v, T, j)
        /\ Written(T, v) = w[n]
  BY <1>1, WritingExists
<1>3. /\ s \in [0..n -> Nat] /\ s[0] = 0
      /\ \A j \in 0..(n - 1) : s[j + 1] = s[j] + T[j + 1].bytes
      /\ s[n] = SizeOf(T)
  BY DEF Offsets
<1>4. \A j \in 0..(n - 1) :
        /\ T[j + 1].bytes \in Nat /\ Bytes(v, T, j) \in Seq(Nat)
        /\ Len(Bytes(v, T, j)) = T[j + 1].bytes
  <2> SUFFICES ASSUME NEW j \in 0..(n - 1)
               PROVE  /\ T[j + 1].bytes \in Nat /\ Bytes(v, T, j) \in Seq(Nat)
                      /\ Len(Bytes(v, T, j)) = T[j + 1].bytes
    OBVIOUS
  <2>1. T[j + 1].bytes \in Nat
    BY <1>1, BytesPositive
  <2>2. v[j + 1] \in Nat
    BY <1>1
  <2>3. QED
    BY <2>1, <2>2, BytesTyped DEF Bytes
<1> DEFINE S == {j \in Nat : j <= n =>
                   /\ Len(w[j]) = s[j]
                   /\ \A i \in 0..(j - 1) : s[i] + T[i + 1].bytes <= s[j]
                   /\ Spelled(T, v, s, w[j], j)}
<1>5. 0 \in S
  BY <1>2, <1>3 DEF Spelled
<1>6. ASSUME NEW j \in Nat, j \in S PROVE j + 1 \in S
  <2> SUFFICES ASSUME j + 1 <= n
               PROVE  /\ Len(w[j + 1]) = s[j + 1]
                      /\ \A i \in 0..((j + 1) - 1) : s[i] + T[i + 1].bytes <= s[j + 1]
                      /\ Spelled(T, v, s, w[j + 1], j + 1)
    OBVIOUS
  <2>1. j \in 0..(n - 1) /\ j \in 0..n /\ j <= n /\ (j + 1) - 1 = j
    BY <1>1
  <2>2. PICK b \in Seq(Nat) : b = w[j]
    BY <1>2, <2>1
  <2>3. PICK c \in Seq(Nat) : c = Bytes(v, T, j) /\ Len(c) = T[j + 1].bytes
    BY <1>4, <2>1
  <2>4. /\ Len(b) = s[j] /\ s[j + 1] = s[j] + Len(c) /\ s[j] \in Nat
        /\ \A i \in 0..(j - 1) : s[i] + T[i + 1].bytes <= s[j]
        /\ Spelled(T, v, s, b, j)
    BY <1>3, <1>6, <2>1, <2>2, <2>3
  <2>5. w[j + 1] = b \o c
    BY <1>2, <2>1, <2>2, <2>3
  <2>6. Len(w[j + 1]) = s[j + 1]
    <3>1. Len(b \o c) = Len(b) + Len(c)
      OBVIOUS
    <3>2. QED
      BY <2>4, <2>5, <3>1
  <2>7. ASSUME NEW i \in 0..j
        PROVE  /\ s[i] + T[i + 1].bytes <= s[j + 1]
               /\ \A x \in 1..T[i + 1].bytes : w[j + 1][s[i] + x] = Bytes(v, T, i)[x]
    <3>0. i \in 0..(n - 1) /\ s[i] \in Nat /\ T[i + 1].bytes \in Nat
      <4>1. i \in 0..(n - 1) /\ i \in 0..n
        BY <1>1, <2>1
      <4>2. QED
        BY <1>3, <1>4, <4>1
    <3>1. CASE i = j
      <4>1. \A x \in 1..Len(c) : (b \o c)[Len(b) + x] = c[x]
        OBVIOUS
      <4>2. s[j] + T[j + 1].bytes = s[j + 1]
        BY <2>3, <2>4
      <4>3. \A x \in 1..T[j + 1].bytes : w[j + 1][s[j] + x] = Bytes(v, T, j)[x]
        BY <2>3, <2>4, <2>5, <4>1
      <4>4. s[j + 1] <= s[j + 1]
        BY <2>3, <2>4
      <4>5. QED
        BY <3>1, <4>2, <4>3, <4>4
    <3>2. CASE i # j
      <4>1. i \in 0..(j - 1)
        BY <3>2
      <4>2. s[i] + T[i + 1].bytes <= Len(b) /\ Len(c) \in Nat
        BY <2>4, <4>1
      <4>3. ASSUME NEW x \in 1..T[i + 1].bytes PROVE (b \o c)[s[i] + x] = Bytes(v, T, i)[x]
        <5>0. PICK o \in Nat, k \in Nat : o = s[i] /\ k = T[i + 1].bytes
          BY <3>0
        <5>1. s[i] + x \in 1..Len(b)
          <6>1. o + k <= Len(b) /\ x \in 1..k /\ Len(b) \in Nat
            BY <4>2, <5>0
          <6>2. o + x \in 1..Len(b)
            BY <6>1
          <6>3. QED
            BY <5>0, <6>2
        <5>2. (b \o c)[s[i] + x] = b[s[i] + x]
          BY <5>1
        <5>3. b[s[i] + x] = Bytes(v, T, i)[x]
          BY <2>4, <4>1 DEF Spelled
        <5>4. QED
          BY <5>2, <5>3
      <4>4. s[i] + T[i + 1].bytes <= s[j + 1]
        BY <2>4, <3>0, <4>2
      <4>5. QED
        BY <2>5, <4>3, <4>4
    <3>3. QED
      BY <3>1, <3>2
  <2>8. QED
    BY <2>1, <2>6, <2>7 DEF Spelled
<1> HIDE DEF S
<1>7. n \in S
  BY <1>1, <1>5, <1>6, Induction
<1>8. QED
  BY <1>1, <1>2, <1>3, <1>7 DEF S

-----------------------------------------------------------------------------
(* Reading.                                                                *)

ReadState == [threw : BOOLEAN, pos : Nat, value : Seq(Nat)]

NothingRead(p) == [threw |-> FALSE, pos |-> p, value |-> <<>>]

Reading(T, p, r) ==
  r = [j \in 0..Len(T) |->
        IF j = 0 THEN [threw |-> FALSE, pos |-> p, value |-> <<>>]
        ELSE ReadScalar(r[j - 1], T[j])]

LEMMA WordTyped ==
  ASSUME wire \in Seq(Nat), NEW p \in Nat, NEW t \in ScalarType
  PROVE  WordAt(p, t) \in Nat
<1>1. PICK bytes \in Nat \ {0}, m \in Nat \ {0} : t.bytes = bytes /\ t.mod = m
  BY SerializationAssumption DEF ScalarType
<1> DEFINE f == [j \in 0..(bytes - 1) |-> ByteAt(p + j) * pow2[Octet * j]]
<1>2. f \in [0..(bytes - 1) -> Int]
  <2> SUFFICES ASSUME NEW j \in 0..(bytes - 1) PROVE ByteAt(p + j) * pow2[Octet * j] \in Int
    OBVIOUS
  <2>1. PICK x \in Nat : x = ByteAt(p + j)
    BY DEF ByteAt
  <2>2. Octet * j \in Nat
    BY SerializationAssumption
  <2>3. PICK y \in Nat : y = pow2[Octet * j]
    BY <2>2, Pow2Positive
  <2>4. x * y \in Int
    BY SMT
  <2>5. QED
    BY <2>1, <2>3, <2>4
<1>3. Sum(f, bytes) \in Int
  <2> HIDE DEF f
  <2>1. PICK s \in [0..bytes -> Int] : Sum(f, bytes) = s[bytes]
    BY <1>2, SumSteps
  <2>2. QED
    BY <2>1
<1>4. Sum(f, bytes) % m \in 0..(m - 1)
  <2> HIDE DEF f
  <2>1. QED
    BY <1>3, ModSplits
<1>5. QED
  BY <1>1, <1>4 DEF WordAt

LEMMA ReadTyped ==
  ASSUME wire \in Seq(Nat), NEW r \in ReadState, NEW t \in ScalarType
  PROVE  ReadScalar(r, t) \in ReadState
<1>1. t.bytes \in Nat
  BY SerializationAssumption DEF ScalarType
<1>2. WordAt(r.pos, t) \in Nat
  BY WordTyped DEF ReadState
<1>3. CASE r.threw
  BY <1>3 DEF ReadScalar
<1>4. CASE ~r.threw /\ Underrun(r.pos, t.bytes)
  BY <1>4 DEF ReadScalar, ReadState
<1>5. CASE ~r.threw /\ ~Underrun(r.pos, t.bytes)
  <2>1. ReadScalar(r, t) = [threw |-> FALSE, pos |-> r.pos + t.bytes,
                            value |-> Append(r.value, WordAt(r.pos, t))]
    BY <1>5 DEF ReadScalar
  <2>2. r.pos + t.bytes \in Nat /\ Append(r.value, WordAt(r.pos, t)) \in Seq(Nat)
    BY <1>1, <1>2 DEF ReadState
  <2>3. QED
    BY <2>1, <2>2 DEF ReadState
<1>6. QED
  BY <1>3, <1>4, <1>5

LEMMA ReadingExists ==
  ASSUME wire \in Seq(Nat), NEW T \in Seq(ScalarType), NEW p \in Nat
  PROVE  \E r \in [0..Len(T) -> ReadState] :
           /\ r[0] = NothingRead(p)
           /\ \A j \in 0..(Len(T) - 1) : r[j + 1] = ReadScalar(r[j], T[j + 1])
           /\ ReadOf(T, p) = r[Len(T)]
<1> DEFINE n == Len(T)
           G == [j \in 0..(n - 1) |-> [a \in ReadState |-> ReadScalar(a, T[j + 1])]]
<1>1. n \in Nat /\ \A j \in 0..(n - 1) : T[j + 1] \in ScalarType
  BY BytesPositive
<1>2. NothingRead(p) \in ReadState /\ G \in [0..(n - 1) -> [ReadState -> ReadState]]
  <2>1. NothingRead(p) \in ReadState
    BY <<>> \in Seq(Nat) DEF NothingRead, ReadState
  <2>2. ASSUME NEW j \in 0..(n - 1), NEW a \in ReadState
        PROVE  ReadScalar(a, T[j + 1]) \in ReadState
    BY <1>1, ReadTyped
  <2>3. QED
    BY <2>1, <2>2
<1>3. PICK r \in [0..n -> ReadState] :
        r[0] = NothingRead(p) /\ \A j \in 0..(n - 1) : r[j + 1] = G[j][r[j]]
  <2> HIDE DEF G, n
  <2>1. \E r \in [0..n -> ReadState] : Loops(r, n, NothingRead(p), G)
    BY <1>1, <1>2, LoopExists, Zenon
  <2>2. QED
    BY <2>1 DEF Loops
<1>4. \A j \in 0..(n - 1) : r[j + 1] = ReadScalar(r[j], T[j + 1])
  <2> SUFFICES ASSUME NEW j \in 0..(n - 1) PROVE r[j + 1] = ReadScalar(r[j], T[j + 1])
    OBVIOUS
  <2>1. j \in 0..n
    BY <1>1
  <2>2. r[j] \in ReadState
    BY <1>3, <2>1
  <2>3. QED
    BY <1>3, <2>2
<1>5. \E g : Reading(T, p, g)
  <2>1. ASSUME NEW j \in 0..n
        PROVE  r[j] = IF j = 0 THEN NothingRead(p) ELSE ReadScalar(r[j - 1], T[j])
    <3>1. CASE j = 0
      BY <1>3, <3>1
    <3>2. CASE j # 0
      <4>1. j - 1 \in 0..(n - 1) /\ (j - 1) + 1 = j
        BY <1>1, <3>2
      <4>2. r[(j - 1) + 1] = ReadScalar(r[j - 1], T[(j - 1) + 1])
        BY <1>4, <4>1
      <4>3. QED
        BY <3>2, <4>1, <4>2
    <3>3. QED
      BY <3>1, <3>2
  <2>2. r = [j \in 0..n |-> IF j = 0 THEN NothingRead(p) ELSE ReadScalar(r[j - 1], T[j])]
    BY <1>3, <2>1
  <2>3. Reading(T, p, r)
    BY <2>2 DEF Reading, NothingRead
  <2>4. QED
    BY <2>3
<1> DEFINE after[j \in 0..Len(T)] ==
      IF j = 0 THEN [threw |-> FALSE, pos |-> p, value |-> <<>>]
      ELSE ReadScalar(after[j - 1], T[j])
<1>6. PICK g : Reading(T, p, g) /\ ReadOf(T, p) = g[Len(T)]
  <2>1. Reading(T, p, after)
    BY <1>5, Zenon DEF Reading
  <2>2. ReadOf(T, p) = after[Len(T)]
    BY Zenon DEF ReadOf, after
  <2> HIDE DEF after
  <2>3. QED
    BY <2>1, <2>2
<1> HIDE DEF after, G
<1>7. g[0] = NothingRead(p) /\ \A j \in 0..(n - 1) : g[j + 1] = ReadScalar(g[j], T[j + 1])
  <2>1. g[0] = NothingRead(p)
    BY <1>1, <1>6 DEF Reading, NothingRead
  <2>2. ASSUME NEW j \in 0..(n - 1) PROVE g[j + 1] = ReadScalar(g[j], T[j + 1])
    <3>1. j + 1 \in 0..Len(T) /\ j + 1 # 0 /\ (j + 1) - 1 = j
      BY <1>1
    <3>2. g[j + 1] = ReadScalar(g[(j + 1) - 1], T[j + 1])
      BY <1>6, <3>1, ZenonT(30) DEF Reading
    <3>3. QED
      BY <3>1, <3>2
  <2>3. QED
    BY <2>1, <2>2
<1> DEFINE S == {j \in Nat : j <= n => g[j] = r[j]}
<1>8. 0 \in S
  BY <1>3, <1>7
<1>9. ASSUME NEW j \in Nat, j \in S PROVE j + 1 \in S
  <2> SUFFICES ASSUME j + 1 <= n PROVE g[j + 1] = r[j + 1]
    OBVIOUS
  <2>1. j \in 0..(n - 1) /\ j <= n
    BY <1>1
  <2>2. QED
    BY <1>4, <1>7, <1>9, <2>1
<1> HIDE DEF S
<1>10. n \in S
  BY <1>1, <1>8, <1>9, Induction
<1>11. g[n] = r[n]
  BY <1>1, <1>10 DEF S
<1>12. QED
  BY <1>3, <1>4, <1>6, <1>11

(* From p on the wire carries b, as far as the wire goes. *)
Carries(p, b) == \A x \in 1..Len(b) : p + x <= Len(wire) => wire[p + x] = b[x]

(* One scalar, where its bytes are to be. *)
LEMMA ScalarRead ==
  ASSUME wire \in Seq(Nat), NEW t \in ScalarType, Fits(t), NEW x \in Nat, x < t.mod,
         NEW r \in ReadState, ~r.threw, r.pos <= Len(wire),
         \A j \in 1..t.bytes : r.pos + j <= Len(wire) => wire[r.pos + j] = BytesOf(x, t.bytes)[j]
  PROVE  ReadScalar(r, t) = IF r.pos + t.bytes <= Len(wire)
                            THEN [threw |-> FALSE, pos |-> r.pos + t.bytes, value |-> Append(r.value, x)]
                            ELSE [r EXCEPT !.threw = TRUE]
<1>1. PICK bytes \in Nat \ {0}, p \in Nat : t.bytes = bytes /\ r.pos = p
  BY SerializationAssumption DEF ScalarType, ReadState
<1>2. Len(wire) \in Nat
  OBVIOUS
<1>3. CASE p + bytes <= Len(wire)
  <2>1. \A j \in 0..(bytes - 1) : ByteAt(p + j) = BytesOf(x, bytes)[j + 1]
    <3> SUFFICES ASSUME NEW j \in 0..(bytes - 1) PROVE ByteAt(p + j) = BytesOf(x, bytes)[j + 1]
      OBVIOUS
    <3>1. j + 1 \in 1..bytes /\ p + (j + 1) <= Len(wire) /\ p + j < Len(wire)
      BY <1>1, <1>2, <1>3
    <3>2. wire[p + (j + 1)] = BytesOf(x, bytes)[j + 1]
      BY <1>1, <3>1
    <3>3. ByteAt(p + j) = wire[(p + j) + 1] /\ (p + j) + 1 = p + (j + 1)
      BY <3>1 DEF ByteAt
    <3>4. QED
      BY <3>2, <3>3
  <2>2. WordAt(p, t) = x
    BY <1>1, <2>1, WordComesBack
  <2>3. ~Underrun(p, bytes)
    BY <1>1, <1>2, <1>3 DEF Underrun
  <2>4. QED
    BY <1>1, <1>3, <2>2, <2>3 DEF ReadScalar
<1>4. CASE ~(p + bytes <= Len(wire))
  <2>1. Underrun(p, bytes)
    BY <1>1, <1>2, <1>4 DEF Underrun
  <2>2. QED
    BY <1>1, <1>4, <2>1 DEF ReadScalar
<1>5. QED
  BY <1>3, <1>4

(* Serde<T>::read, where T's bytes are to be: the value if they are all    *)
(* there, and a throw at the first scalar that is not.                     *)
LEMMA ReadIs ==
  ASSUME wire \in Seq(Nat), NEW T, NEW v, Handable(T, v),
         NEW p \in Nat, p <= Len(wire), Carries(p, Written(T, v))
  PROVE  IF p + SizeOf(T) <= Len(wire)
         THEN ReadOf(T, p) = [threw |-> FALSE, pos |-> p + SizeOf(T), value |-> v]
         ELSE ReadOf(T, p).threw /\ ReadOf(T, p).pos \in p..Len(wire)
<1> DEFINE n == Len(T)
<1>1. /\ T \in Seq(ScalarType) /\ v \in Seq(Nat) /\ Len(v) = n /\ n \in Nat
      /\ \A j \in 1..n : Fits(T[j]) /\ v[j] < T[j].mod
  <2>1. T \in Seq(ScalarType) /\ \A j \in DOMAIN T : Fits(T[j]) /\ v[j] < T[j].mod
    BY DEF Handable, IsType, IsValue
  <2>2. v \in Seq(Nat) /\ Len(v) = n
    BY DEF Handable, IsValue
  <2>3. n \in Nat /\ DOMAIN T = 1..n
    BY <2>1
  <2>4. QED
    BY <2>1, <2>2, <2>3
<1>2. PICK s : Offsets(T, s)
  BY <1>1, OffsetsExist
<1>3. /\ s \in [0..n -> Nat] /\ s[0] = 0
      /\ \A j \in 0..(n - 1) : s[j + 1] = s[j] + T[j + 1].bytes
      /\ s[n] = SizeOf(T)
  BY <1>2 DEF Offsets
<1>4. PICK r \in [0..n -> ReadState] :
        /\ r[0] = NothingRead(p)
        /\ \A j \in 0..(n - 1) : r[j + 1] = ReadScalar(r[j], T[j + 1])
        /\ ReadOf(T, p) = r[n]
  BY <1>1, ReadingExists
<1>5. /\ Len(Written(T, v)) = SizeOf(T)
      /\ Spelled(T, v, s, Written(T, v), n)
      /\ \A i \in 0..(n - 1) : s[i] + T[i + 1].bytes <= SizeOf(T)
      /\ SizeOf(T) \in Nat
  BY <1>1, <1>2, WrittenIs, OffsetsExist
<1>6. PICK l \in Nat : l = Len(wire)
  OBVIOUS
<1> DEFINE First(j) == SubSeq(v, 1, j)
           Through(j) == [threw |-> FALSE, pos |-> p + s[j], value |-> First(j)]
           S == {j \in Nat : j <= n =>
                   IF p + s[j] <= l THEN r[j] = Through(j)
                   ELSE r[j].threw /\ r[j].pos \in p..l}
<1>7. 0 \in S
  <2>1. First(0) = <<>> /\ p + s[0] = p
    BY <1>1, <1>3
  <2>2. QED
    BY <1>4, <1>6, <2>1 DEF NothingRead
<1>8. ASSUME NEW j \in Nat, j \in S PROVE j + 1 \in S
  <2> SUFFICES ASSUME j + 1 <= n
               PROVE  IF p + s[j + 1] <= l THEN r[j + 1] = Through(j + 1)
                      ELSE r[j + 1].threw /\ r[j + 1].pos \in p..l
    OBVIOUS
  <2>1. j \in 0..(n - 1) /\ j \in 0..n /\ j + 1 \in 1..n /\ j <= n
    BY <1>1
  <2>2. PICK t \in ScalarType, x \in Nat, bytes \in Nat :
          t = T[j + 1] /\ x = v[j + 1] /\ bytes = t.bytes
    <3>1. T[j + 1] \in ScalarType /\ T[j + 1].bytes \in Nat
      BY <1>1, <2>1, BytesPositive
    <3>2. v[j + 1] \in Nat
      BY <1>1, <2>1
    <3>3. QED
      BY <3>1, <3>2
  <2>3. PICK o \in Nat : o = s[j] /\ s[j + 1] = o + bytes
    BY <1>3, <2>1, <2>2
  <2>4. r[j] \in ReadState /\ r[j + 1] = ReadScalar(r[j], t)
    BY <1>4, <2>1, <2>2
  <2>5. CASE ~(p + o <= l)
    <3>1. r[j].threw /\ r[j].pos \in p..l
      BY <1>8, <2>1, <2>3, <2>5
    <3>2. r[j + 1] = r[j]
      BY <2>4, <3>1 DEF ReadScalar
    <3>3. ~(p + s[j + 1] <= l)
      BY <2>3, <2>5
    <3>4. QED
      BY <3>1, <3>2, <3>3
  <2>6. CASE p + o <= l
    <3>1. r[j] = Through(j)
      BY <1>8, <2>1, <2>3, <2>6
    <3>2. ~r[j].threw /\ r[j].pos = p + o /\ r[j].value = First(j)
      BY <2>3, <3>1
    <3>3. ASSUME NEW y \in 1..bytes, r[j].pos + y <= Len(wire)
          PROVE  wire[r[j].pos + y] = BytesOf(x, bytes)[y]
      <4>1. o + y \in 1..Len(Written(T, v)) /\ p + (o + y) = r[j].pos + y
        <5>1. o + bytes <= SizeOf(T)
          BY <1>5, <2>1, <2>2, <2>3
        <5>2. QED
          BY <1>5, <3>2, <5>1
      <4>2. wire[p + (o + y)] = Written(T, v)[o + y]
        BY <3>3, <4>1 DEF Carries
      <4>3. Written(T, v)[o + y] = Bytes(v, T, j)[y]
        BY <1>5, <2>1, <2>2, <2>3 DEF Spelled
      <4>4. QED
        BY <2>2, <4>1, <4>2, <4>3 DEF Bytes
    <3>4. Fits(t) /\ x < t.mod
      BY <1>1, <2>1, <2>2
    <3>5. ReadScalar(r[j], t) =
            IF r[j].pos + t.bytes <= Len(wire)
            THEN [threw |-> FALSE, pos |-> r[j].pos + t.bytes, value |-> Append(r[j].value, x)]
            ELSE [r[j] EXCEPT !.threw = TRUE]
      <4> HIDE DEF First, Through
      <4>1. PICK a \in ReadState : a = r[j]
        BY <2>4
      <4>2. ~a.threw /\ a.pos <= Len(wire)
        BY <1>6, <2>6, <3>2, <4>1
      <4>3. \A y \in 1..t.bytes :
              a.pos + y <= Len(wire) => wire[a.pos + y] = BytesOf(x, t.bytes)[y]
        BY <2>2, <3>3, <4>1
      <4>4. ReadScalar(a, t) =
              IF a.pos + t.bytes <= Len(wire)
              THEN [threw |-> FALSE, pos |-> a.pos + t.bytes, value |-> Append(a.value, x)]
              ELSE [a EXCEPT !.threw = TRUE]
        BY <3>4, <4>2, <4>3, ScalarRead
      <4>5. QED
        BY <4>1, <4>4
    <3>6. Append(First(j), x) = First(j + 1)
      <4>1. First(j) \o <<v[j + 1]>> = First(j + 1)
        BY <1>1, <2>1
      <4>2. QED
        BY <1>1, <2>1, <2>2
    <3>7. CASE p + s[j + 1] <= l
      <4>1. r[j].pos + t.bytes = p + s[j + 1] /\ r[j].pos + t.bytes <= Len(wire)
        BY <1>6, <2>2, <2>3, <3>2, <3>7
      <4>2. QED
        BY <2>4, <3>2, <3>5, <3>6, <3>7, <4>1
    <3>8. CASE ~(p + s[j + 1] <= l)
      <4>1. ~(r[j].pos + t.bytes <= Len(wire))
        BY <1>6, <2>2, <2>3, <3>2, <3>8
      <4>2. r[j + 1] = [r[j] EXCEPT !.threw = TRUE]
        BY <2>4, <3>5, <4>1
      <4>3. r[j + 1].threw /\ r[j + 1].pos = p + o
        BY <2>4, <3>2, <4>2 DEF ReadState
      <4>4. QED
        BY <2>6, <3>8, <4>3
    <3>9. QED
      BY <3>7, <3>8
  <2>7. QED
    BY <2>5, <2>6
<1> HIDE DEF S
<1>9. n \in S
  BY <1>1, <1>7, <1>8, Induction
<1>10. First(n) = v
  BY <1>1
<1>11. QED
  BY <1>1, <1>3, <1>4, <1>6, <1>9, <1>10 DEF S

-----------------------------------------------------------------------------
(* Several values in one buffer.                                           *)

BytesOfFirst(ty, m) == Sum([j \in 0..(m - 1) |-> SizeOf(ty[j + 1])], m)

LEMMA FirstSteps ==
  ASSUME NEW ty \in Seq(Seq(ScalarType)), NEW m \in 0..(Len(ty) - 1)
  PROVE  /\ SizeOf(ty[m + 1]) \in Nat
         /\ BytesOfFirst(ty, m) \in Int
         /\ BytesOfFirst(ty, m + 1) = BytesOfFirst(ty, m) + SizeOf(ty[m + 1])
<1> DEFINE f == [j \in 0..m |-> SizeOf(ty[j + 1])]
           g == [j \in 0..(m - 1) |-> SizeOf(ty[j + 1])]
<1>1. m \in Nat /\ (m + 1) - 1 = m
  OBVIOUS
<1>2. \A j \in 0..m : SizeOf(ty[j + 1]) \in Nat
  <2> SUFFICES ASSUME NEW j \in 0..m PROVE SizeOf(ty[j + 1]) \in Nat
    OBVIOUS
  <2>1. j + 1 \in 1..Len(ty)
    OBVIOUS
  <2>2. ty[j + 1] \in Seq(ScalarType)
    BY <2>1
  <2>3. QED
    BY <2>2, OffsetsExist
<1>3. f \in [0..m -> Int] /\ g \in [0..(m - 1) -> Int] /\ \A j \in 0..(m - 1) : g[j] = f[j]
  BY <1>2
<1>4. BytesOfFirst(ty, m) = Sum(g, m) /\ BytesOfFirst(ty, m + 1) = Sum(f, m + 1)
  BY <1>1 DEF BytesOfFirst
<1>5. f[m] = SizeOf(ty[m + 1]) /\ SizeOf(ty[m + 1]) \in Nat
  BY <1>2
<1>6. Sum(g, m) \in Int /\ Sum(f, m + 1) = Sum(g, m) + f[m]
  <2> HIDE DEF f, g
  <2>1. QED
    BY <1>1, <1>3, SumNext
<1>7. QED
  BY <1>4, <1>5, <1>6

LEMMA FirstNone ==
  ASSUME NEW ty
  PROVE  BytesOfFirst(ty, 0) = 0
<1> DEFINE f == [j \in 0..(0 - 1) |-> SizeOf(ty[j + 1])]
<1>1. f \in [0..(0 - 1) -> Int] /\ 0 \in Nat
  OBVIOUS
<1>2. BytesOfFirst(ty, 0) = Sum(f, 0)
  BY DEF BytesOfFirst
<1> HIDE DEF f
<1>3. PICK s : s[0] = 0 /\ Sum(f, 0) = s[0]
  BY <1>1, SumSteps
<1>4. QED
  BY <1>2, <1>3

(* The values lie one behind the other. *)
LEMMA FirstGrows ==
  ASSUME NEW ty \in Seq(Seq(ScalarType))
  PROVE  /\ \A m \in 0..Len(ty) : BytesOfFirst(ty, m) \in Nat
         /\ \A m \in 0..Len(ty) : \A a \in 0..m : BytesOfFirst(ty, a) <= BytesOfFirst(ty, m)
<1> DEFINE n == Len(ty)
           B(m) == BytesOfFirst(ty, m)
           S == {m \in Nat : m <= n => B(m) \in Nat /\ \A a \in 0..m : B(a) <= B(m)}
<1>1. n \in Nat
  OBVIOUS
<1>2. 0 \in S
  BY FirstNone
<1>3. ASSUME NEW m \in Nat, m \in S PROVE m + 1 \in S
  <2> SUFFICES ASSUME m + 1 <= n
               PROVE  B(m + 1) \in Nat /\ \A a \in 0..(m + 1) : B(a) <= B(m + 1)
    OBVIOUS
  <2>1. m \in 0..(n - 1) /\ m <= n
    BY <1>1
  <2>2. PICK z \in Nat : z = SizeOf(ty[m + 1]) /\ B(m + 1) = B(m) + z
    BY <2>1, FirstSteps
  <2>3. B(m) \in Nat /\ \A a \in 0..m : B(a) <= B(m)
    BY <1>3, <2>1
  <2>4. B(m + 1) \in Nat /\ B(m) <= B(m + 1)
    BY <2>2, <2>3
  <2>5. ASSUME NEW a \in 0..(m + 1) PROVE B(a) <= B(m + 1)
    <3>1. CASE a = m + 1
      BY <2>4, <3>1
    <3>2. CASE a # m + 1
      <4>1. a \in 0..m
        BY <3>2
      <4>2. PICK x \in Int : x = B(a)
        <5>1. a \in 0..(n - 1)
          BY <1>1, <2>1, <4>1
        <5>2. QED
          BY <5>1, FirstSteps
      <4>3. x <= B(m)
        BY <2>3, <4>1, <4>2
      <4>4. QED
        BY <2>3, <2>4, <4>2, <4>3
    <3>3. QED
      BY <3>1, <3>2
  <2>6. QED
    BY <2>4, <2>5
<1> HIDE DEF S, B
<1>4. \A m \in Nat : m \in S
  BY <1>2, <1>3, Induction, Zenon
<1>5. ASSUME NEW m \in 0..n PROVE B(m) \in Nat /\ \A a \in 0..m : B(a) <= B(m)
  <2>1. m \in Nat /\ m <= n
    BY <1>1
  <2>2. QED
    BY <1>4, <2>1 DEF S
<1>6. QED
  BY <1>5 DEF B

(* Wherever a buffer ends, some number of values arrive whole. *)
LEMMA EndLiesBetween ==
  ASSUME NEW ty \in Seq(Seq(ScalarType)), NEW l \in Nat
  PROVE  \E m \in 0..Len(ty) :
           /\ BytesOfFirst(ty, m) <= l
           /\ m = Len(ty) \/ BytesOfFirst(ty, m + 1) > l
<1> DEFINE n == Len(ty)
           B(m) == BytesOfFirst(ty, m)
           S == {m \in 0..n : m = n \/ B(m + 1) > l}
<1>1. n \in Nat /\ B(0) = 0 /\ \A m \in 0..n : B(m) \in Nat
  BY FirstNone, FirstGrows
<1>2. S \in SUBSET Nat /\ n \in S
  BY <1>1
<1>3. PICK m \in S : \A a \in S : m <= a
  <2> HIDE DEF S
  <2>1. QED
    BY <1>2, LeastNatural
<1>4. m \in 0..n /\ (m = n \/ B(m + 1) > l)
  OBVIOUS
<1>5. B(m) <= l
  <2>1. CASE m = 0
    BY <1>1, <2>1
  <2>2. CASE m # 0
    <3>1. m - 1 \in 0..n /\ (m - 1) + 1 = m /\ ~(m <= m - 1)
      BY <1>1, <1>4, <2>2
    <3>2. ~(B(m) > l)
      BY <1>3, <3>1
    <3>3. QED
      BY <1>1, <1>4, <3>2
  <2>3. QED
    BY <2>1, <2>2
<1>6. QED
  BY <1>4, <1>5

-----------------------------------------------------------------------------
(* The invariant.                                                          *)

SerializationTyped ==
  /\ \E h \in Handed : types = h.types /\ values = h.values
  /\ written \in 0..Len(types)
  /\ buf \in Seq(Nat)
  /\ wire \in Seq(Nat)
  /\ pos \in Nat
  /\ received \in Seq(Seq(Nat))
  /\ Len(received) <= Len(types)
  /\ pc \in {"writing", "reading", "done", "threw"}

(* The first m values stand in b, as far as b goes. *)
Stands(b, m) ==
  \A j \in 0..(m - 1) : \A x \in 1..SizeOf(types[j + 1]) :
    BytesUpTo(j) + x <= Len(b) => b[BytesUpTo(j) + x] = Written(types[j + 1], values[j + 1])[x]

(* What has been written stands in the buffer, what arrived is its         *)
(* beginning, and the reader has read its values and stands behind them,   *)
(* or at the first that is not all there.                                  *)
SerializationInvariant ==
  /\ SerializationTyped
  /\ pc = "writing" => /\ Len(buf) = BytesUpTo(written)
                       /\ Stands(buf, written)
                       /\ wire = <<>> /\ pos = 0 /\ received = <<>>
  /\ pc # "writing" => /\ written = Len(types)
                       /\ Stands(wire, Len(types))
                       /\ BytesUpTo(Len(received)) <= Len(wire)
  /\ \A j \in 1..Len(received) : received[j] = values[j]
  /\ pc \in {"reading", "done"} => pos = BytesUpTo(Len(received))
  /\ pos <= Len(wire)
  /\ pc = "done" => Len(received) = Len(types)
  /\ pc = "threw" => /\ Len(received) < Len(types)
                     /\ BytesUpTo(Len(received) + 1) > Len(wire)

LEMMA UpToIsFirst == \A m : BytesUpTo(m) = BytesOfFirst(types, m)
  BY DEF BytesUpTo, BytesOfFirst

LEMMA HandedOver ==
  ASSUME SerializationTyped
  PROVE  /\ types \in Seq(Seq(ScalarType)) /\ values \in Seq(Seq(Nat))
         /\ Len(values) = Len(types) /\ Len(types) \in Nat
         /\ \A j \in 0..(Len(types) - 1) : Handable(types[j + 1], values[j + 1])
<1>1. PICK h \in Handed : types = h.types /\ values = h.values
  BY DEF SerializationTyped
<1>2. /\ types \in Seq(Seq(ScalarType)) /\ values \in Seq(Seq(Nat))
      /\ Len(values) = Len(types)
      /\ \A j \in DOMAIN types :
           /\ \A i \in DOMAIN types[j] : Fits(types[j][i])
           /\ IsValue(types[j], values[j])
  BY <1>1, SerializationAssumption
<1>3. Len(types) \in Nat
  BY <1>2
<1>4. ASSUME NEW j \in 0..(Len(types) - 1) PROVE Handable(types[j + 1], values[j + 1])
  <2>1. j + 1 \in 1..Len(types) /\ j + 1 \in 1..Len(values)
    BY <1>2, <1>3
  <2>2. types[j + 1] \in Seq(ScalarType) /\ values[j + 1] \in Seq(Nat) /\ j + 1 \in DOMAIN types
    BY <1>2, <2>1
  <2>3. QED
    BY <1>2, <2>2 DEF Handable, IsType
<1>5. QED
  BY <1>2, <1>3, <1>4

LEMMA UpToSteps ==
  ASSUME SerializationTyped
  PROVE  /\ BytesUpTo(0) = 0
         /\ \A m \in 0..Len(types) : BytesUpTo(m) \in Nat
         /\ \A m \in 0..Len(types) : \A a \in 0..m : BytesUpTo(a) <= BytesUpTo(m)
         /\ \A m \in 0..(Len(types) - 1) :
              /\ SizeOf(types[m + 1]) \in Nat
              /\ BytesUpTo(m + 1) = BytesUpTo(m) + SizeOf(types[m + 1])
<1>1. types \in Seq(Seq(ScalarType))
  BY HandedOver
<1>2. QED
  BY <1>1, FirstNone, FirstSteps, FirstGrows, UpToIsFirst

LEMMA StaysTyped ==
  ASSUME SerializationTyped, UNCHANGED <<types, values>>
  PROVE  /\ \E h \in Handed : types' = h.types /\ values' = h.values
         /\ \A m : BytesUpTo(m)' = BytesUpTo(m)
  BY DEF SerializationTyped, BytesUpTo

(* Writing appends a value behind those that stand. *)
LEMMA WriteKeeps ==
  ASSUME SerializationInvariant, Write
  PROVE  SerializationInvariant'
<1>1. SerializationTyped /\ pc = "writing" /\ UNCHANGED <<types, values, wire, pos, received, pc>>
  BY DEF SerializationInvariant, Write
<1>2. written \in 0..(Len(types) - 1) /\ written + 1 \in 0..Len(types)
  BY <1>1, HandedOver DEF Write, SerializationTyped
<1> DEFINE T == types[written + 1]
           v == values[written + 1]
           b == Written(T, v)
           B(m) == BytesUpTo(m)
<1>3. Handable(T, v)
  BY <1>1, <1>2, HandedOver
<1>4. PICK s : Offsets(T, s)
  BY <1>3, OffsetsExist DEF Handable, IsType
<1>5. b \in Seq(Nat) /\ Len(b) = SizeOf(T)
  BY <1>3, <1>4, WrittenIs
<1>6. /\ \A m \in 0..Len(types) : B(m) \in Nat
      /\ \A m \in 0..Len(types) : \A a \in 0..m : B(a) <= B(m)
      /\ \A m \in 0..(Len(types) - 1) :
           SizeOf(types[m + 1]) \in Nat /\ B(m + 1) = B(m) + SizeOf(types[m + 1])
  BY <1>1, UpToSteps
<1> HIDE DEF b, B
<1>7. buf \in Seq(Nat) /\ Len(buf) = B(written) /\ Stands(buf, written)
  BY <1>1 DEF SerializationInvariant, SerializationTyped, B
<1>8. buf' = buf \o b /\ written' = written + 1
  BY DEF Write, b
<1>9. buf' \in Seq(Nat) /\ Len(buf') = B(written + 1)
  <2>1. Len(buf \o b) = Len(buf) + Len(b)
    BY <1>5, <1>7
  <2>2. QED
    BY <1>2, <1>5, <1>6, <1>7, <1>8, <2>1
<1>10. ASSUME NEW j \in 0..written, NEW x \in 1..SizeOf(types[j + 1])
       PROVE  buf'[B(j) + x] = Written(types[j + 1], values[j + 1])[x]
  <2>0. j \in 0..(Len(types) - 1) /\ j \in 0..Len(types)
    BY <1>2
  <2>1. CASE j = written
    <3>1. x \in 1..Len(b)
      BY <1>5, <2>1
    <3>2. (buf \o b)[Len(buf) + x] = b[x]
      BY <1>5, <1>7, <3>1
    <3>3. QED
      BY <1>7, <1>8, <2>1, <3>2 DEF b
  <2>2. CASE j # written
    <3>1. j \in 0..(written - 1) /\ j + 1 \in 0..written /\ written \in 0..Len(types)
      BY <1>2, <2>2
    <3>2. B(j) + SizeOf(types[j + 1]) <= Len(buf) /\ B(j) \in Nat /\ SizeOf(types[j + 1]) \in Nat
      BY <1>6, <1>7, <2>0, <3>1
    <3>3. B(j) + x \in 1..Len(buf)
      BY <3>2
    <3>4. (buf \o b)[B(j) + x] = buf[B(j) + x]
      BY <1>5, <1>7, <3>3
    <3>5. buf[B(j) + x] = Written(types[j + 1], values[j + 1])[x]
      BY <1>7, <3>1, <3>3 DEF Stands, B
    <3>6. QED
      BY <1>8, <3>4, <3>5
  <2>3. QED
    BY <2>1, <2>2
<1>11. (Stands(buf, written))'
  <2>1. (written + 1) - 1 = written
    BY <1>2
  <2>2. \A m : BytesUpTo(m)' = B(m)
    BY <1>1, StaysTyped DEF B
  <2>3. \A j \in 0..written : \A x \in 1..SizeOf(types[j + 1]) :
          B(j) + x <= Len(buf') => buf'[B(j) + x] = Written(types[j + 1], values[j + 1])[x]
    BY <1>10
  <2>4. QED
    BY <1>1, <1>8, <2>1, <2>2, <2>3 DEF Stands
<1>12. (Len(buf) = BytesUpTo(written))'
  BY <1>1, <1>8, <1>9, StaysTyped DEF B
<1>13. SerializationTyped'
  BY <1>1, <1>2, <1>8, <1>9, StaysTyped DEF SerializationTyped
<1>14. QED
  BY <1>1, <1>11, <1>12, <1>13, StaysTyped DEF SerializationInvariant

(* What arrives is the beginning of what was written. *)
LEMMA ReleaseKeeps ==
  ASSUME SerializationInvariant, Release
  PROVE  SerializationInvariant'
<1>1. /\ SerializationTyped /\ pc = "writing" /\ written = Len(types)
      /\ UNCHANGED <<types, values, written, pos, received>>
      /\ pos = 0 /\ received = <<>> /\ pc' = "reading" /\ buf' = <<>>
  BY DEF SerializationInvariant, Release
<1>2. buf \in Seq(Nat) /\ Stands(buf, written)
  BY <1>1 DEF SerializationInvariant, SerializationTyped
<1>3. PICK kept \in 0..Len(buf) : wire' = SubSeq(buf, 1, kept)
  BY DEF Release
<1>4. /\ wire' \in Seq(Nat) /\ Len(wire') = kept
      /\ \A x \in 1..kept : wire'[x] = buf[x]
  BY <1>2, <1>3
<1>5. BytesUpTo(0) = 0 /\ \A m \in 0..Len(types) : BytesUpTo(m) \in Nat
  BY <1>1, UpToSteps
<1>6. (Stands(wire, Len(types)))'
  <2>1. \A m : BytesUpTo(m)' = BytesUpTo(m)
    BY <1>1, StaysTyped
  <2>2. ASSUME NEW j \in 0..(Len(types) - 1), NEW x \in 1..SizeOf(types[j + 1]),
               BytesUpTo(j) + x <= Len(wire')
        PROVE  wire'[BytesUpTo(j) + x] = Written(types[j + 1], values[j + 1])[x]
    <3>1. j \in 0..Len(types) /\ SizeOf(types[j + 1]) \in Nat
      <4>1. Len(types) \in Nat /\ \A m \in 0..(Len(types) - 1) : SizeOf(types[m + 1]) \in Nat
        BY <1>1, HandedOver, UpToSteps
      <4>2. QED
        BY <4>1
    <3>2. BytesUpTo(j) + x \in 1..kept /\ BytesUpTo(j) + x <= Len(buf)
      BY <1>4, <1>5, <2>2, <3>1
    <3>3. QED
      BY <1>1, <1>2, <1>4, <3>2 DEF Stands
  <2>3. QED
    BY <1>1, <2>1, <2>2 DEF Stands
<1>7. SerializationTyped'
  BY <1>1, <1>4, StaysTyped, <<>> \in Seq(Nat) DEF SerializationTyped
<1>8. Len(received') = 0 /\ BytesUpTo(0)' = 0 /\ 0 <= Len(wire')
  BY <1>1, <1>4, <1>5, StaysTyped
<1>9. QED
  BY <1>1, <1>6, <1>7, <1>8 DEF SerializationInvariant

(* What a read comes back with: the value that was written, or a throw     *)
(* where the wire ends before it.                                          *)
LEMMA ReadFindsValue ==
  ASSUME SerializationInvariant, pc = "reading", Len(received) < Len(types)
  PROVE  LET r == ReadOf(types[Len(received) + 1], pos)
             m == Len(received) + 1
         IN  IF BytesUpTo(m) <= Len(wire)
             THEN r = [threw |-> FALSE, pos |-> BytesUpTo(m), value |-> values[m]]
             ELSE r.threw /\ r.pos \in 0..Len(wire)
<1> DEFINE j == Len(received)
           T == types[j + 1]
           v == values[j + 1]
<1>1. /\ SerializationTyped /\ Stands(wire, Len(types)) /\ pos = BytesUpTo(j) /\ pos <= Len(wire)
      /\ wire \in Seq(Nat) /\ pos \in Nat
  BY DEF SerializationInvariant, SerializationTyped
<1>2. j \in Nat /\ j \in 0..(Len(types) - 1) /\ Len(types) \in Nat
  BY <1>1, HandedOver DEF SerializationTyped
<1>3. Handable(T, v)
  BY <1>1, <1>2, HandedOver
<1>4. PICK s : Offsets(T, s)
  BY <1>3, OffsetsExist DEF Handable, IsType
<1>5. Len(Written(T, v)) = SizeOf(T)
  BY <1>3, <1>4, WrittenIs
<1>6. Carries(pos, Written(T, v))
  BY <1>1, <1>2, <1>5 DEF Stands, Carries
<1>7. BytesUpTo(j + 1) = pos + SizeOf(T)
  BY <1>1, <1>2, UpToSteps
<1>8. IF pos + SizeOf(T) <= Len(wire)
      THEN ReadOf(T, pos) = [threw |-> FALSE, pos |-> pos + SizeOf(T), value |-> v]
      ELSE ReadOf(T, pos).threw /\ ReadOf(T, pos).pos \in pos..Len(wire)
  BY <1>1, <1>3, <1>6, ReadIs
<1>9. \A x \in pos..Len(wire) : x \in 0..Len(wire)
  BY <1>1
<1>10. QED
  BY <1>7, <1>8, <1>9

LEMMA ReadKeeps ==
  ASSUME SerializationInvariant, Read
  PROVE  SerializationInvariant'
<1>0. PICK m : m = Len(received) + 1
  OBVIOUS
<1> DEFINE r == ReadOf(types[m], pos)
<1>1. /\ SerializationTyped /\ pc = "reading" /\ Len(received) < Len(types)
      /\ UNCHANGED <<types, values, buf, written, wire>>
      /\ pos' = r.pos
      /\ r.threw => pc' = "threw" /\ received' = received
      /\ ~r.threw => received' = Append(received, r.value) /\ pc' = pc
  BY <1>0 DEF SerializationInvariant, Read
<1>2. IF BytesUpTo(m) <= Len(wire)
      THEN r = [threw |-> FALSE, pos |-> BytesUpTo(m), value |-> values[m]]
      ELSE r.threw /\ r.pos \in 0..Len(wire)
  BY <1>0, <1>1, ReadFindsValue
<1> HIDE DEF r
<1>3. /\ m \in 1..Len(types) /\ Len(received) \in Nat /\ received \in Seq(Seq(Nat))
      /\ wire \in Seq(Nat) /\ Len(types) \in Nat
      /\ m = Len(received) + 1 /\ m \in 0..Len(types)
  BY <1>0, <1>1, HandedOver DEF SerializationTyped
<1>4. values[m] \in Seq(Nat)
  BY <1>1, <1>3, HandedOver
<1>5. \A x \in 0..Len(types) : BytesUpTo(x) \in Nat
  BY <1>1, UpToSteps
<1>6. (Stands(wire, Len(types)))'
  <2>1. Stands(wire, Len(types))
    BY <1>1 DEF SerializationInvariant
  <2>2. \A x : BytesUpTo(x)' = BytesUpTo(x)
    BY <1>1, StaysTyped
  <2>3. QED
    BY <1>1, <2>1, <2>2 DEF Stands
<1>7. CASE BytesUpTo(m) <= Len(wire)
  <2>1. received' = Append(received, values[m]) /\ pc' = "reading" /\ pos' = BytesUpTo(m)
    BY <1>1, <1>2, <1>7
  <2>2. /\ received' \in Seq(Seq(Nat)) /\ Len(received') = m
        /\ \A j \in 1..Len(received) : received'[j] = received[j]
        /\ received'[m] = values[m]
    BY <1>3, <1>4, <2>1
  <2>3. \A j \in 1..m : received'[j] = values[j]
    <3>1. \A j \in 1..m : j \in 1..Len(received) \/ j = m
      BY <1>3
    <3>2. QED
      BY <2>2, <3>1 DEF SerializationInvariant
  <2>4. SerializationTyped'
    BY <1>1, <1>3, <1>5, <2>1, <2>2, StaysTyped DEF SerializationTyped
  <2>5. BytesUpTo(m)' = BytesUpTo(m) /\ Len(wire') = Len(wire)
    BY <1>1, StaysTyped
  <2>6. QED
    BY <1>1, <1>6, <1>7, <2>1, <2>2, <2>3, <2>4, <2>5 DEF SerializationInvariant
<1>8. CASE ~(BytesUpTo(m) <= Len(wire))
  <2>1. received' = received /\ pc' = "threw" /\ pos' \in 0..Len(wire) /\ Len(wire) \in Nat
    BY <1>1, <1>2, <1>3, <1>8
  <2>2. SerializationTyped'
    BY <1>1, <1>3, <2>1, StaysTyped DEF SerializationTyped
  <2>3. /\ Len(wire') = Len(wire)
        /\ BytesUpTo(Len(received))' = BytesUpTo(Len(received))
        /\ BytesUpTo(Len(received) + 1)' = BytesUpTo(m)
    BY <1>0, <1>1, <2>1 DEF BytesUpTo
  <2>4. BytesUpTo(m) > Len(wire)
    BY <1>3, <1>5, <1>8
  <2>5. Len(received') < Len(types') /\ pos' <= Len(wire')
    BY <1>1, <2>1, <2>3
  <2>6. QED
    BY <1>1, <1>6, <2>1, <2>2, <2>3, <2>4, <2>5 DEF SerializationInvariant
<1>9. QED
  BY <1>7, <1>8

LEMMA SerializationHoldsAtFirst == SerializationInit => SerializationInvariant
<1> SUFFICES ASSUME SerializationInit PROVE SerializationInvariant
  OBVIOUS
<1>1. PICK h \in Handed : types = h.types /\ values = h.values
  BY DEF SerializationInit
<1>2. /\ buf = <<>> /\ written = 0 /\ wire = <<>> /\ pos = 0 /\ received = <<>>
      /\ pc = "writing"
  BY DEF SerializationInit
<1>3. types \in Seq(Seq(ScalarType))
  BY <1>1, SerializationAssumption
<1>4. Len(types) \in Nat /\ 0 \in 0..Len(types) /\ Len(<<>>) = 0
  BY <1>3
<1>5. SerializationTyped
  BY <1>1, <1>2, <1>4 DEF SerializationTyped
<1>6. BytesUpTo(0) = 0
  BY <1>5, UpToSteps
<1>7. Stands(buf, 0)
  BY DEF Stands
<1>8. QED
  BY <1>2, <1>4, <1>5, <1>6, <1>7 DEF SerializationInvariant

LEMMA SerializationHolds ==
  SerializationInvariant /\ [SerializationNext]_serializationVars => SerializationInvariant'
<1> SUFFICES ASSUME SerializationInvariant, [SerializationNext]_serializationVars
             PROVE  SerializationInvariant'
  OBVIOUS
<1>1. CASE Finish
  <2>1. /\ SerializationTyped /\ pc = "reading" /\ Len(received) = Len(types) /\ pc' = "done"
        /\ UNCHANGED <<types, values, buf, written, wire, pos, received>>
    BY <1>1 DEF Finish, SerializationInvariant
  <2>2. SerializationTyped'
    BY <2>1 DEF SerializationTyped
  <2>3. QED
    BY <2>1, <2>2 DEF SerializationInvariant, Stands, BytesUpTo
<1>2. CASE UNCHANGED serializationVars
  <2>1. SerializationTyped'
    BY <1>2 DEF SerializationTyped, SerializationInvariant, serializationVars
  <2>2. QED
    BY <1>2, <2>1 DEF SerializationInvariant, Stands, BytesUpTo, serializationVars
<1>3. QED
  BY <1>1, <1>2, WriteKeeps, ReleaseKeeps, ReadKeeps DEF SerializationNext, Stop

(* The buffer holds what was written, what arrives is its beginning, and   *)
(* the reader has read the values it stands behind: Writer, Reader and the *)
(* Serde of every type, together.                                          *)
THEOREM SerializationCorrect == SerializationSpec => []SerializationInvariant
<1>1. QED
  BY SerializationHoldsAtFirst, SerializationHolds, PTL DEF SerializationSpec

(* However the types, the values and the cut: the reader never runs past   *)
(* the end, and stands behind exactly what it has read.                    *)
THEOREM ReaderStaysInStep == SerializationSpec => []ReaderInStep
<1>1. SerializationInvariant => ReaderInStep
  BY DEF SerializationInvariant, ReaderInStep
<1>2. QED
  BY <1>1, SerializationCorrect, PTL

-----------------------------------------------------------------------------
(* The promise of a Transport.                                             *)

ArrivesWhole(m) ==
  /\ BytesUpTo(m) <= Len(wire)
  /\ m = Len(types) \/ BytesUpTo(m + 1) > Len(wire)

(* How many values arrive whole is determined by where the wire ends. *)
LEMMA WholeIs ==
  ASSUME SerializationInvariant, pc # "writing"
  PROVE  /\ Whole \in 0..Len(types) /\ ArrivesWhole(Whole)
         /\ \A m \in 0..Len(types) : ArrivesWhole(m) => Whole = m
<1> DEFINE n == Len(types)
           B(m) == BytesUpTo(m)
<1>1. /\ SerializationTyped /\ n \in Nat /\ Len(wire) \in Nat
  BY HandedOver DEF SerializationInvariant, SerializationTyped
<1>2. /\ B(0) = 0
      /\ \A m \in 0..n : B(m) \in Nat
      /\ \A m \in 0..n : \A a \in 0..m : B(a) <= B(m)
  BY <1>1, UpToSteps
<1>3. \E m \in 0..n : ArrivesWhole(m)
  BY <1>1, HandedOver, EndLiesBetween, UpToIsFirst DEF ArrivesWhole
<1>4. Whole \in 0..n /\ ArrivesWhole(Whole)
  BY <1>3 DEF Whole, ArrivesWhole
<1>5. ASSUME NEW a \in 0..n, NEW m \in 0..n, ArrivesWhole(a), ArrivesWhole(m), a < m
      PROVE  FALSE
  <2>1. a + 1 \in 0..m /\ a + 1 \in 0..n /\ a # n
    BY <1>1, <1>5
  <2>2. B(a + 1) > Len(wire) /\ B(m) <= Len(wire) /\ B(a + 1) <= B(m)
    BY <1>2, <1>5, <2>1 DEF ArrivesWhole
  <2>3. B(a + 1) \in Nat /\ B(m) \in Nat
    BY <1>2, <2>1
  <2>4. QED
    BY <1>1, <2>2, <2>3
<1>6. QED
  <2>1. ASSUME NEW m \in 0..n, ArrivesWhole(m) PROVE Whole = m
    <3>1. Whole \in Nat /\ m \in Nat
      BY <1>1, <1>4
    <3>2. ~(Whole < m) /\ ~(m < Whole)
      BY <1>4, <1>5, <2>1
    <3>3. QED
      BY <3>1, <3>2
  <2>2. QED
    BY <1>4, <2>1

LEMMA WholeStays ==
  ASSUME UNCHANGED <<types, wire>>, pc # "writing", pc' # "writing"
  PROVE  Whole' = Whole
<1>1. \A m : BytesUpTo(m)' = BytesUpTo(m)
  BY DEF BytesUpTo
<1>2. QED
  BY <1>1 DEF Whole

Sent == SubSeq(values, 1, written)

LEMMA SentIs ==
  ASSUME SerializationTyped
  PROVE  /\ Sent \in Seq(Seq(Nat)) /\ Len(Sent) = written
         /\ \A j \in 1..written : Sent[j] = values[j]
<1>1. written \in 0..Len(values) /\ values \in Seq(Seq(Nat))
  BY HandedOver DEF SerializationTyped
<1>2. QED
  BY <1>1 DEF Sent

LEMMA HandOffSteps ==
  SerializationInvariant /\ SerializationInvariant' /\ [SerializationNext]_serializationVars
    => [Transport!Next]_(Transport!vars)
<1> SUFFICES ASSUME SerializationInvariant, SerializationInvariant',
                    [SerializationNext]_serializationVars
             PROVE  [Transport!Next]_(Transport!vars)
  OBVIOUS
<1>1. SerializationTyped /\ SerializationTyped' /\ Len(types) \in Nat
  BY HandedOver DEF SerializationInvariant
<1>2. CASE Write
  <2>1. /\ pc = "writing" /\ pc' = "writing" /\ written' = written + 1
        /\ UNCHANGED <<types, values, received>>
    BY <1>2 DEF Write
  <2>2. Whole = 0 /\ Whole' = 0
    BY <2>1 DEF Whole
  <2>3. /\ Sent \in Seq(Seq(Nat)) /\ Len(Sent) = written
        /\ \A j \in 1..written : Sent[j] = values[j]
    BY <1>1, SentIs
  <2>4. /\ Len(Sent') = written + 1
        /\ \A j \in 1..(written + 1) : Sent'[j] = values[j]
    <3>1. PICK k : k = written + 1
      OBVIOUS
    <3>2. k \in 0..Len(values) /\ values \in Seq(Seq(Nat))
      BY <1>1, <1>2, <3>1, HandedOver DEF Write, SerializationTyped
    <3>3. Sent' = SubSeq(values, 1, k)
      BY <2>1, <3>1 DEF Sent
    <3>4. QED
      BY <3>1, <3>2, <3>3
  <2>5. /\ DOMAIN Sent = 1..written /\ written \in Nat
        /\ \A j \in 1..written : j \in 1..(written + 1)
    BY <1>1, <2>3 DEF SerializationTyped
  <2>6. Transport!Send
    BY <2>1, <2>2, <2>3, <2>4, <2>5 DEF Transport!Send, Sent
  <2>7. QED
    BY <2>6 DEF Transport!Next
<1>3. CASE Release
  <2>1. /\ pc = "writing" /\ pc' = "reading" /\ written = Len(types)
        /\ UNCHANGED <<types, values, written, received>>
    BY <1>3 DEF Release
  <2>2. Whole' \in 0..Len(types')
    <3>1. types \in Seq(Seq(ScalarType)) /\ wire' \in Seq(Nat)
      BY <1>1, HandedOver DEF SerializationTyped
    <3>2. PICK l \in Nat : l = Len(wire')
      BY <3>1
    <3>3. \E m \in 0..Len(types) : BytesOfFirst(types, m) <= l
                                  /\ (m = Len(types) \/ BytesOfFirst(types, m + 1) > l)
      BY <3>1, EndLiesBetween
    <3>4. \A m : BytesUpTo(m)' = BytesOfFirst(types, m)
      BY <2>1 DEF BytesUpTo, BytesOfFirst
    <3>5. QED
      BY <2>1, <3>2, <3>3, <3>4 DEF Whole
  <2>3. Len(Sent) = written
    BY <1>1, SentIs
  <2>4. Transport!Arrive
    BY <2>1, <2>2, <2>3 DEF Transport!Arrive, Sent
  <2>5. QED
    BY <2>4 DEF Transport!Next
<1>4. CASE Read
  <2>1. /\ pc = "reading" /\ Len(received) < Len(types)
        /\ UNCHANGED <<types, values, written, wire>>
        /\ written = Len(types) /\ BytesUpTo(Len(received)) <= Len(wire)
        /\ pc' = "threw" \/ pc' = pc
    BY <1>4 DEF Read, SerializationInvariant
  <2>2. PICK m : m = Len(received) + 1
    OBVIOUS
  <2>3. /\ Len(received) \in 0..Len(types) /\ m \in 1..Len(types) /\ m \in 0..Len(types)
        /\ Len(received) = m - 1
    BY <1>1, <2>1, <2>2 DEF SerializationTyped
  <2>4. Whole' = Whole
    BY <2>1, WholeStays
  <2>5. /\ Len(Sent) = Len(types) /\ Sent[m] = values[m]
    BY <1>1, <2>1, <2>3, SentIs
  <2>6. /\ Whole \in 0..Len(types) /\ ArrivesWhole(Whole)
        /\ \A a \in 0..Len(types) : ArrivesWhole(a) => Whole = a
    BY <2>1, WholeIs
  <2>7. /\ \A a \in 0..Len(types) : BytesUpTo(a) \in Nat
        /\ \A b \in 0..Len(types) : \A a \in 0..b : BytesUpTo(a) <= BytesUpTo(b)
        /\ Len(wire) \in Nat
    BY <1>1, UpToSteps DEF SerializationTyped
  <2>8. CASE BytesUpTo(m) <= Len(wire)
    <3>1. received' = Append(received, values[m]) /\ pc' = "reading"
      BY <1>4, <2>1, <2>2, <2>8, ReadFindsValue DEF Read
    <3>2. Len(received) < Whole
      <4> SUFFICES ASSUME Whole <= m - 1 PROVE FALSE
        BY <2>3, <2>6
      <4>1. Whole + 1 \in 0..m /\ Whole # Len(types) /\ Whole + 1 \in 0..Len(types)
        BY <2>3, <2>6
      <4>2. BytesUpTo(Whole + 1) > Len(wire) /\ BytesUpTo(Whole + 1) <= BytesUpTo(m)
        BY <2>3, <2>6, <2>7, <4>1 DEF ArrivesWhole
      <4>3. BytesUpTo(Whole + 1) \in Nat /\ BytesUpTo(m) \in Nat
        BY <2>3, <2>7, <4>1
      <4>4. QED
        BY <2>7, <2>8, <4>2, <4>3
    <3>3. Transport!Receive
      BY <2>1, <2>2, <2>4, <2>5, <3>1, <3>2 DEF Transport!Receive, Sent
    <3>4. QED
      BY <3>3 DEF Transport!Next
  <2>9. CASE ~(BytesUpTo(m) <= Len(wire))
    <3>1. received' = received /\ pc' = "threw"
      BY <1>4, <2>1, <2>2, <2>9, ReadFindsValue DEF Read
    <3>2. ArrivesWhole(Len(received))
      BY <2>1, <2>2, <2>3, <2>7, <2>9 DEF ArrivesWhole
    <3>3. Whole = Len(received)
      BY <2>3, <2>6, <3>2
    <3>4. Transport!Finish
      BY <2>1, <2>4, <2>5, <3>1, <3>3 DEF Transport!Finish, Sent
    <3>5. QED
      BY <3>4 DEF Transport!Next
  <2>10. QED
    BY <2>8, <2>9
<1>5. CASE Finish
  <2>1. /\ pc = "reading" /\ pc' = "done" /\ Len(received) = Len(types)
        /\ UNCHANGED <<types, values, written, wire, received>> /\ written = Len(types)
    BY <1>5 DEF Finish, SerializationInvariant
  <2>2. Whole' = Whole
    BY <2>1, WholeStays
  <2>3. Len(Sent) = Len(types)
    BY <1>1, <2>1, SentIs
  <2>4. Transport!Finish
    BY <2>1, <2>2, <2>3 DEF Transport!Finish, Sent
  <2>5. QED
    BY <2>4 DEF Transport!Next
<1>6. CASE UNCHANGED serializationVars
  BY <1>6 DEF serializationVars, Transport!vars, Whole, BytesUpTo
<1>7. QED
  BY <1>2, <1>3, <1>4, <1>5, <1>6 DEF SerializationNext, Stop

(* Packed or not, cut short or not, every value comes out as it went in,   *)
(* in order, or the reader throws at the first that is not all there.      *)
THEOREM TransportKeepsPromise == SerializationSpec => HandsOffUnchanged
<1>1. SerializationInit => Transport!Init
  <2> SUFFICES ASSUME SerializationInit PROVE Transport!Init
    OBVIOUS
  <2>1. written = 0 /\ received = <<>> /\ pc = "writing"
    BY DEF SerializationInit
  <2>2. SerializationTyped
    BY SerializationHoldsAtFirst DEF SerializationInvariant
  <2>3. Sent = <<>>
    BY <2>1, <2>2, SentIs
  <2>4. Whole = 0
    BY <2>1 DEF Whole
  <2>5. QED
    BY <2>1, <2>3, <2>4 DEF Transport!Init, Sent
<1>2. QED
  BY <1>1, SerializationCorrect, HandOffSteps, PTL
  DEF SerializationSpec, HandsOffUnchanged, Transport!Spec
=============================================================================
