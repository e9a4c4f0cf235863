--------------------------- MODULE BinaryExpansion ---------------------------
(***************************************************************************)
(* src/include/tfhe/circuit/binary_expansion.hpp: from k encrypted bits,   *)
(* one ciphertext per slot h in 0..H-1, a chain of k gates each.  The      *)
(* chains share only their inputs and the keys and may be farmed out to    *)
(* threads, so the steps of different slots interleave in any way; exec(), *)
(* which runs the slots one after the other, is one of these ways.         *)
(***************************************************************************)
EXTENDS Gates, Powers, FiniteSets

CONSTANT H      (* slots of the one-hot output                             *)

ASSUME BinaryExpansionAssumption == H \in Nat \ {0}

VARIABLES
  FuseKeySwitch,    (* the template parameter                              *)
  v,                (* the input ciphertexts' phases                       *)
  bits,             (* the bits they encrypt (ghost)                       *)
  step,             (* slot -> gates applied so far, i in exec_slot_impl   *)
  acc,              (* slot -> phase of acc, then of the result            *)
  shape             (* slot -> "lwe" | "rlwe": the variant acc is in       *)

vars == <<FuseKeySwitch, v, bits, step, acc, shape>>

Slots == 0..(H - 1)

(* Mutant: std::bit_width(H) - 1. *)
kRoundedDown == Cardinality({i \in 0..H : pow2[i + 1] <= H})

(* std::bit_width(H - 1) *)
k == Cardinality({i \in 0..H : pow2[i] < H})

Inputs == 0..(k - 1)

Bit(h, i) == IF (h \div pow2[i]) % 2 = 1 THEN 1 ELSE 0

Init ==
  /\ FuseKeySwitch \in BOOLEAN
  /\ bits \in [Inputs -> {0, 1}]
  /\ \E e \in [Inputs -> Noise(LweNoise)] : v = [i \in Inputs |-> Quarter * bits[i] + e[i]]
  /\ step = [h \in Slots |-> 0]
  /\ acc = [h \in Slots |-> Quarter]
  /\ shape = [h \in Slots |-> "lwe"]

(* What materialize(acc) can make of slot h: acc itself if it is ready. *)
Materialized(h) == IF shape[h] = "lwe" THEN {acc[h]} ELSE KeySwitch(acc[h])

(* Mutant: the gate of the next bit. *)
StepAhead(h) ==
  LET i == step[h]
      gate == IF Bit(h, i + 1) = 1 THEN "and" ELSE "andnot"
  IN  /\ i < k
      /\ \E ready \in Materialized(h) :
         \E out \in GateBootstrap(Quarter, Linear(gate, ready, v[i])) :
           acc' = [acc EXCEPT ![h] = out]
      /\ shape' = [shape EXCEPT ![h] = "rlwe"]
      /\ step' = [step EXCEPT ![h] = i + 1]
      /\ UNCHANGED <<FuseKeySwitch, v, bits>>

(* One round of exec_slot_impl's loop. *)
Step(h) ==
  LET i == step[h]
      gate == IF Bit(h, i) = 1 THEN "and" ELSE "andnot"
  IN  /\ i < k
      /\ \E ready \in Materialized(h) :
         \E out \in GateBootstrap(Quarter, Linear(gate, ready, v[i])) :
           IF FuseKeySwitch
           THEN \E q \in KeySwitch(out) : acc' = [acc EXCEPT ![h] = q]
           ELSE acc' = [acc EXCEPT ![h] = out]
      /\ shape' = [shape EXCEPT ![h] = IF FuseKeySwitch THEN "lwe" ELSE "rlwe"]
      /\ step' = [step EXCEPT ![h] = i + 1]
      /\ UNCHANGED <<FuseKeySwitch, v, bits>>

(* The caller materializes a finished slot, to feed it to another gate. *)
Materialize(h) ==
  /\ step[h] = k
  /\ \E q \in Materialized(h) : acc' = [acc EXCEPT ![h] = q]
  /\ shape' = [shape EXCEPT ![h] = "lwe"]
  /\ UNCHANGED <<FuseKeySwitch, v, bits, step>>

Next == \E h \in Slots : Step(h) \/ Materialize(h)

Spec == Init /\ [][Next]_vars

-----------------------------------------------------------------------------

TypeOK ==
  /\ FuseKeySwitch \in BOOLEAN
  /\ bits \in [Inputs -> {0, 1}]
  /\ v \in [Inputs -> Int]
  /\ step \in [Slots -> 0..k]
  /\ acc \in [Slots -> Int]
  /\ shape \in [Slots -> {"lwe", "rlwe"}]

(* After i rounds slot h carries whether the low i bits of the input are   *)
(* those of h, with the noise of one bootstrap (and one key switch) and no *)
(* more, however long the chain.                                           *)
Matches(h, i) == \A j \in 0..(i - 1) : bits[j] = Bit(h, j)

SlotIsPrefixMatch ==
  \A h \in Slots :
    acc[h] - (IF Matches(h, step[h]) THEN Quarter ELSE 0)
      \in Noise(IF shape[h] = "lwe" THEN LweNoise ELSE Boot)

(* The finished output is one-hot (l.21-25): slot h reads 1 exactly when   *)
(* h is the number the input encrypts, least significant bit first, before *)
(* and after slots are materialized; an input of H or more, possible when  *)
(* H is not a power of two, reads as all zeros.                            *)
InputValue ==
  LET low[n \in 0..k] == IF n = 0 THEN 0 ELSE low[n - 1] + bits[n - 1] * pow2[n - 1]
  IN  low[k]

OneHot ==
  (\A h \in Slots : step[h] = k) =>
    \A h \in Slots : Reads(4, acc[h], IF InputValue = h THEN 1 ELSE 0)

(* The proofs need the inputs' own noise too, which nothing changes. *)
InputsBounded ==
  \A i \in Inputs : v[i] - Quarter * bits[i] \in Noise(LweNoise)
=============================================================================
