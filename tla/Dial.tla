--------------------------------- MODULE Dial ---------------------------------
(***************************************************************************)
(* From a slot's index to the torus and back                               *)
(* (src/include/tfhe/cipher/dial.hpp): the slot's value is divided out bit *)
(* by bit by ModTorus(raw, resolution) (src/include/primitive/torus.hpp),  *)
(* noise is added, and index() multiplies back, by shifting, in one word,  *)
(* or in two halves of a word, depending on the resolution and the width.  *)
(*                                                                         *)
(* The code's 32- and 64-bit words are half and 2 * half bits here.        *)
(***************************************************************************)
EXTENDS Integers, Powers

CONSTANTS
  half,         (* bits of uint32_t                                        *)
  Width,        (* [digits |-> bits of Word, qbit |-> bits of the torus]   *)
  Resolution    (* bound: how many slots a dial may have                   *)

ASSUME DialAssumption ==
  /\ half \in Nat \ {0}
  /\ \A w \in Width : w.qbit \in 1..w.digits /\ w.digits \in {half, 2 * half}
  /\ Resolution \subseteq 1..(pow2[half] - 1)

VARIABLES
  width,        (* the torus in use                                        *)
  raw,          (* the numerator: a Dial's slot                            *)
  resolution,
  remainder, quotient, i,    (* the division's locals                      *)
  value,        (* the Dial's torus value                                  *)
  noise,        (* added to it (ghost)                                     *)
  pc            (* "divide" | "encoded" | "noisy"                          *)

vars == <<width, raw, resolution, remainder, quotient, i, value, noise, pc>>

qbit == width.qbit
Q == pow2[qbit]
Words == pow2[width.digits]
DoubleWords == pow2[2 * half]

is_power_of_two == \E j \in 0..half : resolution = pow2[j]

(* bit_width(resolution - 1). *)
k == CHOOSE j \in 0..half : resolution <= pow2[j] /\ (j > 0 => resolution > pow2[j - 1])

Init ==
  /\ width \in Width
  /\ resolution \in Resolution
  /\ raw \in 0..resolution
  /\ remainder = raw % resolution
  /\ quotient = 0
  /\ i = 0
  /\ value = 0
  /\ noise = 0
  /\ pc = "divide"

-----------------------------------------------------------------------------

(* Mutant: the bit that a doubling pushes out of the word is forgotten. *)
GoesInTruncated(doubled) == doubled % Words >= resolution

(* overflowed || remainder >= divisor *)
GoesIn(doubled) == doubled >= Words \/ doubled % Words >= resolution

(* One quotient bit of ModTorus(raw, resolution). *)
Divide ==
  /\ pc = "divide"
  /\ i < qbit
  /\ LET bit == IF GoesIn(2 * remainder) THEN 1 ELSE 0
     IN  /\ remainder' = (2 * remainder - bit * resolution) % Words
         /\ quotient' = ((2 * quotient) % Words) + bit
  /\ i' = i + 1
  /\ UNCHANGED <<width, raw, resolution, value, noise, pc>>

Encode ==
  /\ pc = "divide"
  /\ i = qbit
  /\ value' = quotient % Q
  /\ pc' = "encoded"
  /\ UNCHANGED <<width, raw, resolution, remainder, quotient, i, noise>>

(* What a Dial asserts of its type and its index. *)
IsDial == qbit > k /\ raw < resolution

(* Encryption, evaluation and decryption in between: any noise at all. *)
Disturb ==
  /\ pc = "encoded"
  /\ IsDial
  /\ \E e \in -(Q \div 2)..(Q \div 2) :
       /\ noise' = e
       /\ value' = (value + e) % Q
  /\ pc' = "noisy"
  /\ UNCHANGED <<width, raw, resolution, remainder, quotient, i>>

(* A torus value that is no Dial's, or one that has been read. *)
Done == (pc = "noisy" \/ (pc = "encoded" /\ ~IsDial)) /\ UNCHANGED vars

Next == Divide \/ Encode \/ Disturb \/ Done

Spec == Init /\ [][Next]_vars

-----------------------------------------------------------------------------
(* index() of the value x.                                                 *)

ShiftIndex(x) ==
  LET drop == qbit - k
  IN  (((x + pow2[drop - 1]) % Words) \div pow2[drop]) % pow2[k]

(* Mutant: no rounding half. *)
ProductIndexDown(x) == ((x * resolution) \div Q) % resolution

ProductIndex(x) ==
  (((x * resolution + pow2[qbit - 1]) % DoubleWords) \div Q) % resolution

(* Mutant: the carry of the rounding half into the high word is lost. *)
HalvesIndexNoCarry(x) ==
  LET a == (x \div pow2[half]) * resolution
      b == (x % pow2[half]) * resolution
      a_lo == (a * pow2[half]) % DoubleWords
      low == (a_lo + b) % DoubleWords
      hi == (a \div pow2[half]) + (IF low < a_lo THEN 1 ELSE 0)
      low_rounded == (low + pow2[qbit - 1]) % DoubleWords
      idx == IF qbit = 2 * half THEN hi
             ELSE (low_rounded \div Q) + ((hi * pow2[2 * half - qbit]) % DoubleWords)
  IN  idx % resolution

HalvesIndex(x) ==
  LET a == (x \div pow2[half]) * resolution
      b == (x % pow2[half]) * resolution
      a_lo == (a * pow2[half]) % DoubleWords
      low == (a_lo + b) % DoubleWords
      carry == IF low < a_lo THEN 1 ELSE 0
      low_rounded == (low + pow2[qbit - 1]) % DoubleWords
      carry_rounded == IF low_rounded < low THEN 1 ELSE 0
      hi == (a \div pow2[half]) + carry + carry_rounded
      idx == IF qbit = 2 * half THEN hi
             ELSE (low_rounded \div Q) + ((hi * pow2[2 * half - qbit]) % DoubleWords)
  IN  idx % resolution

index(x) ==
  CASE is_power_of_two -> ShiftIndex(x)
    [] ~is_power_of_two /\ qbit <= half -> ProductIndex(x)
    [] ~is_power_of_two /\ qbit > half -> HalvesIndex(x)

(* Half a slot: Torus(1, 2 * Resolution), the product in 32 bits. *)
margin == Q \div ((2 * resolution) % pow2[half])

-----------------------------------------------------------------------------

(* The division's loop: nothing is lost when a doubling leaves the word,   *)
(* whatever the divisor, and the quotient is the floor it is documented to *)
(* be.                                                                     *)
DivisionIsExact ==
  /\ pc = "divide" =>
       /\ remainder \in 0..(resolution - 1)
       /\ quotient * resolution + remainder = (raw % resolution) * pow2[i]
  /\ pc = "encoded" => value = ((raw % resolution) * Q) \div resolution

(* Whichever branch computes it, index() is the slot nearest to the value, *)
(* halves up, in arithmetic no word limits.                                *)
IndexIsNearestSlot ==
  pc = "noisy" => index(value) = ((2 * value * resolution + Q) \div (2 * Q)) % resolution

(* margin()'s own 2 * Resolution, in 32 bits, is what it says: false from  *)
(* 2^31 slots on.                                                          *)
HasMargin == 2 * resolution < pow2[half]

(* Noise below the margin never changes the slot read back, although the   *)
(* slot's own value was rounded down.                                      *)
SurvivesNoiseBelowMargin ==
  pc = "noisy" /\ HasMargin /\ noise \in (1 - margin)..(margin - 1) => index(value) = raw
=============================================================================
