-------------------------------- MODULE Digits --------------------------------
(***************************************************************************)
(* The digits of torus values: balanced ones of a gadget decomposition     *)
(* (src/include/tfhe/structure/gadget/gadget_repr.hpp), unsigned ones of a *)
(* key switch (.../operation/leveled/key_switch.hpp).                      *)
(*                                                                         *)
(* d is a decomposition: d.len digits of d.bits bits each, of a torus of   *)
(* d.qbit bits.  Shifts are done in the torus's word, of Limit values; a   *)
(* digit is a UInt, whose word may be the narrower of the two.             *)
(***************************************************************************)
EXTENDS Words, Powers

CONSTANT
  UIntLimit   (* the number of values of a UInt: 2^32 or 2^64              *)

ASSUME DigitsAssumption == UIntLimit \in Nat \ {0} /\ UIntLimit <= Limit

(* The index of a digit in the code's loops: the most significant is 0. *)
Places(d) == 0..(d.len - 1)

FitsTorus(d) ==
  /\ d.len \in Nat \ {0} /\ d.bits \in Nat \ {0} /\ d.qbit \in Nat
  /\ d.bits * d.len <= d.qbit

(* B is a UInt, and a power of two as a UInt's number of values is. *)
FitsUInt(d) == \E m \in 1..UIntLimit : UIntLimit = m * pow2[d.bits]

BaseOf(d) == pow2[d.bits]

Shift(d, j) == d.qbit - d.bits * (j + 1)

(* Half of what the last digit leaves out. *)
Round(d) ==
  IF d.qbit > d.bits * d.len THEN pow2[d.qbit - d.bits * d.len - 1] ELSE 0

(* Digits side by side: each shifted to its place.  Where the code ORs     *)
(* them they do not overlap.                                               *)
SideBySide(d, digit) == Sum([j \in Places(d) |-> digit[j] * pow2[Shift(d, j)]], d.len)

Offset(d) == Wrap(SideBySide(d, [j \in Places(d) |-> BaseOf(d) \div 2]))

-----------------------------------------------------------------------------

(* Mutant: the last digit is cut off instead of rounded. *)
balanced_decomposeCut(d, v, j) ==
  (((Wrap(v + Offset(d)) \div pow2[Shift(d, j)]) % BaseOf(d)) - BaseOf(d) \div 2) % UIntLimit

(* balanced::decompose.  A negative digit is a UInt near the top. *)
balanced_decompose(d, v, j) ==
  LET w == Wrap(v + Offset(d) + Round(d))
      digit == (w \div pow2[Shift(d, j)]) % BaseOf(d)
  IN  (digit - BaseOf(d) \div 2) % UIntLimit

(* balanced::reconstruct *)
balanced_reconstruct(d, digit) ==
  LET unsigned == [j \in Places(d) |-> (digit[j] + BaseOf(d) \div 2) % BaseOf(d)]
  IN  ModTorus(pow2[d.qbit], Wrap(SideBySide(d, unsigned) - Offset(d)))

(* classical::decompose *)
classical_decompose(d, v, j) == (v \div pow2[Shift(d, j)]) % BaseOf(d)

(* KeySwitch's decompose *)
switch_decompose(d, v, j) ==
  (Wrap(v + Round(d)) \div pow2[Shift(d, j)]) % BaseOf(d)

(* classical::reconstruct, and KeySwitch's *)
unsigned_reconstruct(d, digit) == ModTorus(pow2[d.qbit], Wrap(SideBySide(d, digit)))

-----------------------------------------------------------------------------

(* A UInt as the signed number it stands for. *)
Signed(u) == IF 2 * u >= UIntLimit THEN u - UIntLimit ELSE u

(* What the digits, as numbers, add up to. *)
Recomposed(d, digit) == SideBySide(d, [j \in Places(d) |-> Signed(digit[j])])

DigitsOf(d, dec(_, _, _), v) == [j \in Places(d) |-> dec(d, v, j)]

(* x and y are at most bound apart on the circle of q. *)
Near(q, x, y, bound) == (x - y) % q <= bound \/ (y - x) % q <= bound

(* Digits of every kind stand for the torus value v up to half of what the *)
(* last digit leaves out, and classical ones, which are cut off, up to all *)
(* of it; balanced digits stay within half a base; and putting the digits  *)
(* together again loses no more.                                           *)
StandFor(d, v, balanced, switched, classical) ==
  LET q == pow2[d.qbit]
      cut == unsigned_reconstruct(d, classical)
  IN  /\ \A j \in Places(d) :
           Signed(balanced[j]) \in -(BaseOf(d) \div 2)..(BaseOf(d) \div 2 - 1)
      /\ Near(q, Recomposed(d, balanced), v, Round(d))
      /\ Near(q, balanced_reconstruct(d, balanced), v, Round(d))
      /\ Near(q, unsigned_reconstruct(d, switched), v, Round(d))
      /\ cut <= v /\ v - cut < pow2[d.qbit - d.bits * d.len]
=============================================================================
