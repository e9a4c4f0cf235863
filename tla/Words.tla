-------------------------------- MODULE Words --------------------------------
(***************************************************************************)
(* The element types of src/include/primitive over a machine word: UInt,   *)
(* ModInt<P> and ModTorus<QBit>.  A word is a number below Limit and every *)
(* operation on it wraps; what each type does around the wrap is its code. *)
(***************************************************************************)
EXTENDS Integers

CONSTANT
  Limit     (* the number of values of a Word: 2^32 or 2^64                *)

ASSUME WordsAssumption == Limit \in Nat \ {0}

Word == 0..(Limit - 1)

Wrap(x) == x % Limit

-----------------------------------------------------------------------------
(* UInt does not wrap: it throws.                                          *)

UIntOverflows(x, y) == x > Limit - 1 - y

UIntUnderflows(x, y) == x < y

-----------------------------------------------------------------------------
(* ModInt<P>; P = 0 wraps at the word's own width.                         *)

ModInt(P, raw) == IF P = 0 THEN raw ELSE raw % P

ModIntAdd(P, x, y) ==
  LET sum == Wrap(x + y)
  IN  IF P # 0 /\ sum >= P THEN Wrap(sum - P) ELSE sum

ModIntSub(P, x, y) ==
  IF P # 0 /\ x < y THEN Wrap(Wrap(x - y) + P) ELSE Wrap(x - y)

(* A P that leaves room for the sum of two values... *)
Addable(P) == P \in Word /\ 2 * P <= Limit

(* ...and one that the assertion in operator+= lets through: max() << 1. *)
AddAsserted(P) == P \in Word /\ P <= Wrap(2 * (Limit - 1))

-----------------------------------------------------------------------------
(* ModTorus<QBit>, Q = 2^QBit: powers of two, so a word is a number of     *)
(* whole turns.                                                            *)

FitsWord(Q) == Q \in Nat \ {0} /\ \E turns \in 1..Limit : Limit = turns * Q

ModTorus(Q, raw) == raw % Q

ModTorusAdd(Q, x, y) == Wrap(x + y) % Q

ModTorusSub(Q, x, y) == Wrap(x - y) % Q

(* A UInt times a torus value. *)
ModTorusScale(Q, u, x) == Wrap(u * x) % Q
=============================================================================
