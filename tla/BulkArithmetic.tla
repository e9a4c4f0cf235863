---------------------------- MODULE BulkArithmetic ----------------------------
(***************************************************************************)
(* operator+= and -= of a Poly or a Vector: simd_ops over the whole buffer *)
(* (src/include/algebra/detail/simd_ops.hpp).  A hardware lane takes width *)
(* elements at a time with formulas of its own; what it does not cover is  *)
(* left to the element type's operators, one element at a time.  (Init,    *)
(* Next, Spec and vars carry the module's name, as its proofs stand beside *)
(* BootstrapRound's.)                                                      *)
(***************************************************************************)
EXTENDS Words

CONSTANTS
  Size,      (* elements of the buffers                                    *)
  width,     (* elements of a lane                                         *)
  Element,   (* element types: [type |-> "UInt" | "ModInt" | "ModTorus",   *)
             (* mod |-> P or Q]                                            *)
  Input      (* bound: the raw values buffers start with                   *)

ASSUME BulkAssumption ==
  /\ Size \in Nat /\ width \in Nat \ {0}
  /\ Input \subseteq Word
  /\ \A e \in Element :
       \/ e.type = "UInt"
       \/ e.type = "ModInt" /\ AddAsserted(e.mod)
       \/ e.type = "ModTorus" /\ FitsWord(e.mod)

VARIABLES
  elem,      (* the element type                                           *)
  op,        (* "add" | "sub"                                              *)
  alias,     (* p += p: both buffers are one                               *)
  hardware,  (* built with a hardware lane for this Word                   *)
  into, src, (* dst and src: index -> raw value                            *)
  left,      (* what dst held at the call (history)                        *)
  done,      (* i: the elements done                                       *)
  loop       (* "run" | "done" | "threw"                                   *)

bulkVars == <<elem, op, alias, hardware, into, src, left, done, loop>>

Index == 0..(Size - 1)

(* Any raw values: a buffer filled from a range, or taken over by          *)
(* interpret_as, is not reduced.                                           *)
BulkInit ==
  /\ elem \in Element
  /\ op \in {"add", "sub"}
  /\ alias \in BOOLEAN
  /\ hardware \in BOOLEAN
  /\ into \in [Index -> Input]
  /\ src \in [Index -> Input]
  /\ alias => src = into
  /\ left = into
  /\ done = 0
  /\ loop = "run"

(* What is read from the right operand's buffer. *)
Right(j) == IF alias THEN into[j] ELSE src[j]

-----------------------------------------------------------------------------

(* T(into[j]) += T(src[j]) of the element's own operator. *)
Scalar(x, y) ==
  CASE elem.type = "UInt" -> IF op = "add" THEN x + y ELSE x - y
    [] elem.type = "ModInt" ->
         LET u == ModInt(elem.mod, x)  v == ModInt(elem.mod, y)
         IN  IF op = "add" THEN ModIntAdd(elem.mod, u, v) ELSE ModIntSub(elem.mod, u, v)
    [] elem.type = "ModTorus" ->
         LET u == ModTorus(elem.mod, x)  v == ModTorus(elem.mod, y)
         IN  IF op = "add" THEN ModTorusAdd(elem.mod, u, v) ELSE ModTorusSub(elem.mod, u, v)

Throws(x, y) ==
  elem.type = "UInt" /\ IF op = "add" THEN UIntOverflows(x, y) ELSE UIntUnderflows(x, y)

(* One element of a lane: the raw values, unreduced. *)
Lane(x, y) ==
  IF elem.type = "ModInt"
  THEN IF op = "add"
       THEN LET sum == Wrap(x + y)
            IN  Wrap(sum - (IF sum >= elem.mod THEN elem.mod ELSE 0))
       ELSE Wrap(Wrap(x - y) + (IF x < y THEN elem.mod ELSE 0))
  ELSE Wrap(IF op = "add" THEN x + y ELSE x - y) % elem.mod

HasLane == hardware /\ elem.type # "UInt"

(* Mutant: one element more than fits. *)
LaneFitsLoosely == done + width <= Size + 1

LaneFits == done + width <= Size

-----------------------------------------------------------------------------

(* add_lanes, sub_lanes: a group is loaded, computed and stored. *)
LaneStep ==
  /\ loop = "run"
  /\ HasLane /\ LaneFits
  /\ into' = [j \in Index |-> IF j \in done..(done + width - 1) THEN Lane(into[j], Right(j)) ELSE into[j]]
  /\ done' = done + width
  /\ UNCHANGED <<elem, op, alias, hardware, src, left, loop>>

NoLane == ~(HasLane /\ LaneFits)

(* The loop after the lanes. *)
ScalarStep ==
  /\ loop = "run"
  /\ NoLane
  /\ done < Size
  /\ ~Throws(into[done], Right(done))
  /\ into' = [into EXCEPT ![done] = Scalar(into[done], Right(done))]
  /\ done' = done + 1
  /\ UNCHANGED <<elem, op, alias, hardware, src, left, loop>>

(* UInt's operator throws: the elements before it have been written. *)
Throw ==
  /\ loop = "run"
  /\ done < Size
  /\ Throws(into[done], Right(done))
  /\ loop' = "threw"
  /\ UNCHANGED <<elem, op, alias, hardware, into, src, left, done>>

Return ==
  /\ loop = "run"
  /\ NoLane
  /\ done >= Size
  /\ loop' = "done"
  /\ UNCHANGED <<elem, op, alias, hardware, into, src, left, done>>

Returned == loop # "run" /\ UNCHANGED bulkVars

BulkNext == LaneStep \/ ScalarStep \/ Throw \/ Return \/ Returned

BulkSpec == BulkInit /\ [][BulkNext]_bulkVars

-----------------------------------------------------------------------------

OldRight(j) == IF alias THEN left[j] ELSE src[j]

(* The sum or difference the type stands for. *)
Exact(x, y) ==
  LET r == IF op = "add" THEN x + y ELSE x - y
  IN  CASE elem.type = "UInt" -> r
        [] elem.type = "ModInt" -> r % (IF elem.mod = 0 THEN Limit ELSE elem.mod)
        [] elem.type = "ModTorus" -> r % elem.mod

FitsLane(x) == elem.type = "ModInt" /\ elem.mod # 0 => x < elem.mod

(* The elements that whole lanes cover. *)
InLane(j) == HasLane /\ j < width * (Size \div width)

(* Lanes, tail, aliased buffers and a throw half-way all leave the same    *)
(* picture: the elements done hold the exact result, which fits a word,    *)
(* the others what they held, and only a call that threw leaves any out.   *)
(* Of the raw values a buffer may hold, only those that a ModInt lane      *)
(* takes need to be reduced: the lane relies on it, the tail's operators   *)
(* and the torus's lane reduce.                                            *)
ExactSoFar ==
  /\ done \in 0..Size
  /\ into \in [Index -> Word]
  /\ \A j \in Index :
       IF j < done
       THEN (InLane(j) => FitsLane(left[j]) /\ FitsLane(OldRight(j)))
              => into[j] = Exact(left[j], OldRight(j))
       ELSE into[j] = left[j]
  /\ loop = "done" => done = Size
=============================================================================
