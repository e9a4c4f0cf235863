-------------------------------- MODULE Gates --------------------------------
(***************************************************************************)
(* The homomorphic gates of src/include/tfhe/gate and the bootstrap and    *)
(* key switch they are made of, seen through the phase of a ciphertext:    *)
(* the message it carries plus its noise, which is what decryption finds   *)
(* and what the decision of a bootstrap depends on.                        *)
(*                                                                         *)
(* The torus is cut in 8 * U units and a phase is an integer number of     *)
(* units, not reduced: the decisions (GateBootstrap's and Dial's) look at  *)
(* it modulo a full turn.  What a ciphertext operation adds to the phase   *)
(* beyond its exact effect is any value up to a bound, one constant per    *)
(* source of noise.                                                        *)
(***************************************************************************)
EXTENDS Integers

CONSTANTS
  U,        (* one eighth of the torus, the offset of the gates            *)
  Fresh,    (* encryption: |noise| of a fresh ciphertext                   *)
  Drift,    (* bootstrap: what mod_switch's rounding moves the phase by    *)
  Boot,     (* bootstrap: noise of its result                              *)
  Switch    (* key switch: noise it adds                                   *)

ASSUME GatesAssumption ==
  /\ U \in Nat \ {0}
  /\ Fresh \in Nat
  /\ Drift \in Nat
  /\ Boot \in Nat
  /\ Switch \in Nat

Turn == 8 * U
Eighth == U
Quarter == 2 * U

Noise(bound) == (-bound)..bound

(* The noise a ciphertext that may enter a gate can carry: it was encrypted, *)
(* or bootstrapped and key switched.                                         *)
LweNoise == IF Fresh > Boot + Switch THEN Fresh ELSE Boot + Switch

-----------------------------------------------------------------------------
(* HomAnd, HomAndNot, HomOr, HomXor: the linear part, on operands that     *)
(* carry 0 or 1/4.                                                         *)

HomGate == {"and", "andnot", "or", "xor"}

HomAnd(p, q) == p + q - Eighth
HomAndNot(p, q) == p - q + Eighth
HomOr(p, q) == p + q + Eighth

(* Mutant: the operands are added once. *)
HomXorOnce(p, q) == p + q

HomXor(p, q) == 2 * (p + q)

Linear(g, p, q) ==
  CASE g = "and"    -> HomAnd(p, q)
    [] g = "andnot" -> HomAndNot(p, q)
    [] g = "or"     -> HomOr(p, q)
    [] g = "xor"    -> HomXor(p, q)

(* GateBootstrap: the blind rotation leaves the test vector's +mu/2 as its *)
(* constant coefficient when the mod-switched phase is in the half circle  *)
(* from 1/4 to 3/4, -mu/2 elsewhere, and the offset mu/2 makes it mu or 0. *)
Turns == -3..3

InFarHalf(p) ==
  \E k \in Turns : Quarter <= p + k * Turn /\ p + k * Turn < 3 * Quarter

GateBootstrap(mu, p) ==
  {(IF InFarHalf(p + d) THEN mu ELSE 0) + e : d \in Noise(Drift), e \in Noise(Boot)}

KeySwitch(p) == {p + e : e \in Noise(Switch)}

(* The margin the gates live on: two operands' noise and the drift of the  *)
(* mod switch stay within the eighth of a turn that separates a sum from   *)
(* the decision boundary.  A parameter set has to meet it.                 *)
GateBudget == 2 * LweNoise + Drift < Eighth

(* What the gates are for. *)
Truth(g, a, b) ==
  CASE g = "and"    -> IF a = 1 /\ b = 1 THEN 1 ELSE 0
    [] g = "andnot" -> IF a = 1 /\ b = 0 THEN 1 ELSE 0
    [] g = "or"     -> IF a = 1 \/ b = 1 THEN 1 ELSE 0
    [] g = "xor"    -> IF a # b THEN 1 ELSE 0

-----------------------------------------------------------------------------
(* Dial<Resolution>: slot v is at v/Resolution; index() rounds to the      *)
(* nearest slot, a phase half-way between two going to the upper one.      *)

Slot(resolution, v) == (Turn * v) \div resolution

Reads(resolution, p, v) ==
  \E k \in Turns :
    LET d == 2 * resolution * (p + k * Turn) - 2 * v * Turn
    IN  -Turn <= d /\ d < Turn
=============================================================================
