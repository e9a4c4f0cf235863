----------------------------- MODULE Evaluation -----------------------------
(***************************************************************************)
(* A program that computes on Ciphers: it lifts values through a Boundary, *)
(* applies gates and Reslots in any order and to any depth, materializes   *)
(* results when it likes, and drops them.  A wire is a Cipher variable of  *)
(* the program (src/include/tfhe/cipher/cipher.hpp) with the value it is   *)
(* meant to carry; nothing in the code records that value or its           *)
(* resolution, which the programmer has to keep track of.                  *)
(***************************************************************************)
EXTENDS Gates

CONSTANTS
  Wire,         (* the Cipher variables                                    *)
  Resolution    (* the Dial resolutions the program uses                   *)

ASSUME EvaluationAssumption ==
  /\ Resolution \subseteq Nat \ {0, 1}
  /\ \A r \in Resolution : r % 2 = 0 /\ Turn % r = 0
  /\ 4 \in Resolution

VARIABLES
  shape,    (* wire -> "none" | "lwe" | "rlwe": Cipher's variant            *)
  phase,    (* wire -> the phase of the ciphertext                          *)
  res,      (* wire -> the resolution it is encoded in (ghost)              *)
  value     (* wire -> the slot it is meant to name (ghost)                 *)

vars == <<shape, phase, res, value>>

Init ==
  /\ shape = [w \in Wire |-> "none"]
  /\ phase = [w \in Wire |-> 0]
  /\ res = [w \in Wire |-> 4]
  /\ value = [w \in Wire |-> 0]

is_ready(w) == shape[w] = "lwe"

(* The wire becomes a Cipher of the given shape, whatever it was before. *)
Assign(w, s, p, r, v) ==
  /\ shape' = [shape EXCEPT ![w] = s]
  /\ phase' = [phase EXCEPT ![w] = p]
  /\ res' = [res EXCEPT ![w] = r]
  /\ value' = [value EXCEPT ![w] = v]

(* Mutant: Dial takes any index. *)
LiftUnchecked(w, r, v) ==
  \E e \in Noise(Fresh) : Assign(w, "lwe", Slot(r, v) + e, r, v)

(* Boundary::lift<r>(v): Dial encode, which asserts v < r, and encrypt. *)
Lift(w, r, v) ==
  /\ v < r
  /\ \E e \in Noise(Fresh) : Assign(w, "lwe", Slot(r, v) + e, r, v)

(* The operands of a gate carry booleans at resolution 4 and are ready:    *)
(* on a pending Cipher ready() throws bad_variant_access instead.          *)
GateReady(w) == is_ready(w) /\ res[w] = 4 /\ value[w] \in {0, 1}

HomOp(g, a, b, dst) ==
  /\ GateReady(a)
  /\ GateReady(b)
  /\ \E p \in GateBootstrap(Quarter, Linear(g, phase[a], phase[b])) :
       Assign(dst, "rlwe", p, 4, Truth(g, value[a], value[b]))

(* The exec_impl overloads that take a KeySwitchKey: the result is already *)
(* Lwe-shaped.  HomOr and HomXor have none.                                *)
HomOpFused(g, a, b, dst) ==
  /\ g \in {"and", "andnot"}
  /\ GateReady(a)
  /\ GateReady(b)
  /\ \E p \in GateBootstrap(Quarter, Linear(g, phase[a], phase[b])) :
       \E q \in KeySwitch(p) :
         Assign(dst, "lwe", q, 4, Truth(g, value[a], value[b]))

(* Mutant: no early return. *)
MaterializeAlways(w) ==
  /\ shape[w] # "none"
  /\ \E p \in KeySwitch(phase[w]) : phase' = [phase EXCEPT ![w] = p]
  /\ shape' = [shape EXCEPT ![w] = "lwe"]
  /\ UNCHANGED <<res, value>>

(* Cipher::materialize: a no-op on a ready Cipher. *)
Materialize(w) ==
  /\ shape[w] # "none"
  /\ IF is_ready(w) THEN UNCHANGED phase
     ELSE \E p \in KeySwitch(phase[w]) : phase' = [phase EXCEPT ![w] = p]
  /\ shape' = [shape EXCEPT ![w] = "lwe"]
  /\ UNCHANGED <<res, value>>

(* Reslot<In, Out>: In/2 copies added up put slot 1 on 1/2, and the        *)
(* bootstrap answers with 1/Out.                                           *)
ReslotReady(w, in) == is_ready(w) /\ res[w] = in /\ value[w] \in {0, 1}

Reslotted(p, in, out) == GateBootstrap(Slot(out, 1), (in \div 2) * p)

Reslot(a, in, out, dst) ==
  /\ ReslotReady(a, in)
  /\ \E p \in Reslotted(phase[a], in, out) : Assign(dst, "rlwe", p, out, value[a])

ReslotFused(a, in, out, dst) ==
  /\ ReslotReady(a, in)
  /\ \E p \in Reslotted(phase[a], in, out) :
       \E q \in KeySwitch(p) : Assign(dst, "lwe", q, out, value[a])

Next ==
  \E w \in Wire :
    \/ \E r \in Resolution : \E v \in 0..r : Lift(w, r, v)
    \/ Materialize(w)
    \/ \E g \in HomGate, a, b \in Wire : HomOp(g, a, b, w) \/ HomOpFused(g, a, b, w)
    \/ \E a \in Wire, in, out \in Resolution :
         Reslot(a, in, out, w) \/ ReslotFused(a, in, out, w)

Spec == Init /\ [][Next]_vars

-----------------------------------------------------------------------------

TypeOK ==
  /\ shape \in [Wire -> {"none", "lwe", "rlwe"}]
  /\ phase \in [Wire -> Int]
  /\ res \in [Wire -> Resolution]
  /\ value \in [Wire -> Nat]
  /\ \A w \in Wire : value[w] < res[w]

(* Boundary::drop<r>(w) reads the intended value off any wire at any time, *)
(* in either shape, whatever gates it went through (cipher.hpp l.16-23,    *)
(* boundary.hpp l.93-115).                                                 *)
EveryWireDrops ==
  \A w \in Wire : shape[w] # "none" => Reads(res[w], phase[w], value[w])

(* Depth costs nothing: a wire's noise is bounded by its shape alone, so   *)
(* the next gate always has its margin.  materialize() must not switch     *)
(* twice, and no gate may pass its operands' noise on.                     *)
NoiseOf(s) == IF s = "lwe" THEN LweNoise ELSE Boot

NoiseStaysBounded ==
  \A w \in Wire : shape[w] # "none" =>
    phase[w] - Slot(res[w], value[w]) \in Noise(NoiseOf(shape[w]))

(* What a program may ask of a resolution, given the noise: half a slot    *)
(* more than the noise for Dial, and for Reslot a quarter of a turn more   *)
(* than the noise of r/2 copies.  The assumption, with GateBudget, of the  *)
(* theorems in EvaluationProofs.                                           *)
ResolutionBudget(r) ==
  /\ 2 * (r * LweNoise) < Turn
  /\ (r \div 2) * LweNoise + Drift < Quarter
=============================================================================
