---------------------------- MODULE BlindRotation ----------------------------
(***************************************************************************)
(* GateBootstrap (src/include/tfhe/operation/bootstrap) round by round, in *)
(* the exact integer arithmetic of a small torus: the coefficients of a    *)
(* ciphertext are switched to the modulus 2N, the test vector is rotated   *)
(* by them under the CMuxes of the bootstrap key's secret bits, and the    *)
(* constant coefficient is extracted.                                      *)
(*                                                                         *)
(* The accumulator is its phase, a polynomial: every operation on it is    *)
(* linear but the external product, which multiplies by the secret bit of  *)
(* its key entry up to noise, an error polynomial.                         *)
(***************************************************************************)
EXTENDS Integers, Powers

CONSTANTS
  qbit,     (* bits of a Torus                                             *)
  N,        (* the ring's dimension                                        *)
  n,        (* the ciphertext's dimension                                  *)
  Mask,     (* bound: the values of the input's a coefficients             *)
  Mu,       (* what the bootstrap may be asked to decide for               *)
  Error,    (* the error polynomials an external product may add           *)
  Err       (* bound on their coefficients                                 *)

Q == pow2[qbit]
M == 2 * N
Coefficients == 0..(N - 1)

ASSUME BlindRotationAssumption ==
  /\ qbit \in Nat /\ N \in Nat /\ n \in Nat /\ Err \in Nat
  /\ \E j \in 1..qbit : N = pow2[j]
  /\ 2 * M <= Q
  /\ Mask \subseteq 0..(Q - 1)
  /\ Mu \subseteq 0..(Q - 1)
  /\ \A e \in Error : \A j \in Coefficients : e[j] \in -Err..Err

VARIABLES
  secret,   (* i -> the bit of the secret key bk[i] encrypts               *)
  a, b,     (* the input TLWE                                              *)
  mu,
  amount,   (* i -> a[i] at modulus M                                      *)
  cand0,    (* the accumulator's phase                                     *)
  i,        (* the loop of BlindRotate                                     *)
  pc,       (* "start" | "rotate" | "done"                                 *)
  out       (* the phase of the result                                     *)

vars == <<secret, a, b, mu, amount, cand0, i, pc, out>>

Dim == 0..(n - 1)

(* The sum of x[j] * secret[j] over j < m. *)
Dot(x, m) ==
  LET sum[j \in 0..n] == IF j = 0 THEN 0 ELSE sum[j - 1] + x[j - 1] * secret[j - 1]
  IN  sum[m]

(* What decrypt computes of a TLWE. *)
Phase == (b - Dot(a, n)) % Q

-----------------------------------------------------------------------------

drop == qbit - (CHOOSE j \in 1..qbit : M = pow2[j])
half == pow2[drop - 1]

(* Mutant: the low bits are dropped without rounding. *)
mod_switchDown(raw) == (raw \div pow2[drop]) % M

mod_switch(raw) == ((raw + half) \div pow2[drop]) % M

(* -c in the coefficients below N/2, c above. *)
generate(c) == [j \in Coefficients |-> IF j >= N \div 2 THEN c ELSE (-c) % Q]

(* Mutant: cyclic instead of negacyclic. *)
rotateCyclic(p, m) == [j \in Coefficients |-> p[(j - m) % N]]

(* p times X^m, X^N = -1. *)
rotate(p, m) ==
  LET by == m % M
      source(j) == (j + M - by) % N
      neg(j) == ((source(j) + by) \div N) % 2 = 1
  IN  [j \in Coefficients |-> IF neg(j) THEN (-p[source(j)]) % Q ELSE p[source(j)]]

(* cand0 + s * (cand1 - cand0), the product with the error e. *)
CMux(s, p0, p1, e) ==
  [j \in Coefficients |-> (s * (p1[j] - p0[j]) + e[j] + p0[j]) % Q]

-----------------------------------------------------------------------------

Init ==
  /\ secret \in [Dim -> {0, 1}]
  /\ a \in [Dim -> Mask]
  /\ b \in 0..(Q - 1)
  /\ mu \in Mu
  /\ amount = [j \in Dim |-> 0]
  /\ cand0 = [j \in Coefficients |-> 0]
  /\ i = 0
  /\ pc = "start"
  /\ out = 0

(* The mod switches, and the test vector rotated back by b. *)
Start ==
  /\ pc = "start"
  /\ amount' = [j \in Dim |-> mod_switch(a[j])]
  /\ cand0' = rotate(generate(mu \div 2), -mod_switch(b))
  /\ pc' = "rotate"
  /\ UNCHANGED <<secret, a, b, mu, i, out>>

Round ==
  /\ pc = "rotate"
  /\ i < n
  /\ \E e \in Error :
       cand0' = CMux(secret[i], cand0, rotate(cand0, amount[i]), e)
  /\ i' = i + 1
  /\ UNCHANGED <<secret, a, b, mu, amount, pc, out>>

(* SampleExtract of the constant coefficient, and the offset mu/2. *)
Extract ==
  /\ pc = "rotate"
  /\ i = n
  /\ out' = (mu \div 2 + cand0[0]) % Q
  /\ pc' = "done"
  /\ UNCHANGED <<secret, a, b, mu, amount, cand0, i>>

Done == pc = "done" /\ UNCHANGED vars

Next == Start \/ Round \/ Extract \/ Done

Spec == Init /\ [][Next]_vars

-----------------------------------------------------------------------------

Near(x, y, bound) == \E d \in -bound..bound : (x - y - d) % Q = 0

(* The loop's invariant: after i rounds the accumulator is the test vector *)
(* turned back by b - a[0]s[0] - ... - a[i-1]s[i-1] at modulus 2N, in      *)
(* every coefficient, and each round has added one error at most; the sign *)
(* changes of the negacyclic wrap are all accounted for.                   *)
Turned == mod_switch(b) - Dot(amount, i)

AccumulatorIsTurnedTestVector ==
  pc # "start" =>
    \A j \in Coefficients :
      LET far == (j + Turned) % M \in (N \div 2)..(3 * (N \div 2) - 1)
      IN  Near(cand0[j], IF far THEN mu \div 2 ELSE -(mu \div 2), i * Err)

(* The bootstrap is Gates' GateBootstrap: it decides for mu when the phase *)
(* is in the far half of the circle, up to the roundings of the n + 1 mod  *)
(* switches, and the noise of the input does not reach the output.  (One   *)
(* unit of the output's noise is the bit an odd mu loses in its halving.)  *)
Promise ==
  INSTANCE BootstrapPromise
    WITH U <- Q \div 8, Fresh <- 0, Drift <- (n + 1) * half,
         Boot <- n * Err + 1, Switch <- 0,
         input <- [mu |-> mu, phase |-> Phase],
         done <- pc = "done", output <- out

DecidesAsGatesNeed == Promise!Spec
=============================================================================
