------------------------- MODULE NoiseTrackingProofs -------------------------
(* The tracker's bounds hold, for every program, every allocator and every *)
(* parameter set.                                                          *)
EXTENDS NoiseTracking, TLAPS

LEMMA TimesMonotone ==
  ASSUME NEW a \in Nat, NEW x \in Nat, NEW y \in Nat, x <= y
  PROVE  a * x \in Nat /\ a * y \in Nat /\ a * x <= a * y
<1>1. PICK d \in Nat : y = x + d
  BY y - x \in Nat, y = x + (y - x)
<1>2. a * y = a * x + a * d /\ a * d \in Nat /\ a * x \in Nat
  BY <1>1
<1>3. QED
  BY <1>2

LEMMA FactorsNat ==
  ASSUME NEW w \in Factors
  PROVE  /\ w.fresh \in Nat /\ w.gain \in Nat /\ w.eps \in Nat
         /\ w.cmuxEps \in Nat /\ w.ksGain \in Nat /\ w.ksEps \in Nat
  BY DEF Factors

LEMMA ProductMonotone ==
  ASSUME NEW w \in Factors, NEW x \in Nat, NEW y \in Nat, x <= y
  PROVE  /\ Product(w, x) \in Nat /\ Product(w, y) \in Nat
         /\ Product(w, x) <= Product(w, y)
  BY FactorsNat, TimesMonotone DEF Product

LEMMA VarthetaMonotone ==
  ASSUME NEW w \in Factors, NEW x \in Nat, NEW y \in Nat, x <= y
  PROVE  /\ Vartheta(w, x) \in Nat /\ Vartheta(w, y) \in Nat
         /\ Vartheta(w, x) <= Vartheta(w, y)
  BY FactorsNat, TimesMonotone DEF Vartheta

(* What a policy makes of entries is an entry. *)
LEMMA PolicyNat ==
  ASSUME NEW op \in Op, NEW w \in Factors, NEW v,
         \A i \in DOMAIN Operands(op) : v[i] \in Nat
  PROVE  Policy(op, w, v) \in Nat
<1> USE NoiseTrackingAssumption DEF NoiseTrackingAssumption
<1>1. CASE op \in {"Add", "Sub"}
  BY <1>1 DEF Policy, Operands
<1>2. CASE op = "ExternalProduct"
  BY <1>2, ProductMonotone DEF Policy, Operands
<1>3. CASE op = "CMux"
  BY <1>3, VarthetaMonotone DEF Policy, Operands, Larger
<1>4. CASE op \in {"BlindRotate", "GateBootstrap"}
  <2>1. v[1] \in Nat
    BY <1>4 DEF Operands
  <2>2. QED
    BY <1>4, <2>1, VarthetaMonotone, TimesMonotone DEF Policy
<1>5. CASE op = "KeySwitch"
  <2>1. v[1] \in Nat /\ v[2] \in Nat
    BY <1>5 DEF Operands
  <2>2. QED
    BY <1>5, <2>1, FactorsNat, TimesMonotone DEF Policy
<1>6. QED
  BY <1>1, <1>2, <1>3, <1>4, <1>5 DEF Op

(* The worst-case policies are right: whatever an operation's digits and   *)
(* roundings do, the noise of its result is within what the policy makes   *)
(* of bounds that held of its operands.                                    *)
LEMMA PolicyCovers ==
  ASSUME NEW op \in Op, NEW e, NEW v,
         \A i \in DOMAIN Operands(op) : e[i] \in Int /\ v[i] \in Nat /\ Abs(e[i]) <= v[i],
         NEW r \in exec_impl(op, e)
  PROVE  r \in Int /\ Abs(r) <= Policy(op, Worst, v)
<1> USE NoiseTrackingAssumption DEF NoiseTrackingAssumption
<1>0. \A x \in Int : Abs(x) \in Nat
  BY DEF Abs
<1>1. CASE op \in {"Add", "Sub"}
  BY <1>1 DEF Policy, Operands, exec_impl, Abs
<1>2. CASE op \in {"ExternalProduct", "CMux"}
  <2>1. e[1] \in Int /\ v[1] \in Nat /\ Abs(e[1]) \in Nat /\ Abs(e[1]) <= v[1]
        /\ e[2] \in Int /\ v[2] \in Nat /\ Abs(e[2]) <= v[2]
    BY <1>2, <1>0 DEF Operands
  <2>2. op = "CMux" => e[3] \in Int /\ v[3] \in Nat /\ Abs(e[3]) <= v[3]
    BY DEF Operands
  <2>3. /\ Product(Worst, Abs(e[1])) \in Nat /\ Product(Worst, v[1]) \in Nat
        /\ Product(Worst, Abs(e[1])) <= Product(Worst, v[1])
    BY <2>1, ProductMonotone
  <2>7. /\ Vartheta(Worst, Abs(e[1])) \in Nat /\ Vartheta(Worst, v[1]) \in Nat
         /\ Vartheta(Worst, Abs(e[1])) <= Vartheta(Worst, v[1])
    BY <2>1, VarthetaMonotone
  <2>4. CASE op = "ExternalProduct"
    <3>1. PICK d \in Noise(Product(Worst, Abs(e[1]))), c \in {0, e[2]} : r = d + c
      BY <2>4 DEF exec_impl
    <3>2. Policy(op, Worst, v) = Product(Worst, v[1]) + v[2]
      BY <2>4 DEF Policy
    <3>3. QED
      BY <2>1, <2>3, <3>1, <3>2 DEF Noise, Abs
  <2>5. CASE op = "CMux"
    <3>1. PICK d \in Noise(Vartheta(Worst, Abs(e[1]))), c \in {e[2], e[3]} : r = d + c
      BY <2>5 DEF exec_impl
    <3>2. Policy(op, Worst, v) = Vartheta(Worst, v[1]) + Larger(v[2], v[3])
      BY <2>5 DEF Policy
    <3>3. c \in Int /\ Abs(c) <= Larger(v[2], v[3]) /\ Larger(v[2], v[3]) \in Nat
      BY <2>1, <2>2, <2>5, <3>1 DEF Abs, Larger
    <3>4. QED
      BY <2>7, <3>1, <3>2, <3>3 DEF Noise, Abs
  <2>6. QED
    BY <1>2, <2>4, <2>5
<1>3. CASE op \in {"BlindRotate", "GateBootstrap"}
  <2>1. e[1] \in Int /\ v[1] \in Nat /\ Abs(e[1]) \in Nat /\ Abs(e[1]) <= v[1]
    BY <1>3, <1>0 DEF Operands
  <2>2. /\ Vartheta(Worst, Abs(e[1])) \in Nat /\ Vartheta(Worst, v[1]) \in Nat
        /\ Vartheta(Worst, Abs(e[1])) <= Vartheta(Worst, v[1])
    BY <2>1, VarthetaMonotone
  <2> DEFINE x == n * Vartheta(Worst, Abs(e[1]))
             y == n * Vartheta(Worst, v[1])
  <2>3. x \in Nat /\ y \in Nat /\ x <= y
    BY <2>2, TimesMonotone
  <2>4. r \in Noise(x) /\ Policy(op, Worst, v) = y
    BY <1>3 DEF exec_impl, Policy
  <2>5. QED
    BY <2>3, <2>4 DEF Noise, Abs
<1>4. CASE op = "KeySwitch"
  <2>1. /\ e[1] \in Int /\ v[1] \in Nat /\ Abs(e[1]) \in Nat /\ Abs(e[1]) <= v[1]
        /\ e[2] \in Int /\ v[2] \in Nat /\ Abs(e[2]) <= v[2]
    BY <1>4, <1>0 DEF Operands
  <2> DEFINE x == Worst.ksGain * Abs(e[1])
             y == Worst.ksGain * v[1]
  <2>2. x \in Nat /\ y \in Nat /\ x <= y /\ Worst.ksEps \in Nat
    BY <2>1, TimesMonotone, FactorsNat
  <2>3. PICK d \in Noise(x + Worst.ksEps) : r = d + e[2]
    BY <1>4 DEF exec_impl
  <2>4. Policy(op, Worst, v) = v[2] + y + Worst.ksEps
    BY <1>4 DEF Policy
  <2>5. QED
    BY <2>1, <2>2, <2>3, <2>4 DEF Noise, Abs
<1>5. QED
  BY <1>1, <1>2, <1>3, <1>4 DEF Op

-----------------------------------------------------------------------------

(* A new object in a free buffer, registered with a bound that holds, or   *)
(* one of which nothing is claimed.                                        *)
LEMMA HoldKeepsInv ==
  ASSUME TrackingInv, NEW dst \in Place, NEW x \in Free, NEW k \in Ciphertext \cup Key,
         NEW e \in Int \cup {None}, Hold(dst, k, x, e),
         \/ e = None /\ UNCHANGED db_
         \/ \E bound, variance \in Nat :
              /\ update(k, x, bound, variance)
              /\ e # None => Abs(e) <= bound
  PROVE  TrackingInv'
<1> USE NoiseTrackingAssumption DEF NoiseTrackingAssumption
<1> USE DEF tracker_slot
<1>1. /\ kind' = [kind EXCEPT ![dst] = k]
      /\ buf' = [buf EXCEPT ![dst] = x]
      /\ err' = [err EXCEPT ![dst] = e]
  BY DEF Hold
<1>2. x \in Addr /\ x # None /\ k # None /\ \A p \in Place : buf[p] # x
  BY DEF Free
<1>3. TypeOK /\ OwnBuffers /\ TrackedBoundHolds
  BY DEF TrackingInv
<1>4. db_' \in [Role -> [Addr -> Nat \cup {None}]]
  <2>1. CASE UNCHANGED db_
    BY <2>1, <1>3 DEF TypeOK
  <2>2. CASE \E bound, variance \in Nat : update(k, x, bound, variance)
    BY <2>2, <1>2, <1>3 DEF TypeOK, update, RolesOf, Role
  <2>3. QED
    BY <2>1, <2>2
<1>5. TypeOK'
  BY <1>1, <1>2, <1>3, <1>4 DEF TypeOK
<1>6. OwnBuffers'
  BY <1>1, <1>2, <1>3 DEF TypeOK, OwnBuffers
<1>7. TrackedBoundHolds'
  <2> SUFFICES ASSUME NEW p \in Place, err'[p] # None
               PROVE  (Bound(p) # None /\ Abs(err[p]) <= Bound(p))'
    BY DEF TrackedBoundHolds
  <2>1. CASE p = dst
    <3>1. err'[p] = e /\ kind'[p] = k /\ buf'[p] = x
      BY <1>1, <1>3, <2>1 DEF TypeOK
    <3>2. PICK bound, variance \in Nat : update(k, x, bound, variance) /\ Abs(e) <= bound
      BY <3>1
    <3>3. Bound(p)' = bound
      BY <3>1, <3>2, <1>2, <1>3 DEF Bound, get, update, RolesOf, TypeOK, Role
    <3>4. QED
      BY <3>1, <3>2, <3>3
  <2>2. CASE p # dst
    <3>1. err'[p] = err[p] /\ kind'[p] = kind[p] /\ buf'[p] = buf[p]
      BY <1>1, <1>3, <2>2 DEF TypeOK
    <3>2. buf[p] \in Addr /\ buf[p] # x
      BY <1>2, <1>3, <3>1 DEF TypeOK, OwnBuffers
    <3>3. Bound(p)' = Bound(p)
      <4>1. CASE UNCHANGED db_
        BY <3>1, <4>1 DEF Bound, get, RolesOf
      <4>2. CASE \E bound, variance \in Nat : update(k, x, bound, variance)
        BY <3>1, <3>2, <4>2, <1>2, <1>3 DEF Bound, get, update, RolesOf, TypeOK, Role
      <4>3. QED
        BY <4>1, <4>2
    <3>4. QED
      BY <3>1, <3>3, <1>3 DEF TrackedBoundHolds
  <2>3. QED
    BY <2>1, <2>2
<1>8. QED
  BY <1>5, <1>6, <1>7 DEF TrackingInv

LEMMA OperandsTyped ==
  ASSUME TrackingInv, NEW op \in Op, NEW args \in [DOMAIN Operands(op) -> Place]
  PROVE  /\ DOMAIN args = DOMAIN Operands(op)
         /\ \A i \in DOMAIN args : args[i] \in Place
         /\ Result(op) \in Ciphertext
  BY DEF Result, Ciphertext

LEMMA TrackedKeepsInv ==
  ASSUME TrackingInv, NEW op \in Op, NEW args \in [DOMAIN Operands(op) -> Place],
         NEW dst \in Place, execTracked(op, args, dst)
  PROVE  TrackingInv'
<1> USE NoiseTrackingAssumption DEF NoiseTrackingAssumption
<1> DEFINE I == DOMAIN Operands(op)
           e == Apply(LAMBDA p : err[p], args)
           b == Apply(Bound, args)
           v == Apply(Variance, args)
<1>1. DOMAIN args = I /\ (\A i \in I : args[i] \in Place) /\ Result(op) \in Ciphertext
  BY OperandsTyped
<1>2. \A i \in I : e[i] = err[args[i]] /\ b[i] = Bound(args[i]) /\ v[i] = Variance(args[i])
  BY <1>1 DEF Apply
<1>3. \A i \in I : kind[args[i]] # None
  <2>1. \A i \in I : Operands(op)[i] \in Ciphertext \cup Key
    BY DEF Op, Operands, Ciphertext, Key
  <2>2. \A i \in I : kind[args[i]] = Operands(op)[i]
    BY <1>1 DEF execTracked, Typed, Apply
  <2>3. QED
    BY <2>1, <2>2
<1>4. \A i \in I : b[i] \in Nat /\ v[i] \in Nat
  <2>1. \A i \in I : Bound(args[i]) # None /\ Variance(args[i]) # None
    BY <1>1 DEF execTracked, Known
  <2>2. \A p \in Place : kind[p] # None =>
          Bound(p) \in Nat \cup {None} /\ Variance(p) \in Nat \cup {None}
    BY DEF TrackingInv, TypeOK, OwnBuffers, Bound, Variance, get, RolesOf, Role, tracker_slot
  <2>3. ASSUME NEW i \in I
        PROVE  b[i] \in Nat /\ v[i] \in Nat
    <3>1. b[i] = Bound(args[i]) /\ v[i] = Variance(args[i]) /\ args[i] \in Place
      BY <1>1, <1>2
    <3>2. Bound(args[i]) \in Nat /\ Variance(args[i]) \in Nat
      BY <1>1, <1>3, <2>1, <2>2
    <3> QED
      BY <3>1, <3>2
  <2>4. QED
    BY <2>3
<1>5. PICK x \in Free, r \in Errors(op, args) :
        /\ Hold(dst, Result(op), x, r)
        /\ update(Result(op), x, Policy(op, Worst, b), Policy(op, Average, v))
  BY DEF execTracked, NoisePolicy, VarianceNoisePolicy
<1>6. Policy(op, Worst, b) \in Nat /\ Policy(op, Average, v) \in Nat
  BY <1>4, PolicyNat
<1>7. CASE \E i \in I : err[args[i]] = None
  <2>1. r = None
    BY <1>1, <1>7 DEF Errors
  <2>2. QED
    BY <1>1, <1>5, <1>6, <2>1, HoldKeepsInv
<1>8. CASE \A i \in I : err[args[i]] # None
  <2>1. ASSUME NEW i \in I
        PROVE  e[i] \in Int /\ Abs(e[i]) <= b[i]
    <3>1. e[i] = err[args[i]] /\ b[i] = Bound(args[i])
      BY <1>2
    <3>2. err[args[i]] \in Int /\ Abs(err[args[i]]) <= Bound(args[i])
      BY <1>1, <1>8 DEF TrackingInv, TypeOK, TrackedBoundHolds
    <3> QED
      BY <3>1, <3>2
  <2>2. r \in exec_impl(op, e)
    BY <1>1, <1>8 DEF Errors
  <2>3. r \in Int /\ Abs(r) <= Policy(op, Worst, b)
    BY <1>4, <2>1, <2>2, PolicyCovers
  <2>4. QED
    BY <1>1, <1>5, <1>6, <2>3, HoldKeepsInv
<1>9. QED
  BY <1>7, <1>8

LEMMA NextKeepsInv ==
  ASSUME TrackingInv, [Next]_vars
  PROVE  TrackingInv'
<1> USE NoiseTrackingAssumption DEF NoiseTrackingAssumption
<1>1. CASE UNCHANGED vars
  BY <1>1 DEF vars, TrackingInv, TypeOK, OwnBuffers, TrackedBoundHolds, Bound, get, RolesOf
<1>2. ASSUME NEW dst \in Place, NEW k \in Type, NEW Tracking \in BOOLEAN, Make(dst, k, Tracking)
      PROVE  TrackingInv'
  <2>1. Worst.fresh \in Nat /\ Average.fresh \in Nat
    BY FactorsNat
  <2>2. PICK x \in Free :
          \/ Hold(dst, k, x, None) /\ UNCHANGED db_
          \/ /\ \E e \in Noise(Worst.fresh) : Hold(dst, k, x, e)
             /\ update(k, x, Worst.fresh, Average.fresh)
    BY <1>2 DEF Make
  <2>3. \A e \in Noise(Worst.fresh) : e \in Int /\ Abs(e) <= Worst.fresh
    BY <2>1 DEF Noise, Abs
  <2>4. k \in Ciphertext \cup Key
    OBVIOUS
  <2>5. QED
    BY <2>1, <2>2, <2>3, <2>4, HoldKeepsInv
<1>3. ASSUME NEW dst \in Place, NEW op \in Op,
             NEW args \in [DOMAIN Operands(op) -> Place], exec(op, args, dst)
      PROVE  TrackingInv'
  BY <1>3, OperandsTyped, HoldKeepsInv DEF exec
<1>4. ASSUME NEW src \in Place, NEW dst \in Place, Copy(src, dst)
      PROVE  TrackingInv'
  <2>1. kind[src] \in Ciphertext \cup Key
    BY <1>4 DEF Copy, TrackingInv, TypeOK
  <2>2. QED
    BY <1>4, <2>1, HoldKeepsInv DEF Copy
<1>5. ASSUME NEW src \in Place, NEW dst \in Place, Move(src, dst)
      PROVE  TrackingInv'
  <2>1. TypeOK'
    BY <1>5 DEF Move, TrackingInv, TypeOK
  <2>2. OwnBuffers'
    BY <1>5 DEF Move, TrackingInv, TypeOK, OwnBuffers
  <2>3. ASSUME NEW p \in Place, err'[p] # None
        PROVE  (Bound(p) # None /\ Abs(err[p]) <= Bound(p))'
    <3>1. PICK q \in Place : err'[p] = err[q] /\ kind'[p] = kind[q] /\ buf'[p] = buf[q]
      BY <1>5, <2>3 DEF Move, TrackingInv, TypeOK
    <3>2. Bound(p)' = Bound(q)
      BY <1>5, <3>1 DEF Move, Bound, get, RolesOf, tracker_slot
    <3>3. QED
      BY <2>3, <3>1, <3>2 DEF TrackingInv, TrackedBoundHolds
  <2>4. QED
    BY <2>1, <2>2, <2>3 DEF TrackingInv, TrackedBoundHolds
<1>6. ASSUME NEW dst \in Place, NEW k \in Ciphertext \cup Key \cup {None},
             NEW x \in Addr \cup {None},
             Hold(dst, k, x, None), UNCHANGED db_,
             \/ x = buf[dst] /\ k = kind[dst]
             \/ x = None /\ k = None
      PROVE  TrackingInv'
  <2>1. TypeOK'
    BY <1>6 DEF Hold, TrackingInv, TypeOK
  <2>2. OwnBuffers'
    BY <1>6 DEF Hold, TrackingInv, TypeOK, OwnBuffers
  <2>3. ASSUME NEW p \in Place, err'[p] # None
        PROVE  (Bound(p) # None /\ Abs(err[p]) <= Bound(p))'
    <3>1. err'[p] = err[p] /\ kind'[p] = kind[p] /\ buf'[p] = buf[p]
      BY <1>6, <2>3 DEF Hold, TrackingInv, TypeOK
    <3>2. Bound(p)' = Bound(p)
      BY <1>6, <3>1 DEF Bound, get, RolesOf, tracker_slot
    <3>3. QED
      BY <2>3, <3>1, <3>2 DEF TrackingInv, TrackedBoundHolds
  <2>4. QED
    BY <2>1, <2>2, <2>3 DEF TrackingInv, TrackedBoundHolds
<1>7. ASSUME NEW p \in Place, Destroy(p)
      PROVE  TrackingInv'
  BY <1>6, <1>7 DEF Destroy
<1>8. ASSUME NEW src \in Place, NEW dst \in Place, AddAssign(dst, src)
      PROVE  TrackingInv'
  <2>1. kind[dst] \in Ciphertext \cup Key \cup {None} /\ buf[dst] \in Addr \cup {None}
    BY DEF TrackingInv, TypeOK
  <2>2. Hold(dst, kind[dst], buf[dst], None) /\ UNCHANGED db_
    BY <1>8 DEF AddAssign
  <2>3. QED
    BY <1>6, <2>1, <2>2
<1>9. QED
  BY <1>1, <1>2, <1>3, <1>4, <1>5, <1>7, <1>8, TrackedKeepsInv DEF Next

(* Objects own their buffers, and the tracked bounds hold, throughout. *)
THEOREM TrackingInvariant == Spec => []TrackingInv
<1>1. Init => TrackingInv
  BY NoiseTrackingAssumption
     DEF NoiseTrackingAssumption, Init, TrackingInv, TypeOK, OwnBuffers, TrackedBoundHolds
<1>2. TrackingInv /\ [Next]_vars => TrackingInv'
  BY NextKeepsInv
<1>3. QED
  BY <1>1, <1>2, PTL DEF Spec

(* What NoiseTracker answers for an object all of whose history was        *)
(* tracked bounds its noise (noise_tracker.hpp l.10-22), however buffers   *)
(* move and are reused, for every parameter set.                           *)
THEOREM TrackedBounds == Spec => []TrackedBoundHolds
<1>1. TrackingInv => TrackedBoundHolds
  BY DEF TrackingInv
<1>2. QED
  BY <1>1, TrackingInvariant, PTL
=============================================================================
