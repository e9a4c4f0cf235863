---------------------------- MODULE NoiseTracking ----------------------------
(***************************************************************************)
(* The noise tracker of src/include/tfhe/utility/analysis.  It knows an    *)
(* object by the address of the heap buffer of its first component, what   *)
(* identity() returns, and keeps an entry per address for ever.  A move    *)
(* takes the buffer, and so the entry, along; a copy gets a buffer of its  *)
(* own and no entry; a buffer freed and allocated again comes with the     *)
(* entry of whatever lived there before.                                   *)
(*                                                                         *)
(* A place is a variable of the program that may hold a ciphertext or a    *)
(* key.  Noise is an integer number of some unit; an operation's own noise *)
(* is any value up to what its digits and its roundings can produce.       *)
(***************************************************************************)
EXTENDS Integers, Sequences

CONSTANTS
  Place,        (* the program's variables                                 *)
  Addr,         (* where buffers may be allocated                          *)
  None,         (* no object; no buffer; no entry; noise we cannot tell    *)
  Type,         (* the types of objects the program has                    *)
  n,            (* rounds of a BlindRotate                                 *)
  Worst,        (* fresh: fresh_noise_bound(); gain: what products with a  *)
                (* TRGSW multiply their row noise by; eps and cmuxEps:     *)
                (* what the digits' rounding adds to an external product   *)
                (* and to a CMux; ksGain and ksEps: of a key switch        *)
  Average,      (* the same of variances: (1 + N) eps^2 in an external     *)
                (* product, (N + 1)^2 eps^2 in a CMux                      *)
  MaxBound      (* bound: results that may be noisier are not computed     *)

Ciphertext == {"trlwe", "trgsw", "lwe", "elwe"}     (* elwe: ExtractedLwe   *)
Key == {"bk", "ksk"}

Factors ==
  [fresh : Nat, gain : Nat, eps : Nat, cmuxEps : Nat, ksGain : Nat, ksEps : Nat]

ASSUME NoiseTrackingAssumption ==
  /\ None \notin Addr \cup Int \cup Ciphertext \cup Key
  /\ Worst \in Factors
  /\ Average \in Factors
  /\ Type \subseteq Ciphertext \cup Key
  /\ n \in Nat
  /\ MaxBound \in Nat

VARIABLES
  kind,     (* place -> the type of the object in it, or None               *)
  buf,      (* place -> the address of its buffer, or None                  *)
  err,      (* place -> its noise (ghost), or None once anything had a part *)
            (* in it that the trackers were not told of                     *)
  db_       (* tracker -> address -> its entry                              *)

vars == <<kind, buf, err, db_>>

Role == {"noise", "variance", "key_noise", "key_variance"}

(* Mutant: one slot for whichever tracker is asked for first. *)
tracker_slotShared(role) == "noise"

(* Each tracker type has a slot of its own. *)
tracker_slot(role) == role

RolesOf(k) ==
  IF k \in Key THEN <<"key_noise", "key_variance">> ELSE <<"noise", "variance">>

(* The trackers' entries for the object in place p. *)
get(role, p) == db_[tracker_slot(role)][buf[p]]
Bound(p) == get(RolesOf(kind[p])[1], p)
Variance(p) == get(RolesOf(kind[p])[2], p)

(* The bound, then the variance, of an object of kind k at x registered. *)
update(k, x, bound, variance) ==
  LET first  == tracker_slot(RolesOf(k)[1])
      second == tracker_slot(RolesOf(k)[2])
  IN  db_' = [[db_ EXCEPT ![first][x] = bound] EXCEPT ![second][x] = variance]

Init ==
  /\ kind = [p \in Place |-> None]
  /\ buf = [p \in Place |-> None]
  /\ err = [p \in Place |-> None]
  /\ db_ = [s \in Role |-> [x \in Addr |-> None]]

Noise(bound) == (-bound)..bound
Abs(x) == IF x < 0 THEN -x ELSE x
Larger(x, y) == IF x > y THEN x ELSE y

Free == Addr \ {buf[p] : p \in Place}

(* A new object, in a buffer of its own, is moved into dst; the buffer dst *)
(* had is freed after that.                                                *)
Hold(dst, k, x, e) ==
  /\ kind' = [kind EXCEPT ![dst] = k]
  /\ buf' = [buf EXCEPT ![dst] = x]
  /\ err' = [err EXCEPT ![dst] = e]

-----------------------------------------------------------------------------
(* Runtime's encrypt, generate_bootstrap_key and generate_key_switch_key.  *)
(* The noise of a key is that of the worst of its ciphertexts.             *)

Make(dst, k, Tracking) ==
  \E x \in Free :
    IF Tracking
    THEN /\ \E e \in Noise(Worst.fresh) : Hold(dst, k, x, e)
         /\ update(k, x, Worst.fresh, Average.fresh)
    ELSE /\ Hold(dst, k, x, None)
         /\ UNCHANGED db_

-----------------------------------------------------------------------------
(* Evaluator<Op, Feature>::exec for the operations that have a policy: the *)
(* operands the policy reads, what the operation does to their noise, and  *)
(* what the policy makes of their entries.                                 *)

Op == {"Add", "Sub", "ExternalProduct", "CMux", "BlindRotate",
       "GateBootstrap", "KeySwitch"}

Operands(op) ==
  CASE op \in {"Add", "Sub"}  -> <<"trlwe", "trlwe">>
    [] op = "ExternalProduct" -> <<"trgsw", "trlwe">>
    [] op = "CMux"            -> <<"trgsw", "trlwe", "trlwe">>
    [] op = "BlindRotate"     -> <<"bk">>
    [] op = "GateBootstrap"   -> <<"bk">>
    [] op = "KeySwitch"       -> <<"ksk", "elwe">>

Result(op) ==
  CASE op = "GateBootstrap" -> "elwe"
    [] op = "KeySwitch"     -> "lwe"
    [] OTHER                -> "trlwe"

(* What a product with a TRGSW whose noise is at most e adds... *)
Product(w, e) == w.gain * e + w.eps

(* ...and what a CMux on one adds: eta(C), vartheta(C). *)
Vartheta(w, e) == w.gain * e + w.cmuxEps

(* The bit of the TRGSW chooses; a BlindRotate's test vector is noiseless. *)
exec_impl(op, e) ==
  CASE op = "Add" -> {e[1] + e[2]}
    [] op = "Sub" -> {e[1] - e[2]}
    [] op = "ExternalProduct" ->
         {d + chosen : d \in Noise(Product(Worst, Abs(e[1]))), chosen \in {0, e[2]}}
    [] op = "CMux" ->
         {d + chosen : d \in Noise(Vartheta(Worst, Abs(e[1]))), chosen \in {e[2], e[3]}}
    [] op \in {"BlindRotate", "GateBootstrap"} ->
         Noise(n * Vartheta(Worst, Abs(e[1])))
    [] op = "KeySwitch" ->
         {d + e[2] : d \in Noise(Worst.ksGain * Abs(e[1]) + Worst.ksEps)}

(* Mutant: a CMux is as noisy as its first candidate. *)
PolicyFirstCandidate(op, w, v) ==
  CASE op \in {"Add", "Sub"}  -> v[1] + v[2]
    [] op = "ExternalProduct" -> Product(w, v[1]) + v[2]
    [] op = "CMux"            -> Vartheta(w, v[1]) + v[2]
    [] op \in {"BlindRotate", "GateBootstrap"} -> n * Vartheta(w, v[1])
    [] op = "KeySwitch"       -> v[2] + w.ksGain * v[1] + w.ksEps

(* The form that NoisePolicy and VarianceNoisePolicy share. *)
Policy(op, w, v) ==
  CASE op \in {"Add", "Sub"}  -> v[1] + v[2]
    [] op = "ExternalProduct" -> Product(w, v[1]) + v[2]
    [] op = "CMux"            -> Vartheta(w, v[1]) + Larger(v[2], v[3])
    [] op \in {"BlindRotate", "GateBootstrap"} -> n * Vartheta(w, v[1])
    [] op = "KeySwitch"       -> v[2] + w.ksGain * v[1] + w.ksEps

NoisePolicy(op, bounds) == Policy(op, Worst, bounds)
VarianceNoisePolicy(op, variances) == Policy(op, Average, variances)

Apply(f(_), args) == [i \in DOMAIN args |-> f(args[i])]

Typed(op, args) == Apply(LAMBDA p : kind[p], args) = Operands(op)

exec(op, args, dst) ==
  /\ Typed(op, args)
  /\ \E x \in Free : Hold(dst, Result(op), x, None)
  /\ UNCHANGED db_

Errors(op, args) ==
  IF \E i \in DOMAIN args : err[args[i]] = None THEN {None}
  ELSE exec_impl(op, Apply(LAMBDA p : err[p], args))

(* do_get asserts that an operand is known: on one that is not, the        *)
(* program ends.                                                           *)
Known(p) == Bound(p) # None /\ Variance(p) # None

execTracked(op, args, dst) ==
  /\ Typed(op, args)
  /\ \A i \in DOMAIN args : Known(args[i])
  /\ LET bound == NoisePolicy(op, Apply(Bound, args))
         variance == VarianceNoisePolicy(op, Apply(Variance, args))
     IN  /\ bound <= MaxBound
         /\ \E x \in Free, e \in Errors(op, args) :
              /\ Hold(dst, Result(op), x, e)
              /\ update(Result(op), x, bound, variance)

-----------------------------------------------------------------------------
(* What any C++ program does with its objects; the tracker is not told.    *)

Copy(src, dst) ==
  /\ src # dst
  /\ kind[src] # None
  /\ \E x \in Free : Hold(dst, kind[src], x, None)
  /\ UNCHANGED db_

(* Mutant: the source keeps the buffer too. *)
MoveShared(src, dst) ==
  /\ src # dst
  /\ kind[src] # None
  /\ Hold(dst, kind[src], buf[src], err[src])
  /\ UNCHANGED db_

Move(src, dst) ==
  /\ src # dst
  /\ kind[src] # None
  /\ kind' = [kind EXCEPT ![dst] = kind[src], ![src] = None]
  /\ buf' = [buf EXCEPT ![dst] = buf[src], ![src] = None]
  /\ err' = [err EXCEPT ![dst] = err[src], ![src] = None]
  /\ UNCHANGED db_

Destroy(p) ==
  /\ kind[p] # None
  /\ Hold(p, None, None, None)
  /\ UNCHANGED db_

(* operator+= works in place. *)
AddAssign(dst, src) ==
  /\ kind[dst] \in Ciphertext
  /\ kind[src] = kind[dst]
  /\ Hold(dst, kind[dst], buf[dst], None)
  /\ UNCHANGED db_

Next ==
  \E p \in Place :
    \/ \E k \in Type, Tracking \in BOOLEAN : Make(p, k, Tracking)
    \/ \E op \in Op : \E args \in [DOMAIN Operands(op) -> Place] :
         exec(op, args, p) \/ execTracked(op, args, p)
    \/ \E q \in Place : Copy(q, p) \/ Move(q, p) \/ AddAssign(p, q)
    \/ Destroy(p)

Spec == Init /\ [][Next]_vars

-----------------------------------------------------------------------------

(* The bound the tracker answers for an object holds, if every operation   *)
(* that led to it was tracked, with operands of which this is true:        *)
(* whatever was moved, destroyed and allocated again in the same place     *)
(* meanwhile, however keys and ciphertexts, bounds and variances took      *)
(* turns at one address.  EXPECT_LE(norm, tracker->get(res)) in the tests. *)
TrackedBoundHolds ==
  \A p \in Place :
    err[p] # None => Bound(p) # None /\ Abs(err[p]) <= Bound(p)

(* What makes it inductive: the trackers only ever see one object at an    *)
(* address, because every object owns its buffer (container.hpp l.123).    *)
TypeOK ==
  /\ kind \in [Place -> Ciphertext \cup Key \cup {None}]
  /\ buf \in [Place -> Addr \cup {None}]
  /\ err \in [Place -> Int \cup {None}]
  /\ db_ \in [Role -> [Addr -> Nat \cup {None}]]

OwnBuffers ==
  /\ \A p \in Place : kind[p] = None <=> buf[p] = None
  /\ \A p \in Place : kind[p] = None => err[p] = None
  /\ \A p, q \in Place : buf[p] = buf[q] => p = q \/ buf[p] = None

TrackingInv == TypeOK /\ OwnBuffers /\ TrackedBoundHolds
=============================================================================
