----------------------------- MODULE Ciphertexts -----------------------------
(***************************************************************************)
(* Polynomials of torus values, the ciphertexts made of them, their digits *)
(* and their cryptors, in the code's word arithmetic:                      *)
(* src/include/algebra, src/include/tfhe/structure and .../cryptor.        *)
(*                                                                         *)
(* What an engine draws is an argument: a mask for every a, an error for   *)
(* every gaussian_noise.                                                   *)
(***************************************************************************)
EXTENDS Words, Powers, Sequences, FiniteSets

CONSTANTS
  qbit,       (* bits of a Torus                                           *)
  N           (* the ring's dimension                                      *)

Q == pow2[qbit]

ASSUME CiphertextsAssumption == qbit \in Nat \ {0} /\ FitsWord(Q) /\ N \in Nat \ {0}

Coefficients == 0..(N - 1)

-----------------------------------------------------------------------------
(* Poly                                                                    *)

Zero == [j \in Coefficients |-> 0]

PolyAdd(p, r) == [j \in Coefficients |-> ModTorusAdd(Q, p[j], r[j])]

PolySub(p, r) == [j \in Coefficients |-> ModTorusSub(Q, p[j], r[j])]

(* The products of a Poly<UInt> and a Poly<Torus>, X^N = -1, as they are   *)
(* accumulated into a zero polynomial.                                     *)
negacyclic_convolution(u, p) ==
  [m \in Coefficients |->
     Sum([j \in Coefficients |-> IF j <= m THEN ModTorusScale(Q, u[j], p[m - j])
                                 ELSE -ModTorusScale(Q, u[j], p[N + m - j])], N) % Q]

(* operator=(Expr): the products are added to what was there. *)
AssignProduct(p, u, r) == PolyAdd(p, negacyclic_convolution(u, r))

(* p times X^m. *)
rotate(p, m) ==
  LET by == m % (2 * N)
      source(j) == (j + 2 * N - by) % N
  IN  [j \in Coefficients |->
         IF ((source(j) + by) \div N) % 2 = 1 THEN (-p[source(j)]) % Q ELSE p[source(j)]]

-----------------------------------------------------------------------------
(* TLWE, TRLWE, TRGSW: a record of a and b, and a function of such records *)

TLWEScale(u, c) ==
  [a |-> [j \in DOMAIN c.a |-> ModTorusScale(Q, u, c.a[j])],
   b |-> ModTorusScale(Q, u, c.b)]

TLWESub(c, d) ==
  [a |-> [j \in DOMAIN c.a |-> ModTorusSub(Q, c.a[j], d.a[j])],
   b |-> ModTorusSub(Q, c.b, d.b)]

TRLWEAdd(c, d) == [a |-> PolyAdd(c.a, d.a), b |-> PolyAdd(c.b, d.b)]

TRLWESub(c, d) == [a |-> PolySub(c.a, d.a), b |-> PolySub(c.b, d.b)]

TRLWEZero == [a |-> Zero, b |-> Zero]

TRGSWAdd(g, h) == [r \in DOMAIN g |-> TRLWEAdd(g[r], h[r])]

-----------------------------------------------------------------------------
(* The cryptors                                                            *)

TLWEDot(s, a) ==
  Sum([j \in DOMAIN a |-> ModTorusScale(Q, s[j], a[j])], Cardinality(DOMAIN a))

TLWEEncrypt(s, mask, message, error) ==
  [a |-> mask, b |-> (TLWEDot(s, mask) + message + error) % Q]

TLWEDecrypt(s, c) == (c.b - TLWEDot(s, c.a)) % Q

TRLWEEncrypt(s, mask, pt, error) ==
  [a |-> mask,
   b |-> PolyAdd(PolyAdd(pt, negacyclic_convolution(s, mask)),
                 [j \in Coefficients |-> error[j] % Q])]

TRLWEDecrypt(s, c) == PolySub(c.b, negacyclic_convolution(s, c.a))

(* public_key::encrypt: some of the samples of zero, and the message. *)
PublicEncrypt(pk, chosen, pt) ==
  LET sum[m \in 0..Len(pk)] ==
        IF m = 0 THEN TRLWEZero
        ELSE IF m \in chosen THEN TRLWEAdd(sum[m - 1], pk[m]) ELSE sum[m - 1]
  IN  [sum[Len(pk)] EXCEPT !.b = PolyAdd(@, pt)]
=============================================================================
