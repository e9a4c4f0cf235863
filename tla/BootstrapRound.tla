---------------------------- MODULE BootstrapRound ----------------------------
(***************************************************************************)
(* One round of BlindRotate and what follows it, on real ciphertexts: a    *)
(* TRGSW is made of a secret bit in one of the ways the code has, a CMux   *)
(* chooses between a TRLWE and its rotation under it, a coefficient is     *)
(* extracted and switched to the other key, and decrypted.  This is where  *)
(* the errors that BlindRotation and Gates take as given come from.        *)
(***************************************************************************)
EXTENDS Ciphertexts, Digits

CONSTANTS
  n,          (* the dimension switched to                                 *)
  Bbit, l,    (* the gadget: digits base 2^Bbit, l of them                 *)
  Kbit, t,    (* the key switch's digits                                   *)
  Sign,       (* bound: how the errors of the rows of a key may alternate  *)
  Mask,       (* bound: the polynomials drawn for an input                 *)
  Message,    (* bound: the polynomials encrypted                          *)
  Amount,     (* bound: what the input is rotated by                       *)
  Gadget      (* the decompositions tried on every torus value             *)

gadget == [qbit |-> qbit, bits |-> Bbit, len |-> l]
switch == [qbit |-> qbit, bits |-> Kbit, len |-> t]

ASSUME BootstrapRoundAssumption ==
  /\ n \in Nat \ {0}
  /\ \A d \in {gadget, switch} \cup Gadget :
       FitsTorus(d) /\ FitsUInt(d) /\ FitsWord(pow2[d.qbit])
  /\ Sign \subseteq {-1, 1}
  /\ Mask \cup Message \subseteq [Coefficients -> 0..(Q - 1)]
  /\ Amount \subseteq Nat
  (* What the keys' makers shift a UInt by stays within its word. *)
  /\ pow2[Bbit * l] < UIntLimit
  /\ pow2[qbit - Kbit] < UIntLimit

VARIABLES
  secret,     (* [r |-> the RLWE secret, l |-> the LWE secret]             *)
  bit,        (* the bit the TRGSW encrypts                                *)
  maker,      (* "bootstrap_key" | "trgsw" | "public"                      *)
  trgsw,      (* its 2l rows                                               *)
  message, amount,
  cand0,      (* the input                                                 *)
  res,        (* the accumulator of the external product, then the CMux's  *)
              (* result                                                    *)
  p,          (* the coefficient extracted                                 *)
  dst,        (* the accumulator of the key switch                         *)
  i,          (* the loops                                                 *)
  repr,       (* a torus value and its digits of every kind                *)
  pc          (* "start" | "represented" | "key" | "encrypt" | "multiply"  *)
              (* | "extract" | "switch" | "done"                           *)

vars == <<secret, bit, maker, trgsw, message, amount, cand0, res, p, dst, i, repr, pc>>

-----------------------------------------------------------------------------
(* Keys.  Masks and errors of their rows differ from row to row.           *)

Rows == 0..(2 * l - 1)

RowMask(row) == [j \in Coefficients |-> (37 * (row + 2) * (j + 1) + 11 * row) % Q]

RowError(sign, row) == [j \in Coefficients |-> IF (row + j) % 2 = 0 THEN sign ELSE -sign]

ZeroRow(sign, row) == TRLWEEncrypt(secret.r, RowMask(row), Zero, RowError(sign, row))

(* Torus(bit, 2^(Bbit * (j + 1))) *)
GadgetValue(m, j) == m * pow2[qbit - Bbit * (j + 1)]

(* Mutant: the message is not put into the a half. *)
FoldOnlyB(rows, m) ==
  [row \in Rows |->
     IF row < l THEN rows[row]
     ELSE [rows[row] EXCEPT !.b[0] = ModTorusAdd(Q, @, GadgetValue(m, row - l))]]

(* m, scaled, into a[0] of the first l rows and b[0] of the others. *)
Fold(rows, m) ==
  [row \in Rows |->
     IF row < l
     THEN [rows[row] EXCEPT !.a[0] = ModTorusAdd(Q, @, GadgetValue(m, row))]
     ELSE [rows[row] EXCEPT !.b[0] = ModTorusAdd(Q, @, GadgetValue(m, row - l))]]

(* bootstrap_key::generate, of one secret bit. *)
BootstrapKeyEntry(sign, m) == Fold([row \in Rows |-> ZeroRow(sign, row)], m)

(* Mutant: the rows start from what an earlier encryption left. *)
TRGSWEncryptOver(sign, m) ==
  Fold([row \in Rows |->
          [a |-> RowMask(row),
           b |-> PolyAdd(AssignProduct(RowMask(row), secret.r, RowMask(row)),
                         [j \in Coefficients |-> RowError(sign, row)[j] % Q])]], m)

(* trgsw::encrypt: the products are assigned to a zero polynomial. *)
TRGSWEncrypt(sign, m) ==
  Fold([row \in Rows |->
          [a |-> RowMask(row),
           b |-> PolyAdd(AssignProduct(Zero, secret.r, RowMask(row)),
                         [j \in Coefficients |-> RowError(sign, row)[j] % Q])]], m)

(* trgsw::public_encrypt: some of two samples of zero, summed row by row. *)
TRGSWPublicEncrypt(sign, chosen, m) ==
  LET sample(k) == [row \in Rows |-> ZeroRow(sign, row + k)]
      plus(rows, k) == IF k \in chosen THEN TRGSWAdd(rows, sample(k)) ELSE rows
  IN  Fold(plus(plus([row \in Rows |-> TRLWEZero], 1), 2), m)

Init ==
  /\ secret = [r |-> Zero, l |-> [j \in 0..(n - 1) |-> 0]]
  /\ bit = 0
  /\ maker = "trgsw"
  /\ trgsw = [row \in Rows |-> TRLWEZero]
  /\ message = Zero
  /\ amount = 0
  /\ cand0 = TRLWEZero
  /\ res = TRLWEZero
  /\ p = 0
  /\ dst = [a |-> [j \in 0..(n - 1) |-> 0], b |-> 0]
  /\ i = 0
  /\ repr = <<>>
  /\ pc = "start"

(* The secrets are drawn, and the bit, the message and the rotation given. *)
Draw ==
  /\ pc = "start"
  /\ secret' \in [r : [Coefficients -> {0, 1}], l : [0..(n - 1) -> {0, 1}]]
  /\ bit' \in {0, 1}
  /\ maker' \in {"bootstrap_key", "trgsw", "public"}
  /\ message' \in Message
  /\ amount' \in Amount
  /\ pc' = "key"
  /\ UNCHANGED <<trgsw, cand0, res, p, dst, i, repr>>

(* On its own: any torus value taken apart, by any decomposition.          *)
Represent ==
  /\ pc = "start"
  /\ \E d \in Gadget : \E v \in 0..(pow2[d.qbit] - 1) :
       repr' = [of |-> d, value |-> v,
                balanced |-> DigitsOf(d, balanced_decompose, v),
                switched |-> DigitsOf(d, switch_decompose, v),
                classical |-> DigitsOf(d, classical_decompose, v)]
  /\ pc' = "represented"
  /\ UNCHANGED <<secret, bit, maker, trgsw, message, amount, cand0, res, p, dst, i>>

MakeKey ==
  /\ pc = "key"
  /\ \E sign \in Sign :
       \/ maker = "bootstrap_key" /\ trgsw' = BootstrapKeyEntry(sign, bit)
       \/ maker = "trgsw" /\ trgsw' = TRGSWEncrypt(sign, bit)
       \/ maker = "public" /\ \E chosen \in SUBSET {1, 2} :
            trgsw' = TRGSWPublicEncrypt(sign, chosen, bit)
  /\ pc' = "encrypt"
  /\ UNCHANGED <<secret, bit, maker, message, amount, cand0, res, p, dst, i, repr>>

-----------------------------------------------------------------------------

(* The input: encrypted by a holder of the secret, or by one of a public   *)
(* key of two samples.                                                     *)
Encrypt ==
  /\ pc = "encrypt"
  /\ \E mask \in Mask, sign \in Sign :
       \/ cand0' = TRLWEEncrypt(secret.r, mask, message, RowError(sign, 0))
       \/ \E chosen \in SUBSET {1, 2} :
            cand0' = PublicEncrypt(<<TRLWEEncrypt(secret.r, mask, Zero, RowError(sign, 0)),
                                     ZeroRow(sign, 1)>>, chosen, message)
  /\ pc' = "multiply"
  /\ UNCHANGED <<secret, bit, maker, trgsw, message, amount, res, p, dst, i, repr>>

Rotated(c) == [a |-> rotate(c.a, amount), b |-> rotate(c.b, amount)]

(* What CMux multiplies: cand1 - cand0. *)
Difference == TRLWESub(Rotated(cand0), cand0)

DigitPoly(poly, j) == [m \in Coefficients |-> balanced_decompose(gadget, poly[m], j)]

(* One level of ExternalProduct. *)
MultiplyLevel ==
  /\ pc = "multiply"
  /\ i < l
  /\ LET da == DigitPoly(Difference.a, i)
         db == DigitPoly(Difference.b, i)
     IN  res' = [a |-> PolyAdd(PolyAdd(res.a, negacyclic_convolution(da, trgsw[i].a)),
                               negacyclic_convolution(db, trgsw[l + i].a)),
                 b |-> PolyAdd(PolyAdd(res.b, negacyclic_convolution(da, trgsw[i].b)),
                               negacyclic_convolution(db, trgsw[l + i].b))]
  /\ i' = i + 1
  /\ UNCHANGED <<secret, bit, maker, trgsw, message, amount, cand0, p, dst, pc, repr>>

(* CMux: cand0 is added back. *)
AddBack ==
  /\ pc = "multiply"
  /\ i = l
  /\ res' = TRLWEAdd(res, cand0)
  /\ i' = 0
  /\ pc' = "extract"
  /\ UNCHANGED <<secret, bit, maker, trgsw, message, amount, cand0, p, dst, repr>>

-----------------------------------------------------------------------------

(* SampleExtract's a[j] of the coefficient at. *)
ExtractedA(c, at, j) == IF j <= at THEN c.a[at - j] ELSE (-c.a[N + at - j]) % Q

(* The b is carried over at once, the a[i] follow. *)
Extract ==
  /\ pc = "extract"
  /\ p' \in Coefficients
  /\ dst' = [dst EXCEPT !.b = res.b[p']]
  /\ pc' = "switch"
  /\ UNCHANGED <<secret, bit, maker, trgsw, message, amount, cand0, res, i, repr>>

(* key_switch_key::generate, of the source's secret bit at j and digit m. *)
KeySwitchSample(sign, j, m) ==
  TLWEEncrypt(secret.l, [x \in 0..(n - 1) |-> (29 * (j + 3) * (m + 1) + 5 * x) % Q],
              ModTorus(Q, secret.r[j] * pow2[qbit - Kbit * (m + 1)]), sign)

(* Mutant: every digit is taken from the same key row. *)
SwitchedOneRow(sign, ai) ==
  LET sub[m \in 0..t] ==
        IF m = 0 THEN dst
        ELSE TLWESub(sub[m - 1], TLWEScale(switch_decompose(switch, ai, m - 1),
                                           KeySwitchSample(sign, i, 0)))
  IN  sub[t]

(* One i of KeySwitch's loop. *)
Switched(sign, ai) ==
  LET sub[m \in 0..t] ==
        IF m = 0 THEN dst
        ELSE TLWESub(sub[m - 1], TLWEScale(switch_decompose(switch, ai, m - 1),
                                           KeySwitchSample(sign, i, m - 1)))
  IN  sub[t]

SwitchCoefficient ==
  /\ pc = "switch"
  /\ i < N
  /\ \E sign \in Sign : dst' = Switched(sign, ExtractedA(res, p, i))
  /\ i' = i + 1
  /\ UNCHANGED <<secret, bit, maker, trgsw, message, amount, cand0, res, p, pc, repr>>

Finish ==
  /\ pc = "switch"
  /\ i = N
  /\ pc' = "done"
  /\ UNCHANGED <<secret, bit, maker, trgsw, message, amount, cand0, res, p, dst, i, repr>>

Decrypted == pc \in {"represented", "done"} /\ UNCHANGED vars

Next ==
  \/ Draw \/ Represent \/ MakeKey \/ Encrypt \/ MultiplyLevel \/ AddBack
  \/ Extract \/ SwitchCoefficient \/ Finish \/ Decrypted

Spec == Init /\ [][Next]_vars

-----------------------------------------------------------------------------

(* Every digit sequence, of every decomposition, stands for its torus      *)
(* value up to half of what the last digit leaves out, wherever the value  *)
(* lies; balanced digits stay within half a base; and putting the digits   *)
(* together again loses no more.  A key switch's and a gadget's            *)
(* decompositions rest on this.                                            *)
DigitsStandForTheirValue ==
  pc = "represented" =>
    StandFor(repr.of, repr.value, repr.balanced, repr.switched, repr.classical)

(* The noise of a TRGSW's rows. *)
RowNoise == IF maker = "public" THEN 2 ELSE 1

HalfBase == pow2[Bbit - 1]

ProductNoise == 2 * l * N * HalfBase * RowNoise + (1 + N) * Round(gadget)

Chosen == IF bit = 1 THEN Rotated(cand0) ELSE cand0

(* What one round of BlindRotation assumes: the CMux chooses between the   *)
(* phases of its candidates, whatever ciphertext they are phases of, and   *)
(* adds no more than its digits times the rows' noise and its roundings.   *)
RoundIsCMux ==
  pc = "extract" =>
    \A j \in Coefficients :
      Near(Q, TRLWEDecrypt(secret.r, res)[j], TRLWEDecrypt(secret.r, Chosen)[j],
           ProductNoise)

SwitchNoise == t * (pow2[Kbit] - 1) + Round(switch)

(* What the coefficients that have not been switched yet contribute.       *)
Still ==
  [j \in Coefficients |-> IF j < i THEN 0 ELSE ExtractedA(res, p, j) * secret.r[j]]

(* The loop of the key switch: what has been switched is under the new     *)
(* key, what has not under the old one, and the two make up the phase of   *)
(* the coefficient that was extracted.                                     *)
SwitchKeepsPhase ==
  pc \in {"switch", "done"} =>
    Near(Q, TLWEDecrypt(secret.l, dst) - Sum(Still, N),
         TRLWEDecrypt(secret.r, res)[p], i * SwitchNoise)

(* End to end: what comes out decrypts to the message, rotated if the bit  *)
(* is set.                                                                 *)
DecryptsToChosen ==
  pc = "done" =>
    LET meant == IF bit = 1 THEN rotate(message, amount) ELSE message
    IN  Near(Q, TLWEDecrypt(secret.l, dst), meant[p], 2 + ProductNoise + N * SwitchNoise)
=============================================================================
