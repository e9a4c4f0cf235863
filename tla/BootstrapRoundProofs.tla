-------------------------- MODULE BootstrapRoundProofs --------------------------
(***************************************************************************)
(* One round of a bootstrap on real ciphertexts, for every word, torus,    *)
(* ring dimension and decomposition a word has room for; and, at the end,  *)
(* the operations in bulk on the same words, a specification of its own.   *)
(* The gates' constants that SharedLemmas brings along play no part here.  *)
(***************************************************************************)
EXTENDS BootstrapRound, BulkArithmetic, SharedLemmas, FiniteSetTheorems

-----------------------------------------------------------------------------
(* Words.                                                                  *)

LEMMA WordIsItself ==
  ASSUME NEW x \in Word
  PROVE  Wrap(x) = x
  BY RemainderOfSmall, WordsAssumption DEF Wrap, Word

(* A word is a number of whole turns: wrapping keeps the remainder.        *)
LEMMA WrapKeepsTurn ==
  ASSUME NEW q \in Nat, FitsWord(q), NEW x \in Int
  PROVE  Wrap(x) % q = x % q
  <1>1. PICK turns \in Nat : Limit = turns * q BY WordsAssumption, SMT DEF FitsWord
  <1>2. PICK k \in Int : x = k * Limit + Wrap(x)
    BY Remainder, WordsAssumption DEF Wrap
  <1>3. Wrap(x) \in Int BY Remainder, WordsAssumption DEF Wrap
  <1>4. PICK m \in Int : Wrap(x) = m * q + (Wrap(x) % q)
    BY <1>3, Remainder DEF FitsWord
  <1>5. x = (k * turns + m) * q + (Wrap(x) % q)
    <2>1. k * (turns * q) = (k * turns) * q BY <1>1, <1>2, SMT
    <2>2. (k * turns + m) * q = (k * turns) * q + m * q BY <1>1, <1>2, <1>4, SMT
    <2>3. Wrap(x) % q \in Int BY <1>3, Remainder DEF FitsWord
    <2> QED BY <1>1, <1>2, <1>3, <1>4, <2>1, <2>2, <2>3, SMT
  <1>6. k * turns + m \in Int BY <1>1, <1>2, <1>4, SMT
  <1>7. Wrap(x) % q \in 0..(q - 1) BY <1>3, Remainder DEF FitsWord
  <1>8. q \in Nat \ {0} BY DEF FitsWord
  <1> HIDE DEF FitsWord
  <1> QED
    <2> DEFINE r == Wrap(x) % q
               j == k * turns + m
    <2>1. j \in Int /\ r \in 0..(q - 1) /\ x = j * q + r
      BY <1>5, <1>6, <1>7
    <2> HIDE DEF r, j
    <2>2. x % q = r BY <1>8, <2>1, RemainderIs
    <2> QED BY <2>2 DEF r

-----------------------------------------------------------------------------
(* Digits.                                                                 *)

LEMMA PowersOfTwo ==
  /\ pow2[0] = 1
  /\ \A j \in Nat : pow2[j] \in Nat \ {0} /\ pow2[j + 1] = 2 * pow2[j]
  /\ \A j, m \in Nat : pow2[j + m] = pow2[j] * pow2[m]
  BY Pow2Recurrence, Pow2Positive, Pow2Adds

(* A decomposition as the code admits it. *)
Decomposition(d) == FitsTorus(d) /\ FitsUInt(d) /\ FitsWord(pow2[d.qbit])

(* What a digit counts: of place 0, the full turn, down to what the last   *)
(* digit leaves out.                                                       *)
Place(d, j) == pow2[d.qbit - d.bits * j]

LEMMA PlacesOf ==
  ASSUME NEW d, FitsTorus(d)
  PROVE  /\ d.len \in Nat \ {0}
         /\ \A j \in 0..d.len : Place(d, j) \in Nat \ {0}
         /\ \A j \in Places(d) : /\ j \in 0..d.len /\ j + 1 \in 0..d.len
                                 /\ Place(d, j) = BaseOf(d) * Place(d, j + 1)
                                 /\ pow2[Shift(d, j)] = Place(d, j + 1)
         /\ Place(d, 0) = pow2[d.qbit]
         /\ Place(d, d.len) = pow2[d.qbit - d.bits * d.len]
  <1>1. /\ d.len \in Nat \ {0} /\ d.bits \in Nat \ {0} /\ d.qbit \in Nat
        /\ d.bits * d.len <= d.qbit
    BY DEF FitsTorus
  <1>2. ASSUME NEW j \in 0..d.len PROVE d.qbit - d.bits * j \in Nat
    <2>1. PICK b \in Nat, len \in Nat, q \in Nat : b = d.bits /\ len = d.len /\ q = d.qbit
      BY <1>1
    <2>2. b * j <= b * len
      <3>1. PICK k \in Nat : len = j + k
        <4>1. len - j \in Nat /\ len = j + (len - j) BY <2>1
        <4> QED BY <4>1
      <3>2. j \in Nat OBVIOUS
      <3>3. b * (j + k) = b * j + b * k BY <3>2, Distributes
      <3>4. b * j \in Int /\ b * k \in Nat BY <3>2
      <3> QED BY <3>1, <3>3, <3>4
    <2>3. b * j \in Int /\ b * len \in Int /\ b * len <= q BY <1>1, <2>1
    <2> QED BY <2>1, <2>2, <2>3
  <1>3. \A j \in 0..d.len : Place(d, j) \in Nat \ {0}
    BY <1>2, PowersOfTwo DEF Place
  <1>4. ASSUME NEW j \in Places(d)
        PROVE  /\ j \in 0..d.len /\ j + 1 \in 0..d.len
               /\ Place(d, j) = BaseOf(d) * Place(d, j + 1)
               /\ pow2[Shift(d, j)] = Place(d, j + 1)
    <2>1. j \in 0..d.len /\ j + 1 \in 0..d.len BY <1>1 DEF Places
    <2>2. d.qbit - d.bits * j = d.bits + (d.qbit - d.bits * (j + 1))
      <3>1. PICK b \in Nat, q \in Nat : b = d.bits /\ q = d.qbit BY <1>1
      <3>2. j \in Nat /\ 1 \in Int BY <1>1, <2>1
      <3>3. b * (j + 1) = b * j + b * 1 BY <3>2, Distributes
      <3>4. b * j \in Int /\ b * 1 = b BY <3>2
      <3>5. q - b * j = b + (q - b * (j + 1)) BY <3>3, <3>4
      <3> QED BY <3>1, <3>5
    <2>3. d.qbit - d.bits * (j + 1) \in Nat BY <1>2, <2>1
    <2>4. pow2[d.bits + (d.qbit - d.bits * (j + 1))]
            = pow2[d.bits] * pow2[d.qbit - d.bits * (j + 1)]
      BY <1>1, <2>3, PowersOfTwo, Zenon
    <2> QED BY <2>1, <2>2, <2>4 DEF Place, BaseOf, Shift
  <1>5. d.qbit - d.bits * 0 = d.qbit BY <1>1
  <1> QED BY <1>1, <1>3, <1>4, <1>5 DEF Place

(* A base is even, and a UInt's number of values is a multiple of it.      *)
LEMMA BaseIsEven ==
  ASSUME NEW d, Decomposition(d)
  PROVE  \E h \in Nat \ {0}, m \in Nat \ {0} :
           BaseOf(d) = 2 * h /\ BaseOf(d) \div 2 = h /\ UIntLimit = m * (2 * h)
  <1>1. d.bits - 1 \in Nat /\ (d.bits - 1) + 1 = d.bits
    BY DEF Decomposition, FitsTorus
  <1>2. PICK h \in Nat \ {0} : h = pow2[d.bits - 1] BY <1>1, PowersOfTwo
  <1>3. BaseOf(d) = 2 * h BY <1>1, <1>2, PowersOfTwo DEF BaseOf
  <1>4. PICK m \in 1..UIntLimit : UIntLimit = m * BaseOf(d)
    BY DEF Decomposition, FitsUInt, BaseOf
  <1>5. (2 * h) \div 2 = h
    BY SMTT(30)
  <1>6. m \in Nat \ {0} BY DigitsAssumption
  <1> QED BY <1>3, <1>4, <1>5, <1>6

LEMMA RoundOf ==
  ASSUME NEW d, FitsTorus(d)
  PROVE  LET rest == Place(d, d.len)
         IN  /\ rest \in Nat \ {0} /\ Round(d) \in Nat
             /\ rest - 1 - Round(d) <= Round(d)
             /\ Round(d) < pow2[d.qbit]
  <1>1. d.len \in Nat /\ d.bits \in Nat /\ d.qbit \in Nat /\ d.bits * d.len <= d.qbit
    BY DEF FitsTorus
  <1>2. PICK e \in Nat : e = d.qbit - d.bits * d.len
    <2>1. d.bits * d.len \in Int BY <1>1
    <2> QED BY <1>1, <2>1
  <1>3. pow2[d.qbit] = pow2[e] * pow2[d.bits * d.len]
    <2>1. PICK used \in Nat : used = d.bits * d.len /\ d.qbit = e + used BY <1>1, <1>2
    <2>2. pow2[e + used] = pow2[e] * pow2[used] BY PowersOfTwo, ZenonT(30)
    <2> QED BY <2>1, <2>2
  <1>4. pow2[e] <= pow2[d.qbit]
    <2>1. PICK x \in Nat \ {0}, y \in Nat \ {0} : x = pow2[e] /\ y = pow2[d.bits * d.len]
      <3>1. d.bits * d.len \in Nat BY <1>1
      <3> QED BY <3>1, PowersOfTwo
    <2>2. x * y >= x BY <2>1
    <2> QED BY <1>3, <2>1, <2>2
  <1>5. pow2[e] \in Nat \ {0} /\ pow2[d.qbit] \in Nat \ {0} BY <1>1, PowersOfTwo
  <1>6. CASE e = 0
    <2>1. Round(d) = 0 /\ pow2[e] = 1
      <3>1. ~(d.qbit > d.bits * d.len) BY <1>1, <1>2, <1>6
      <3> QED BY <1>6, <3>1, PowersOfTwo DEF Round
    <2> QED BY <1>2, <1>4, <1>5, <2>1 DEF Place
  <1>7. CASE e # 0
    <2>1. e - 1 \in Nat /\ (e - 1) + 1 = e BY <1>7
    <2>2. Round(d) = pow2[e - 1]
      <3>1. d.qbit > d.bits * d.len BY <1>1, <1>2, <1>7
      <3> QED BY <1>2, <3>1 DEF Round
    <2>3. pow2[e - 1] \in Nat \ {0} /\ pow2[e] = 2 * pow2[e - 1]
      BY <2>1, PowersOfTwo
    <2> QED BY <1>2, <1>4, <1>5, <2>2, <2>3 DEF Place
  <1> QED BY <1>6, <1>7

LEMMA Splits ==
  ASSUME NEW d \in Nat \ {0}, NEW x \in Int
  PROVE  \E c \in Int, r \in 0..(d - 1) : x = c * d + r /\ x \div d = c /\ x % d = r
  <1>1. x % d \in 0..(d - 1) /\ x \div d \in Int /\ x = (x \div d) * d + (x % d)
    BY ModSplits
  <1> QED BY <1>1, Zenon

(* A remainder's leading digit, base b, and the rest of it. *)
LEMMA LeadingDigit ==
  ASSUME NEW b \in Nat \ {0}, NEW unit \in Nat \ {0}, NEW w \in Int
  PROVE  w % (b * unit) = ((w \div unit) % b) * unit + (w % unit)
  <1>1. PICK a \in Int, r \in 0..(unit - 1) : w = a * unit + r /\ w \div unit = a /\ w % unit = r
    BY Splits, Zenon
  <1>2. PICK c \in Int, e \in 0..(b - 1) : a = c * b + e /\ a % b = e
    BY Splits, Zenon
  <1>3. PICK bp \in Nat \ {0} : bp = b * unit BY SMT
  <1>4. PICK ep \in Nat : ep = e * unit BY SMT
  <1>5. w = c * bp + (ep + r)
    <2>1. (c * b + e) * unit = (c * b) * unit + e * unit BY SMT
    <2>2. (c * b) * unit = c * (b * unit) BY SMT
    <2>3. c * bp \in Int BY <1>3
    <2> QED BY <1>1, <1>2, <1>3, <1>4, <2>1, <2>2, <2>3
  <1>6. ep + r \in 0..(bp - 1)
    <2>1. PICK f \in Nat : b = f + 1 /\ e <= f
      <3>1. b - 1 \in Nat /\ b = (b - 1) + 1 /\ e <= b - 1 OBVIOUS
      <3> QED BY <3>1
    <2>2. (f + 1) * unit = f * unit + unit BY SMT
    <2>3. e * unit <= f * unit
      <3>1. PICK g \in Nat : f = e + g
        <4>1. f - e \in Nat /\ f = e + (f - e) BY <2>1
        <4> QED BY <4>1
      <3>2. (e + g) * unit = e * unit + g * unit BY SMT
      <3>3. g * unit \in Nat /\ e * unit \in Nat BY SMT
      <3> QED BY <3>1, <3>2, <3>3
    <2>4. PICK fp \in Nat : fp = f * unit BY SMT
    <2>5. bp = fp + unit /\ ep <= fp BY <1>3, <1>4, <2>1, <2>2, <2>3, <2>4
    <2> QED BY <2>5
  <1>7. w % bp = ep + r
    <2>1. PICK x \in 0..(bp - 1) : x = ep + r BY <1>6
    <2>2. w = c * bp + x BY <1>5, <2>1
    <2>3. w % bp = x BY <2>2, RemainderIs
    <2> QED BY <2>1, <2>3
  <1> QED BY <1>1, <1>2, <1>3, <1>4, <1>7

(* The digits a number is cut into, side by side again: what is below a    *)
(* turn, without what the last digit leaves out.                           *)
LEMMA CutDigits ==
  ASSUME NEW d, FitsTorus(d), NEW w \in Int
  PROVE  /\ \A j \in Places(d) : (w \div pow2[Shift(d, j)]) % BaseOf(d) \in 0..(BaseOf(d) - 1)
         /\ SideBySide(d, [j \in Places(d) |-> (w \div pow2[Shift(d, j)]) % BaseOf(d)])
              = (w % pow2[d.qbit]) - (w % Place(d, d.len))
  <1> DEFINE digit == [j \in Places(d) |-> (w \div pow2[Shift(d, j)]) % BaseOf(d)]
  <1>1. /\ d.len \in Nat \ {0} /\ Places(d) = 0..(d.len - 1)
        /\ \A j \in 0..d.len : Place(d, j) \in Nat \ {0}
        /\ Place(d, 0) = pow2[d.qbit]
    BY PlacesOf DEF Places
  <1>2. BaseOf(d) \in Nat \ {0} BY PowersOfTwo DEF FitsTorus, BaseOf
  <1>3. ASSUME NEW j \in Places(d)
        PROVE  /\ pow2[Shift(d, j)] = Place(d, j + 1)
               /\ digit[j] \in 0..(BaseOf(d) - 1)
               /\ w % Place(d, j) = digit[j] * pow2[Shift(d, j)] + (w % Place(d, j + 1))
    <2>1. PICK unit \in Nat \ {0}, b \in Nat \ {0} :
            /\ unit = Place(d, j + 1) /\ unit = pow2[Shift(d, j)] /\ b = BaseOf(d)
            /\ Place(d, j) = b * unit
      BY <1>1, <1>2, PlacesOf
    <2>2. w % (b * unit) = ((w \div unit) % b) * unit + (w % unit) BY LeadingDigit
    <2>3. (w \div unit) % b \in 0..(b - 1)
      <3>1. w \div unit \in Int BY Splits, Zenon
      <3> QED BY <3>1, Remainder
    <2> QED BY <2>1, <2>2, <2>3
  <1> DEFINE term == [j \in Places(d) |-> digit[j] * pow2[Shift(d, j)]]
             part == [j \in 0..d.len |-> (w % Place(d, 0)) - (w % Place(d, j))]
  <1>4. ASSUME NEW j \in 0..d.len PROVE w % Place(d, j) \in Int
    <2>1. PICK unit \in Nat \ {0} : unit = Place(d, j) BY <1>1
    <2>2. w % unit \in 0..(unit - 1) BY Remainder
    <2> QED BY <2>1, <2>2
  <1>5. PICK cut \in [0..(d.len - 1) -> Int] : cut = term
    <2>1. ASSUME NEW j \in Places(d) PROVE digit[j] * pow2[Shift(d, j)] \in Int
      <3>1. j + 1 \in 0..d.len BY <1>1
      <3> HIDE DEF digit
      <3> QED BY <1>1, <1>2, <1>3, <3>1
    <2> HIDE DEF digit
    <2>2. term \in [Places(d) -> Int] BY <2>1
    <2> HIDE DEF term
    <2> QED BY <1>1, <2>2
  <1>6. PICK s \in [0..d.len -> Int] : s = part
    <2>1. part \in [0..d.len -> Int] BY <1>1, <1>4
    <2> QED BY <2>1
  <1>7. s[0] = 0
    <2>1. 0 \in 0..d.len BY <1>1
    <2> QED BY <1>4, <1>6, <2>1
  <1>8. ASSUME NEW j \in 0..(d.len - 1) PROVE s[j + 1] = s[j] + cut[j]
    <2>1. j \in Places(d) /\ j \in 0..d.len /\ j + 1 \in 0..d.len /\ 0 \in 0..d.len BY <1>1
    <2>2. PICK x \in Int, y \in Int, z \in Int :
            x = w % Place(d, j) /\ y = w % Place(d, j + 1) /\ z = w % Place(d, 0)
      BY <1>4, <2>1
    <2>3. cut[j] = digit[j] * pow2[Shift(d, j)] BY <1>5, <2>1
    <2>4. x = cut[j] + y
      <3> HIDE DEF digit
      <3> QED BY <1>3, <2>1, <2>2, <2>3
    <2>5. s[j] = z - x /\ s[j + 1] = z - y BY <1>6, <2>1, <2>2
    <2>6. cut[j] \in Int OBVIOUS
    <2> QED BY <2>4, <2>5, <2>6
  <1>9. Sum(cut, d.len) = s[d.len] BY <1>1, <1>7, <1>8, SumIs
  <1>10. SideBySide(d, digit) = Sum(cut, d.len) BY <1>5 DEF SideBySide
  <1>11. s[d.len] = (w % pow2[d.qbit]) - (w % Place(d, d.len))
    <2>1. d.len \in 0..d.len BY <1>1
    <2> QED BY <1>1, <1>6, <2>1
  <1>12. \A j \in Places(d) : digit[j] \in 0..(BaseOf(d) - 1) BY <1>3
  <1> QED BY <1>9, <1>10, <1>11, <1>12

LEMMA NearFrom ==
  ASSUME NEW q \in Nat \ {0}, NEW bound \in Nat, bound < q,
         NEW x \in Int, NEW y \in Int, NEW k \in Int, NEW e \in -bound..bound,
         x - y = k * q + e
  PROVE  Near(q, x, y, bound)
  <1>1. CASE e >= 0
    <2>1. e \in 0..(q - 1) BY <1>1
    <2>2. (x - y) % q = e
      <3>1. x - y \in Int OBVIOUS
      <3> QED BY <2>1, <3>1, RemainderIs
    <2> QED BY <2>2 DEF Near
  <1>2. CASE e < 0
    <2>1. -e \in 0..(q - 1) /\ -k \in Int BY <1>2
    <2>2. y - x = (-k) * q + (-e)
      <3>1. (-k) * q = -(k * q) BY SMT
      <3>2. k * q \in Int OBVIOUS
      <3> QED BY <3>1, <3>2
    <2>3. (y - x) % q = -e
      <3>1. y - x \in Int OBVIOUS
      <3> QED BY <2>1, <2>2, <3>1, RemainderIs
    <2> QED BY <2>1, <2>3 DEF Near
  <1> QED BY <1>1, <1>2

(* Wrapping and reducing lose whole turns. *)
LEMMA LosesTurns ==
  ASSUME NEW q \in Nat, FitsWord(q), NEW x \in Int
  PROVE  /\ Wrap(x) \in Nat
         /\ \E k \in Int : Wrap(x) = x + k * q
         /\ \E k \in Int : x % q = x + k * q
         /\ \E k \in Int : Wrap(x) % q = x + k * q
  <1>1. q \in Nat \ {0} BY DEF FitsWord
  <1>2. \A y \in Int : \E k \in Int : y % q = y + k * q
    <2> SUFFICES ASSUME NEW y \in Int PROVE \E k \in Int : y % q = y + k * q OBVIOUS
    <2>1. PICK c \in Int : y = c * q + (y % q) BY <1>1, Remainder
    <2>2. y % q \in 0..(q - 1) BY <1>1, Remainder
    <2>3. (-c) * q = -(c * q) /\ c * q \in Int BY <1>1, SMT
    <2>4. -c \in Int /\ y % q = y + (-c) * q BY <2>1, <2>2, <2>3
    <2> QED BY <2>4
  <1>3. PICK turns \in Nat : Limit = turns * q BY WordsAssumption, SMT DEF FitsWord
  <1>4. PICK c \in Int : x = c * Limit + Wrap(x) BY Remainder, WordsAssumption DEF Wrap
  <1>5. Wrap(x) \in Nat BY Remainder, WordsAssumption DEF Wrap
  <1>6. Wrap(x) = x + (-(c * turns)) * q
    <2>1. c * (turns * q) = (c * turns) * q BY SMT
    <2>2. (-(c * turns)) * q = -((c * turns) * q) BY SMT
    <2>3. (c * turns) * q \in Int BY SMT
    <2> QED BY <1>3, <1>4, <1>5, <2>1, <2>2, <2>3
  <1>7. -(c * turns) \in Int BY SMT
  <1>8. Wrap(x) % q = x % q BY WrapKeepsTurn
  <1> QED BY <1>2, <1>5, <1>6, <1>7, <1>8

(* A balanced digit, stored as a UInt, is the number it stands for, and    *)
(* gives the unsigned digit back.                                          *)
LEMMA DigitStored ==
  ASSUME NEW h \in Nat \ {0}, NEW m \in Nat \ {0}, UIntLimit = m * (2 * h),
         NEW digit \in 0..(2 * h - 1)
  PROVE  LET stored == (digit - h) % UIntLimit
         IN  Signed(stored) = digit - h /\ (stored + h) % (2 * h) = digit
  <1>1. UIntLimit \in Nat \ {0} /\ 2 * h <= UIntLimit
    <2>1. m * (2 * h) >= 2 * h BY SMT
    <2> QED BY <2>1, DigitsAssumption
  <1>2. PICK stored \in Int : stored = (digit - h) % UIntLimit
    BY <1>1, Remainder
  <1>3. CASE digit >= h
    <2>1. digit - h \in 0..(UIntLimit - 1) BY <1>1, <1>3
    <2>2. stored = digit - h BY <1>1, <1>2, <2>1, RemainderOfSmall
    <2>3. ~(2 * stored >= UIntLimit) BY <1>1, <2>2
    <2>4. stored + h = digit /\ 2 * h \in Nat \ {0} BY <2>2
    <2>5. (stored + h) % (2 * h) = digit BY <2>4, RemainderOfSmall
    <2> QED BY <1>2, <2>2, <2>3, <2>5 DEF Signed
  <1>4. CASE digit < h
    <2>1. /\ digit - h + UIntLimit \in 0..(UIntLimit - 1)
          /\ digit - h = (-1) * UIntLimit + (digit - h + UIntLimit)
          /\ -1 \in Int /\ digit - h \in Int
      BY <1>1, <1>4
    <2>2. stored = digit - h + UIntLimit BY <1>1, <1>2, <2>1, RemainderIs
    <2>3. 2 * stored >= UIntLimit /\ stored - UIntLimit = digit - h BY <1>1, <2>2
    <2>4. stored + h = m * (2 * h) + digit /\ 2 * h \in Nat \ {0} BY <1>1, <2>2
    <2>5. (stored + h) % (2 * h) = digit
      <3>1. PICK b \in Nat \ {0} : b = 2 * h BY <2>4
      <3>2. PICK x \in Int : x = stored + h OBVIOUS
      <3>3. digit \in 0..(b - 1) /\ m \in Int /\ x = m * b + digit BY <2>4, <3>1, <3>2
      <3>4. x % b = digit BY <3>3, RemainderIs, Zenon
      <3> QED BY <3>1, <3>2, <3>4
    <2> QED BY <1>2, <2>3, <2>5 DEF Signed
  <1> QED BY <1>3, <1>4

(* A number that went round to rest, off by what rounding adds and cutting *)
(* takes, is near what it was.                                             *)
LEMMA RoundedIsNear ==
  ASSUME NEW d, Decomposition(d), NEW v \in Int, NEW w \in Int, NEW x \in Int, NEW k \in Int,
         x = v + Round(d) - (w % Place(d, d.len)) + k * pow2[d.qbit]
  PROVE  Near(pow2[d.qbit], x, v, Round(d))
  <1>1. PICK rest \in Nat \ {0}, round \in Nat, q \in Nat \ {0} :
          /\ rest = Place(d, d.len) /\ round = Round(d) /\ q = pow2[d.qbit]
          /\ rest - 1 - round <= round /\ round < q
    BY RoundOf, PowersOfTwo DEF Decomposition, FitsTorus
  <1>2. PICK e \in Int : e = round - (w % rest)
    <2>1. w % rest \in 0..(rest - 1) BY Remainder
    <2>2. round - (w % rest) \in Int BY <2>1
    <2> QED BY <2>2, Zenon
  <1>3. e \in -round..round
    <2>1. w % rest \in 0..(rest - 1) BY Remainder
    <2> QED BY <1>1, <1>2, <2>1
  <1>4. x - v = k * q + e
    <2>1. k * q \in Int /\ w % rest \in Int
      <3>1. w % rest \in 0..(rest - 1) BY Remainder
      <3> QED BY <3>1
    <2> QED BY <1>1, <1>2, <2>1
  <1>5. Near(q, x, v, round) BY <1>1, <1>3, <1>4, NearFrom
  <1> QED BY <1>1, <1>5

LEMMA SideBySideTyped ==
  ASSUME NEW d, FitsTorus(d), NEW x \in [Places(d) -> Int], NEW y \in [Places(d) -> Int]
  PROVE  /\ SideBySide(d, x) \in Int /\ SideBySide(d, y) \in Int
         /\ SideBySide(d, [j \in Places(d) |-> x[j] - y[j]])
              = SideBySide(d, x) - SideBySide(d, y)
  <1>1. PICK len \in Nat : len = d.len /\ Places(d) = 0..(len - 1)
    BY DEF FitsTorus, Places
  <1>2. \A j \in Places(d) : pow2[Shift(d, j)] \in Int BY PlacesOf
  <1> DEFINE Placed(z) == [j \in Places(d) |-> z[j] * pow2[Shift(d, j)]]
  <1>3. ASSUME NEW z \in [Places(d) -> Int] PROVE Placed(z) \in [0..(len - 1) -> Int]
    <2>1. ASSUME NEW j \in Places(d) PROVE z[j] * pow2[Shift(d, j)] \in Int BY <1>2
    <2> QED BY <1>1, <2>1
  <1>4. PICK f \in [0..(len - 1) -> Int], g \in [0..(len - 1) -> Int] :
          f = Placed(x) /\ g = Placed(y)
    BY <1>3
  <1>5. Placed([j \in Places(d) |-> x[j] - y[j]]) = [j \in 0..(len - 1) |-> f[j] - g[j]]
    <2> SUFFICES ASSUME NEW j \in Places(d)
                 PROVE  (x[j] - y[j]) * pow2[Shift(d, j)] = f[j] - g[j]
      BY <1>1
    <2>1. PICK unit \in Int : unit = pow2[Shift(d, j)] BY <1>2
    <2>2. (x[j] - y[j]) * unit = x[j] * unit - y[j] * unit
      <3>1. x[j] \in Int /\ y[j] \in Int OBVIOUS
      <3> QED BY <3>1
    <2> QED BY <1>4, <2>1, <2>2
  <1>6. /\ Sum(f, len) \in Int /\ Sum(g, len) \in Int
        /\ Sum([j \in 0..(len - 1) |-> f[j] - g[j]], len) = Sum(f, len) - Sum(g, len)
    BY SumOfDifferences
  <1>7. /\ SideBySide(d, x) = Sum(f, len) /\ SideBySide(d, y) = Sum(g, len)
        /\ SideBySide(d, [j \in Places(d) |-> x[j] - y[j]])
             = Sum(Placed([j \in Places(d) |-> x[j] - y[j]]), len)
    BY <1>1, <1>4 DEF SideBySide
  <1> QED BY <1>5, <1>6, <1>7

(* The digits balanced_decompose takes from v, before half a base is taken *)
(* from each; w is v with the offset and the rounding added.               *)
LEMMA BalancedNear ==
  ASSUME NEW d, Decomposition(d), NEW v \in 0..(pow2[d.qbit] - 1)
  PROVE  LET balanced == DigitsOf(d, balanced_decompose, v)
         IN  /\ \A j \in Places(d) :
                  Signed(balanced[j]) \in -(BaseOf(d) \div 2)..(BaseOf(d) \div 2 - 1)
             /\ Near(pow2[d.qbit], Recomposed(d, balanced), v, Round(d))
             /\ Near(pow2[d.qbit], balanced_reconstruct(d, balanced), v, Round(d))
  <1> DEFINE balanced == DigitsOf(d, balanced_decompose, v)
             half == [j \in Places(d) |-> BaseOf(d) \div 2]
             w == Wrap(v + Offset(d) + Round(d))
             digit == [j \in Places(d) |-> (w \div pow2[Shift(d, j)]) % BaseOf(d)]
             unsigned == [j \in Places(d) |-> (balanced[j] + BaseOf(d) \div 2) % BaseOf(d)]
             signed == [j \in Places(d) |-> Signed(balanced[j])]
  <1>1. PICK h \in Nat \ {0}, m \in Nat \ {0} :
          BaseOf(d) = 2 * h /\ BaseOf(d) \div 2 = h /\ UIntLimit = m * (2 * h)
    BY BaseIsEven
  <1>2. PICK q \in Nat \ {0} : q = pow2[d.qbit] /\ FitsWord(q)
    BY PowersOfTwo DEF Decomposition, FitsTorus
  <1>3. FitsTorus(d) /\ v \in Int /\ Round(d) \in Int
    BY <1>2, RoundOf DEF Decomposition
  <1>4. half \in [Places(d) -> Int] BY <1>1
  <1>5. PICK o \in Int : o = SideBySide(d, half)
    BY <1>3, <1>4, SideBySideTyped
  <1>6. PICK offset \in Int, k0 \in Int : offset = Offset(d) /\ offset = o + k0 * q
    <2>1. Offset(d) = Wrap(o) BY <1>5 DEF Offset
    <2>2. Wrap(o) \in Nat /\ \E k \in Int : Wrap(o) = o + k * q BY <1>2, LosesTurns
    <2> QED BY <2>1, <2>2
  <1>7. PICK ww \in Int, k1 \in Int : ww = w /\ ww = v + offset + Round(d) + k1 * q
    <2>1. v + offset + Round(d) \in Int BY <1>3
    <2>2. /\ Wrap(v + offset + Round(d)) \in Nat
          /\ \E k \in Int : Wrap(v + offset + Round(d)) = v + offset + Round(d) + k * q
      BY <1>2, <2>1, LosesTurns
    <2>3. w = Wrap(v + offset + Round(d)) BY <1>6
    <2> HIDE DEF w
    <2>4. w \in Int /\ \E k \in Int : w = v + offset + Round(d) + k * q BY <2>2, <2>3
    <2> QED BY <2>4
  <1>8. PICK k2 \in Int : ww % q = ww + k2 * q BY <1>2, LosesTurns
  <1> HIDE DEF w
  <1>9. /\ \A j \in Places(d) : digit[j] \in 0..(2 * h - 1)
        /\ SideBySide(d, digit) = (ww % q) - (ww % Place(d, d.len))
    BY <1>1, <1>2, <1>3, <1>7, CutDigits
  <1>10. ASSUME NEW j \in Places(d)
         PROVE  Signed(balanced[j]) = digit[j] - half[j] /\ unsigned[j] = digit[j]
    <2>1. balanced[j] = (digit[j] - h) % UIntLimit
      BY <1>1 DEF DigitsOf, balanced_decompose, w
    <2>2. PICK one \in 0..(2 * h - 1) : one = digit[j]
      <3> HIDE DEF digit
      <3> QED BY <1>9
    <2> HIDE DEF digit
    <2>3. Signed(balanced[j]) = one - h /\ (balanced[j] + h) % (2 * h) = one
      <3> HIDE DEF balanced
      <3>1. balanced[j] = (one - h) % UIntLimit BY <2>1, <2>2
      <3>2. /\ Signed((one - h) % UIntLimit) = one - h
            /\ (((one - h) % UIntLimit) + h) % (2 * h) = one
        BY <1>1, DigitStored, Zenon
      <3> QED BY <3>1, <3>2
    <2> HIDE DEF balanced
    <2> QED BY <1>1, <2>2, <2>3
  <1>11. signed = [j \in Places(d) |-> digit[j] - half[j]] /\ unsigned = digit
    <2>1. \A j \in Places(d) : signed[j] = digit[j] - half[j] /\ unsigned[j] = digit[j]
      BY <1>10
    <2> HIDE DEF balanced, half
    <2> QED BY <2>1
  <1>12. PICK total \in Int, last \in Int :
           /\ total = SideBySide(d, digit)
           /\ last = ww % Place(d, d.len)
           /\ total = v + offset + Round(d) - last + (k1 + k2) * q
    <2>1. PICK rest \in Nat \ {0} : rest = Place(d, d.len) BY <1>3, RoundOf
    <2>2. ww % rest \in 0..(rest - 1) BY Remainder
    <2>3. (k1 + k2) * q = k1 * q + k2 * q /\ k1 * q \in Int /\ k2 * q \in Int BY SMT
    <2>4. PICK last \in Int : last = ww % rest BY <2>2
    <2>5. (ww % q) - last = v + offset + Round(d) - last + (k1 + k2) * q
      BY <1>3, <1>7, <1>8, <2>3, <2>4
    <2>6. (ww % q) - last \in Int BY <1>8
    <2> QED BY <1>9, <2>1, <2>4, <2>5, <2>6
  <1>13. Recomposed(d, balanced) = total - o
    <2>1. digit \in [Places(d) -> Int]
      <3> HIDE DEF digit
      <3>1. digit = [j \in Places(d) |-> digit[j]] BY DEF digit
      <3> QED BY <1>9, <3>1
    <2>2. Recomposed(d, balanced) = SideBySide(d, signed) BY DEF Recomposed
    <2> HIDE DEF balanced, half, signed, digit
    <2> QED BY <1>3, <1>4, <1>5, <1>11, <1>12, <2>1, <2>2, SideBySideTyped
  <1>14. PICK k3 \in Int : balanced_reconstruct(d, balanced) = total - offset + k3 * q
    <2>1. \E k \in Int : Wrap(total - offset) % q = total - offset + k * q
      BY <1>2, LosesTurns
    <2>2. balanced_reconstruct(d, balanced) = Wrap(SideBySide(d, unsigned) - Offset(d)) % q
      BY <1>2 DEF balanced_reconstruct, ModTorus
    <2> HIDE DEF balanced, unsigned, digit
    <2> QED BY <1>6, <1>11, <1>12, <2>1, <2>2
  <1>15. Near(q, total - o, v, Round(d))
    <2>1. /\ (k0 + (k1 + k2)) * q = k0 * q + (k1 + k2) * q
          /\ k0 * q \in Int /\ (k1 + k2) * q \in Int
      BY SMT
    <2>2. total - o = v + Round(d) - last + (k0 + (k1 + k2)) * q
      BY <1>3, <1>6, <1>12, <2>1
    <2> QED BY <1>2, <1>3, <1>12, <2>2, RoundedIsNear
  <1>16. Near(q, total - offset + k3 * q, v, Round(d))
    <2>1. /\ ((k1 + k2) + k3) * q = (k1 + k2) * q + k3 * q
          /\ (k1 + k2) * q \in Int /\ k3 * q \in Int
      BY SMT
    <2>2. total - offset + k3 * q = v + Round(d) - last + ((k1 + k2) + k3) * q
      BY <1>3, <1>12, <2>1
    <2>3. PICK x \in Int, k \in Int :
            /\ x = total - offset + k3 * q
            /\ x = v + Round(d) - last + k * q
      <3>1. (k1 + k2) + k3 \in Int /\ total - offset + k3 * q \in Int BY <2>1
      <3> QED BY <2>2, <3>1, Zenon
    <2>4. x = v + Round(d) - (ww % Place(d, d.len)) + k * pow2[d.qbit]
      BY <1>2, <1>12, <2>3
    <2>5. Near(pow2[d.qbit], x, v, Round(d)) BY <1>3, <2>4, RoundedIsNear
    <2> QED BY <1>2, <2>3, <2>5
  <1>17. \A j \in Places(d) :
           Signed(balanced[j]) \in -(BaseOf(d) \div 2)..(BaseOf(d) \div 2 - 1)
    <2> HIDE DEF balanced, digit
    <2> QED BY <1>1, <1>9, <1>10
  <1> HIDE DEF balanced
  <1>18. /\ \A j \in Places(d) :
              Signed(balanced[j]) \in -(BaseOf(d) \div 2)..(BaseOf(d) \div 2 - 1)
         /\ Near(pow2[d.qbit], Recomposed(d, balanced), v, Round(d))
         /\ Near(pow2[d.qbit], balanced_reconstruct(d, balanced), v, Round(d))
    BY <1>2, <1>13, <1>14, <1>15, <1>16, <1>17
  <1> QED BY <1>18 DEF balanced

(* The digits of a key switch: rounded like balanced ones, but unsigned.   *)
LEMMA SwitchedNear ==
  ASSUME NEW d, Decomposition(d), NEW v \in 0..(pow2[d.qbit] - 1)
  PROVE  Near(pow2[d.qbit], unsigned_reconstruct(d, DigitsOf(d, switch_decompose, v)),
              v, Round(d))
  <1> DEFINE w == Wrap(v + Round(d))
             digit == [j \in Places(d) |-> (w \div pow2[Shift(d, j)]) % BaseOf(d)]
  <1>1. PICK q \in Nat \ {0} : q = pow2[d.qbit] /\ FitsWord(q)
    BY PowersOfTwo DEF Decomposition, FitsTorus
  <1>2. FitsTorus(d) /\ v \in Int /\ Round(d) \in Int
    BY <1>1, RoundOf DEF Decomposition
  <1>3. PICK ww \in Int, k1 \in Int : ww = w /\ ww = v + Round(d) + k1 * q
    <2>1. v + Round(d) \in Int BY <1>2
    <2>2. w \in Nat /\ \E k \in Int : w = v + Round(d) + k * q
      BY <1>1, <2>1, LosesTurns
    <2> HIDE DEF w
    <2>3. w \in Int BY <2>2
    <2> QED BY <2>2, <2>3
  <1> HIDE DEF w
  <1>4. PICK k2 \in Int : ww % q = ww + k2 * q BY <1>1, LosesTurns
  <1>5. SideBySide(d, digit) = (ww % q) - (ww % Place(d, d.len))
    BY <1>1, <1>2, <1>3, CutDigits
  <1>6. DigitsOf(d, switch_decompose, v) = digit
    BY DEF DigitsOf, switch_decompose, w
  <1>7. PICK total \in Int, last \in Int :
          /\ total = SideBySide(d, digit)
          /\ last = ww % Place(d, d.len)
          /\ total = ww + k2 * q - last
    <2>1. PICK rest \in Nat \ {0} : rest = Place(d, d.len) BY <1>2, RoundOf
    <2>2. ww % rest \in 0..(rest - 1) BY Remainder
    <2>3. PICK last \in Int : last = ww % rest BY <2>2
    <2>4. k2 * q \in Int OBVIOUS
    <2>5. (ww % q) - last = ww + k2 * q - last /\ (ww % q) - last \in Int
      BY <1>4, <2>3, <2>4
    <2> QED BY <1>5, <2>1, <2>3, <2>5
  <1> HIDE DEF digit
  <1>8. PICK k3 \in Int : unsigned_reconstruct(d, digit) = total + k3 * q
    <2>1. \E k \in Int : Wrap(total) % q = total + k * q BY <1>1, LosesTurns
    <2> QED BY <1>1, <1>7, <2>1 DEF unsigned_reconstruct, ModTorus
  <1>9. PICK x \in Int, k \in Int :
          /\ x = total + k3 * q
          /\ x = v + Round(d) - last + k * q
    <2>1. /\ ((k1 + k2) + k3) * q = k1 * q + k2 * q + k3 * q
          /\ k1 * q \in Int /\ k2 * q \in Int /\ k3 * q \in Int
          /\ (k1 + k2) + k3 \in Int
      BY SMT
    <2>2. /\ total + k3 * q = v + Round(d) - last + ((k1 + k2) + k3) * q
          /\ total + k3 * q \in Int
      BY <1>2, <1>3, <1>7, <2>1
    <2> QED BY <2>1, <2>2, Zenon
  <1>10. Near(pow2[d.qbit], x, v, Round(d))
    <2>1. x = v + Round(d) - (ww % Place(d, d.len)) + k * pow2[d.qbit]
      BY <1>1, <1>7, <1>9
    <2> QED BY <1>2, <2>1, RoundedIsNear
  <1> QED BY <1>6, <1>8, <1>9, <1>10

(* Classical digits only cut off. *)
LEMMA ClassicalCuts ==
  ASSUME NEW d, Decomposition(d), NEW v \in 0..(pow2[d.qbit] - 1)
  PROVE  LET cut == unsigned_reconstruct(d, DigitsOf(d, classical_decompose, v))
         IN  cut <= v /\ v - cut < pow2[d.qbit - d.bits * d.len]
  <1> DEFINE digit == [j \in Places(d) |-> (v \div pow2[Shift(d, j)]) % BaseOf(d)]
  <1>1. PICK q \in Nat \ {0} : q = pow2[d.qbit] /\ FitsWord(q)
    BY PowersOfTwo DEF Decomposition, FitsTorus
  <1>2. FitsTorus(d) /\ v \in Int /\ v \in Nat /\ v \in 0..(q - 1) BY <1>1 DEF Decomposition
  <1>3. PICK rest \in Nat \ {0} :
          rest = Place(d, d.len) /\ rest = pow2[d.qbit - d.bits * d.len]
    BY <1>2, PlacesOf, RoundOf
  <1>4. SideBySide(d, digit) = (v % q) - (v % rest) BY <1>1, <1>2, <1>3, CutDigits
  <1>5. v % q = v BY <1>2, RemainderOfSmall
  <1>6. PICK last \in Nat : last = v % rest /\ last < rest /\ last <= v
    <2>1. v % rest \in 0..(rest - 1) BY <1>2, Remainder, Zenon
    <2>2. v % rest <= v
      <3>1. CASE v < rest
        <4>1. v \in 0..(rest - 1) BY <1>2, <3>1
        <4>2. v % rest = v BY <4>1, RemainderOfSmall
        <4> QED BY <1>2, <4>2
      <3>2. CASE ~(v < rest)
        BY <1>2, <2>1, <3>2
      <3> QED BY <3>1, <3>2
    <2> QED BY <2>1, <2>2
  <1>7. PICK cut \in Nat : cut = v - last /\ cut \in 0..(q - 1) /\ cut \in Word
    <2>1. q <= Limit
      <3>1. PICK turns \in 1..Limit : Limit = turns * q BY <1>1 DEF FitsWord
      <3> QED BY <3>1, WordsAssumption, SMT
    <2>2. v - last \in 0..(q - 1) BY <1>2, <1>6
    <2>3. v - last \in Nat /\ v - last \in Word BY <2>1, <2>2, WordsAssumption DEF Word
    <2> QED BY <2>2, <2>3, Zenon
  <1>8. SideBySide(d, digit) = cut BY <1>2, <1>4, <1>5, <1>6, <1>7
  <1> HIDE DEF digit
  <1>9. unsigned_reconstruct(d, digit) = cut
    <2>1. Wrap(cut) = cut /\ cut % q = cut BY <1>7, WordIsItself, RemainderOfSmall
    <2> QED BY <1>1, <1>8, <2>1 DEF unsigned_reconstruct, ModTorus
  <1>10. DigitsOf(d, classical_decompose, v) = digit
    BY DEF DigitsOf, classical_decompose, digit
  <1>11. cut <= v /\ v - cut < rest BY <1>2, <1>6, <1>7
  <1> QED BY <1>3, <1>9, <1>10, <1>11

(* Gadget decompositions and key switches, of any torus a word holds a     *)
(* whole number of turns of, with or without a rest that the digits leave  *)
(* out: the digits of every kind stand for their value, and putting them   *)
(* together again gives it back, both up to the rounding.                  *)
THEOREM DigitsStand ==
  ASSUME NEW d, FitsTorus(d), FitsUInt(d), FitsWord(pow2[d.qbit]),
         NEW v \in 0..(pow2[d.qbit] - 1)
  PROVE  StandFor(d, v, DigitsOf(d, balanced_decompose, v),
                        DigitsOf(d, switch_decompose, v),
                        DigitsOf(d, classical_decompose, v))
  <1>1. Decomposition(d) BY DEF Decomposition
  <1> QED BY <1>1, BalancedNear, SwitchedNear, ClassicalCuts DEF StandFor

-----------------------------------------------------------------------------
(* The circle.  Exact sums stand for what words make of them.              *)

(* x and y are at most bound apart on the circle of Q. *)
Within(x, y, bound) == \E k \in Int : x - y - k * Q \in (-bound)..bound

LEMMA TorusSize == Q \in Nat \ {0} /\ FitsWord(Q) /\ N \in Nat \ {0}
  BY CiphertextsAssumption DEF FitsWord

LEMMA WithinItself ==
  ASSUME NEW x \in Int
  PROVE  Within(x, x, 0)
  <1>1. x - x - 0 * Q \in (-0)..0 BY TorusSize
  <1> QED BY <1>1 DEF Within

LEMMA WithinMore ==
  ASSUME NEW x \in Int, NEW y \in Int, NEW b \in Nat, NEW c \in Nat, b <= c,
         Within(x, y, b)
  PROVE  Within(x, y, c)
  <1>1. PICK k \in Int : x - y - k * Q \in (-b)..b BY DEF Within
  <1>2. x - y - k * Q \in (-c)..c BY <1>1
  <1> QED BY <1>2 DEF Within

(* Sums and differences of numbers are as far apart as the numbers are     *)
(* together.                                                               *)
LEMMA WithinSum ==
  ASSUME NEW x \in Int, NEW y \in Int, NEW b \in Nat, Within(x, y, b),
         NEW z \in Int, NEW w \in Int, NEW c \in Nat, Within(z, w, c)
  PROVE  Within(x + z, y + w, b + c) /\ Within(x - z, y - w, b + c)
  <1>1. PICK q \in Nat : q = Q BY TorusSize
  <1>2. PICK k \in Int, kq \in Int : kq = k * q /\ x - y - kq \in (-b)..b
    <2>1. PICK k \in Int : x - y - k * q \in (-b)..b BY <1>1 DEF Within
    <2>2. k * q \in Int OBVIOUS
    <2> QED BY <2>1, <2>2, Zenon
  <1>3. PICK h \in Int, hq \in Int : hq = h * q /\ z - w - hq \in (-c)..c
    <2>1. PICK h \in Int : z - w - h * q \in (-c)..c BY <1>1 DEF Within
    <2>2. h * q \in Int OBVIOUS
    <2> QED BY <2>1, <2>2, Zenon
  <1>4. (k + h) * q = kq + hq /\ (k - h) * q = kq - hq
    <2>1. (k + h) * q = k * q + h * q BY SMT
    <2>2. (k - h) * q = k * q - h * q BY SMT
    <2> QED BY <1>2, <1>3, <2>1, <2>2
  <1>5. (x + z) - (y + w) - (kq + hq) \in (-(b + c))..(b + c) BY <1>2, <1>3
  <1>6. (x - z) - (y - w) - (kq - hq) \in (-(b + c))..(b + c) BY <1>2, <1>3
  <1>7. Within(x + z, y + w, b + c)
    <2>1. (x + z) - (y + w) - (k + h) * Q \in (-(b + c))..(b + c) BY <1>1, <1>4, <1>5
    <2>2. k + h \in Int OBVIOUS
    <2> QED BY <2>1, <2>2, Zenon DEF Within
  <1>8. Within(x - z, y - w, b + c)
    <2>1. (x - z) - (y - w) - (k - h) * Q \in (-(b + c))..(b + c) BY <1>1, <1>4, <1>6
    <2>2. k - h \in Int OBVIOUS
    <2> QED BY <2>1, <2>2, Zenon DEF Within
  <1> QED BY <1>7, <1>8

LEMMA WithinBack ==
  ASSUME NEW x \in Int, NEW y \in Int, NEW b \in Nat, Within(x, y, b)
  PROVE  Within(y, x, b)
  <1>1. PICK q \in Nat : q = Q BY TorusSize
  <1>2. PICK k \in Int, kq \in Int : kq = k * q /\ x - y - kq \in (-b)..b
    <2>1. PICK k \in Int : x - y - k * q \in (-b)..b BY <1>1 DEF Within
    <2>2. k * q \in Int OBVIOUS
    <2> QED BY <2>1, <2>2, Zenon
  <1>3. (-k) * q = -kq BY <1>2, SMT
  <1>4. y - x - (-k) * Q \in (-b)..b BY <1>1, <1>2, <1>3
  <1>5. -k \in Int OBVIOUS
  <1> QED BY <1>4, <1>5, Zenon DEF Within

LEMMA WithinTwo ==
  ASSUME NEW x \in Int, NEW y \in Int, NEW z \in Int, NEW b \in Nat, NEW c \in Nat,
         Within(x, y, b), Within(y, z, c)
  PROVE  Within(x, z, b + c)
  <1>1. PICK q \in Nat : q = Q BY TorusSize
  <1>2. PICK k \in Int, kq \in Int : kq = k * q /\ x - y - kq \in (-b)..b
    <2>1. PICK k \in Int : x - y - k * q \in (-b)..b BY <1>1 DEF Within
    <2>2. k * q \in Int OBVIOUS
    <2> QED BY <2>1, <2>2, Zenon
  <1>3. PICK h \in Int, hq \in Int : hq = h * q /\ y - z - hq \in (-c)..c
    <2>1. PICK h \in Int : y - z - h * q \in (-c)..c BY <1>1 DEF Within
    <2>2. h * q \in Int OBVIOUS
    <2> QED BY <2>1, <2>2, Zenon
  <1>4. (k + h) * q = kq + hq
    <2>1. (k + h) * q = k * q + h * q BY SMT
    <2> QED BY <1>2, <1>3, <2>1
  <1>5. x - z - (k + h) * Q \in (-(b + c))..(b + c) BY <1>1, <1>2, <1>3, <1>4
  <1>6. k + h \in Int OBVIOUS
  <1> QED BY <1>5, <1>6, Zenon DEF Within

(* Wrapping and reducing move nothing on the circle. *)
LEMMA WithinMod ==
  ASSUME NEW x \in Int
  PROVE  /\ x % Q \in 0..(Q - 1) /\ Within(x % Q, x, 0)
         /\ Wrap(x) % Q = x % Q
  <1>1. PICK q \in Nat \ {0} : q = Q /\ FitsWord(q) BY TorusSize
  <1>2. x % q \in 0..(q - 1) BY Remainder
  <1>3. PICK k \in Int : x % q = x + k * q BY <1>1, LosesTurns
  <1>4. (x % q) - x - k * q \in (-0)..0
    <2>1. k * q \in Int OBVIOUS
    <2> QED BY <1>2, <1>3, <2>1
  <1>5. Wrap(x) % q = x % q BY <1>1, WrapKeepsTurn
  <1> QED BY <1>1, <1>2, <1>4, <1>5 DEF Within

LEMMA TimesBounded ==
  ASSUME NEW h \in Nat, NEW u \in (-h)..h, NEW b \in Nat, NEW e \in (-b)..b
  PROVE  u * e \in (-(h * b))..(h * b) /\ h * b \in Nat
  <1>1. PICK v \in Nat, f \in Nat :
          v <= h /\ f <= b /\ (u = v \/ u = -v) /\ (e = f \/ e = -f)
    <2>1. \E v \in Nat : v <= h /\ (u = v \/ u = -v)
      <3>1. u >= 0 => u \in Nat /\ u <= h OBVIOUS
      <3>2. ~(u >= 0) => -u \in Nat /\ -u <= h /\ u = -(-u) OBVIOUS
      <3> QED BY <3>1, <3>2
    <2>2. \E f \in Nat : f <= b /\ (e = f \/ e = -f)
      <3>1. e >= 0 => e \in Nat /\ e <= b OBVIOUS
      <3>2. ~(e >= 0) => -e \in Nat /\ -e <= b /\ e = -(-e) OBVIOUS
      <3> QED BY <3>1, <3>2
    <2> QED BY <2>1, <2>2
  <1>2. PICK g \in Nat, c \in Nat : h = v + g /\ b = f + c
    <2>1. h - v \in Nat /\ h = v + (h - v) /\ b - f \in Nat /\ b = f + (b - f) BY <1>1
    <2> QED BY <2>1
  <1>3. h * b = v * f + (v * c + g * (f + c))
    <2>1. (v + g) * (f + c) = v * (f + c) + g * (f + c) BY SMT
    <2>2. v * (f + c) = v * f + v * c BY SMT
    <2>3. v * f \in Int /\ v * c \in Int /\ g * (f + c) \in Int BY SMT
    <2> QED BY <1>2, <2>1, <2>2, <2>3
  <1>4. v * f \in Nat /\ v * c \in Nat /\ g * (f + c) \in Nat BY SMT
  <1>5. u * e = v * f \/ u * e = -(v * f)
    <2>1. (-v) * f = -(v * f) /\ v * (-f) = -(v * f) /\ (-v) * (-f) = v * f BY SMT
    <2> QED BY <1>1, <2>1
  <1> QED BY <1>3, <1>4, <1>5

(* A small factor moves two numbers that many times as far apart. *)
LEMMA WithinTimes ==
  ASSUME NEW h \in Nat, NEW u \in (-h)..h,
         NEW x \in Int, NEW y \in Int, NEW b \in Nat, Within(x, y, b)
  PROVE  Within(u * x, u * y, h * b) /\ h * b \in Nat
  <1>1. PICK q \in Nat : q = Q BY TorusSize
  <1>2. PICK k \in Int : x - y - k * q \in (-b)..b BY <1>1 DEF Within
  <1>3. PICK e \in (-b)..b : x = y + k * q + e
    <2>1. k * q \in Int OBVIOUS
    <2>2. x = y + k * q + (x - y - k * q) BY <2>1
    <2> QED BY <1>2, <2>2
  <1>4. u * x = u * y + (u * k) * q + u * e
    <2>1. PICK kq \in Int : kq = k * q BY SMT
    <2>2. u * (y + kq + e) = u * y + u * kq + u * e BY SMT
    <2>3. u * (k * q) = (u * k) * q BY SMT
    <2> QED BY <1>3, <2>1, <2>2, <2>3
  <1>5. u * e \in (-(h * b))..(h * b) /\ h * b \in Nat BY TimesBounded
  <1>6. u * x - u * y - (u * k) * Q = u * e
    <2>1. u * y \in Int /\ (u * k) * q \in Int /\ u * e \in Int BY SMT
    <2> QED BY <1>1, <1>4, <2>1
  <1>7. u * k \in Int BY SMT
  <1> QED BY <1>5, <1>6, <1>7 DEF Within

LEMMA SumWithin ==
  ASSUME NEW m \in Nat, NEW f \in [0..(m - 1) -> Int], NEW g \in [0..(m - 1) -> Int],
         NEW b \in Nat, \A j \in 0..(m - 1) : Within(f[j], g[j], b)
  PROVE  Within(Sum(f, m), Sum(g, m), m * b) /\ m * b \in Nat
  <1>1. PICK s \in [0..m -> Int] :
          /\ s[0] = 0
          /\ \A j \in 0..(m - 1) : s[j + 1] = s[j] + f[j]
          /\ Sum(f, m) = s[m]
    BY SumSteps
  <1>2. PICK r \in [0..m -> Int] :
          /\ r[0] = 0
          /\ \A j \in 0..(m - 1) : r[j + 1] = r[j] + g[j]
          /\ Sum(g, m) = r[m]
    BY SumSteps
  <1> DEFINE S == {j \in Nat : j <= m => Within(s[j], r[j], j * b)}
  <1>3. 0 \in S
    <2>1. 0 * b = 0 OBVIOUS
    <2>2. Within(s[0], r[0], 0) BY <1>1, <1>2, WithinItself
    <2> QED BY <2>1, <2>2
  <1>4. ASSUME NEW j \in Nat, j \in S PROVE j + 1 \in S
    <2> SUFFICES ASSUME j + 1 <= m PROVE Within(s[j + 1], r[j + 1], (j + 1) * b)
      OBVIOUS
    <2>1. j \in 0..(m - 1) /\ j \in 0..m OBVIOUS
    <2>2. (j + 1) * b = j * b + b /\ j * b \in Nat
      <3>1. (j + 1) * b = j * b + 1 * b BY SMT
      <3> QED BY <3>1
    <2>3. Within(s[j], r[j], j * b) BY <1>4, <2>1
    <2>4. s[j] \in Int /\ r[j] \in Int /\ f[j] \in Int /\ g[j] \in Int BY <2>1
    <2>5. Within(f[j], g[j], b) BY <2>1
    <2>6. Within(s[j] + f[j], r[j] + g[j], j * b + b)
      BY <2>2, <2>3, <2>4, <2>5, WithinSum, Zenon
    <2> QED BY <1>1, <1>2, <2>1, <2>2, <2>6
  <1> HIDE DEF S
  <1>5. m \in S BY <1>3, <1>4, Induction
  <1>6. Within(s[m], r[m], m * b) BY <1>5 DEF S
  <1> QED BY <1>1, <1>2, <1>6

(* The sums of numbers that agree on the circle agree. *)
LEMMA SumSame ==
  ASSUME NEW m \in Nat, NEW f \in [0..(m - 1) -> Int], NEW g \in [0..(m - 1) -> Int],
         \A j \in 0..(m - 1) : Within(f[j], g[j], 0)
  PROVE  Within(Sum(f, m), Sum(g, m), 0)
  <1>1. m * 0 = 0 OBVIOUS
  <1>2. Within(Sum(f, m), Sum(g, m), m * 0) BY SumWithin
  <1> QED BY <1>1, <1>2

LEMMA NearIs ==
  ASSUME NEW x \in Int, NEW y \in Int, NEW b \in Nat
  PROVE  Within(x, y, b) <=> Near(Q, x, y, b)
  <1>1. PICK q \in Nat \ {0} : q = Q BY TorusSize
  <1>2. ASSUME Within(x, y, b) PROVE Near(q, x, y, b)
    <2>1. PICK k \in Int : x - y - k * q \in (-b)..b BY <1>1, <1>2 DEF Within
    <2>2. CASE b < q
      <3>1. PICK e \in (-b)..b : e = x - y - k * q BY <2>1
      <3>2. x - y = k * q + e
        <4>1. k * q \in Int OBVIOUS
        <4> QED BY <3>1, <4>1
      <3> QED BY <2>2, <3>2, NearFrom
    <2>3. CASE ~(b < q)
      <3>1. x - y \in Int OBVIOUS
      <3>2. (x - y) % q \in 0..(q - 1) BY <3>1, Remainder
      <3>3. (x - y) % q <= b BY <2>3, <3>2
      <3> QED BY <3>3 DEF Near
    <2> QED BY <2>2, <2>3
  <1>3. ASSUME NEW z \in Int, NEW w \in Int, (z - w) % q <= b
        PROVE  Within(z, w, b)
    <2>1. PICK d \in Int : d = z - w OBVIOUS
    <2>2. d % q \in 0..(q - 1) BY Remainder
    <2>3. PICK k \in Int : d = k * q + (d % q) BY Remainder
    <2>4. k * q \in Int OBVIOUS
    <2>5. d - k * q = d % q BY <2>2, <2>3, <2>4
    <2>6. d % q \in (-b)..b BY <1>3, <2>1, <2>2
    <2>7. z - w - k * Q \in (-b)..b BY <1>1, <2>1, <2>5, <2>6
    <2> QED BY <2>7 DEF Within
  <1>4. ASSUME Near(q, x, y, b) PROVE Within(x, y, b)
    <2>1. CASE (x - y) % q <= b BY <1>3, <2>1
    <2>2. CASE (y - x) % q <= b
      <3>1. Within(y, x, b) BY <1>3, <2>2
      <3> QED BY <3>1, WithinBack
    <2> QED BY <1>4, <2>1, <2>2 DEF Near
  <1> QED BY <1>1, <1>2, <1>4

-----------------------------------------------------------------------------
(* Inner products, what phases are made of.                                *)

Inner(m, s, x) == Sum([j \in 0..(m - 1) |-> s[j] * x[j]], m)

LEMMA InnerTyped ==
  ASSUME NEW m \in Nat, NEW s \in [0..(m - 1) -> Int], NEW x \in [0..(m - 1) -> Int]
  PROVE  /\ [j \in 0..(m - 1) |-> s[j] * x[j]] \in [0..(m - 1) -> Int]
         /\ Inner(m, s, x) \in Int
  <1>1. PICK f : f = [j \in 0..(m - 1) |-> s[j] * x[j]] OBVIOUS
  <1>2. ASSUME NEW j \in 0..(m - 1) PROVE s[j] * x[j] \in Int
    <2>1. s[j] \in Int /\ x[j] \in Int OBVIOUS
    <2> QED BY <2>1
  <1>3. f \in [0..(m - 1) -> Int] BY <1>1, <1>2
  <1>4. Sum(f, m) \in Int BY <1>3, SumInt
  <1> QED BY <1>1, <1>3, <1>4 DEF Inner

LEMMA TimesLinear ==
  ASSUME NEW s \in Int, NEW x \in Int, NEW c \in Int, NEW y \in Int
  PROVE  s * (x + c * y) = s * x + c * (s * y)
  <1>1. PICK z \in Int : z = c * y BY SMT
  <1>2. s * (x + z) = s * x + s * z BY Distributes
  <1>3. s * (c * y) = c * (s * y) BY SMT
  <1> QED BY <1>1, <1>2, <1>3

LEMMA InnerLinear ==
  ASSUME NEW m \in Nat, NEW s \in [0..(m - 1) -> Int],
         NEW x \in [0..(m - 1) -> Int], NEW y \in [0..(m - 1) -> Int], NEW c \in Int
  PROVE  Inner(m, s, [j \in 0..(m - 1) |-> x[j] + c * y[j]])
           = Inner(m, s, x) + c * Inner(m, s, y)
  <1>1. PICK f \in [0..(m - 1) -> Int], g \in [0..(m - 1) -> Int] :
          /\ f = [j \in 0..(m - 1) |-> s[j] * x[j]]
          /\ g = [j \in 0..(m - 1) |-> s[j] * y[j]]
    BY InnerTyped
  <1>2. Sum([j \in 0..(m - 1) |-> f[j] + c * g[j]], m) = Sum(f, m) + c * Sum(g, m)
    BY SumLinear
  <1>3. ASSUME NEW j \in 0..(m - 1)
        PROVE  s[j] * (x[j] + c * y[j]) = f[j] + c * g[j]
    <2>1. s[j] \in Int /\ x[j] \in Int /\ y[j] \in Int OBVIOUS
    <2>2. f[j] = s[j] * x[j] /\ g[j] = s[j] * y[j] BY <1>1
    <2> QED BY <2>1, <2>2, TimesLinear
  <1>4. [j \in 0..(m - 1) |-> s[j] * [k \in 0..(m - 1) |-> x[k] + c * y[k]][j]]
          = [j \in 0..(m - 1) |-> f[j] + c * g[j]]
    BY <1>3
  <1> QED BY <1>1, <1>2, <1>4 DEF Inner

LEMMA InnerWithin ==
  ASSUME NEW m \in Nat, NEW h \in Nat, NEW s \in [0..(m - 1) -> (-h)..h],
         NEW x \in [0..(m - 1) -> Int], NEW y \in [0..(m - 1) -> Int],
         NEW b \in Nat, \A j \in 0..(m - 1) : Within(x[j], y[j], b)
  PROVE  Within(Inner(m, s, x), Inner(m, s, y), m * (h * b)) /\ m * (h * b) \in Nat
  <1>1. s \in [0..(m - 1) -> Int] OBVIOUS
  <1>2. PICK f \in [0..(m - 1) -> Int], g \in [0..(m - 1) -> Int] :
          /\ f = [j \in 0..(m - 1) |-> s[j] * x[j]]
          /\ g = [j \in 0..(m - 1) |-> s[j] * y[j]]
    BY <1>1, InnerTyped
  <1>3. PICK hb \in Nat : hb = h * b BY SMT
  <1>4. ASSUME NEW j \in 0..(m - 1) PROVE Within(f[j], g[j], hb)
    <2>1. s[j] \in (-h)..h /\ x[j] \in Int /\ y[j] \in Int /\ Within(x[j], y[j], b) OBVIOUS
    <2>2. Within(s[j] * x[j], s[j] * y[j], h * b) BY <2>1, WithinTimes, Zenon
    <2> QED BY <1>2, <1>3, <2>2
  <1>5. Within(Sum(f, m), Sum(g, m), m * hb) /\ m * hb \in Nat BY <1>4, SumWithin
  <1> QED BY <1>2, <1>3, <1>5 DEF Inner

LEMMA InnerSame ==
  ASSUME NEW m \in Nat, NEW s \in [0..(m - 1) -> Int],
         NEW x \in [0..(m - 1) -> Int], NEW y \in [0..(m - 1) -> Int],
         \A j \in 0..(m - 1) : Within(x[j], y[j], 0)
  PROVE  Within(Inner(m, s, x), Inner(m, s, y), 0)
  <1>1. PICK f \in [0..(m - 1) -> Int], g \in [0..(m - 1) -> Int] :
          /\ f = [j \in 0..(m - 1) |-> s[j] * x[j]]
          /\ g = [j \in 0..(m - 1) |-> s[j] * y[j]]
    BY InnerTyped
  <1>2. ASSUME NEW j \in 0..(m - 1) PROVE Within(f[j], g[j], 0)
    <2>1. s[j] \in Int /\ x[j] \in Int /\ y[j] \in Int /\ Within(x[j], y[j], 0) OBVIOUS
    <2>2. PICK h \in Nat : s[j] \in (-h)..h
      <3>1. s[j] >= 0 => s[j] \in Nat /\ s[j] \in (-s[j])..s[j] BY <2>1
      <3>2. ~(s[j] >= 0) => -s[j] \in Nat /\ s[j] \in (-(-s[j]))..(-s[j]) BY <2>1
      <3> QED BY <3>1, <3>2
    <2>3. 0 \in Nat /\ h * 0 = 0 OBVIOUS
    <2>4. Within(s[j] * x[j], s[j] * y[j], h * 0) BY <2>1, <2>2, <2>3, WithinTimes, Zenon
    <2> QED BY <1>1, <2>3, <2>4
  <1>3. Within(Sum(f, m), Sum(g, m), 0) BY <1>2, SumSame
  <1> QED BY <1>1, <1>3 DEF Inner

-----------------------------------------------------------------------------
(* TLWE: a ciphertext's phase, exactly, and what is done to it.            *)

Torus == 0..(Q - 1)

TLWEs == [a : [0..(n - 1) -> Torus], b : Torus]

TLWEPhase(s, c) == c.b - Inner(n, s, c.a)

LEMMA Sizes ==
  /\ n \in Nat \ {0} /\ l \in Nat \ {0} /\ t \in Nat \ {0} /\ qbit \in Nat
  /\ Bbit \in Nat \ {0} /\ Kbit \in Nat \ {0}
  /\ Bbit * l <= qbit /\ Kbit * t <= qbit
  /\ Decomposition(gadget) /\ Decomposition(switch)
  <1>1. \A d \in {gadget, switch} : Decomposition(d)
    BY BootstrapRoundAssumption DEF Decomposition
  <1>2. /\ gadget.qbit = qbit /\ gadget.bits = Bbit /\ gadget.len = l
        /\ switch.qbit = qbit /\ switch.bits = Kbit /\ switch.len = t
    BY DEF gadget, switch
  <1> QED BY <1>1, <1>2, BootstrapRoundAssumption DEF Decomposition, FitsTorus

LEMMA TorusOps ==
  ASSUME NEW x \in Int, NEW y \in Int
  PROVE  /\ ModTorusAdd(Q, x, y) \in Torus /\ Within(ModTorusAdd(Q, x, y), x + y, 0)
         /\ ModTorusSub(Q, x, y) \in Torus /\ Within(ModTorusSub(Q, x, y), x - y, 0)
         /\ ModTorusScale(Q, x, y) \in Torus /\ Within(ModTorusScale(Q, x, y), x * y, 0)
         /\ Torus \subseteq Int
  <1>1. x + y \in Int /\ x - y \in Int /\ x * y \in Int BY SMT
  <1>2. Torus \subseteq Int BY TorusSize DEF Torus
  <1> QED BY <1>1, <1>2, WithinMod DEF ModTorusAdd, ModTorusSub, ModTorusScale, Torus

LEMMA Reduced ==
  ASSUME NEW x \in Int
  PROVE  x % Q \in Torus /\ x % Q \in Int /\ Within(x % Q, x, 0)
  <1>1. PICK y : y = x % Q OBVIOUS
  <1>2. y \in 0..(Q - 1) /\ Within(y, x, 0) BY <1>1, WithinMod
  <1>3. y \in Int BY <1>2, TorusSize
  <1> QED BY <1>1, <1>2, <1>3 DEF Torus

LEMMA TLWEDotIs ==
  ASSUME NEW s \in [0..(n - 1) -> Int], NEW a \in [0..(n - 1) -> Int]
  PROVE  TLWEDot(s, a) \in Int /\ Within(TLWEDot(s, a), Inner(n, s, a), 0)
  <1>1. n \in Nat /\ Cardinality(0..(n - 1)) = n BY Sizes, FS_Interval
  <1>2. PICK f \in [0..(n - 1) -> Int] :
          f = [j \in 0..(n - 1) |-> ModTorusScale(Q, s[j], a[j])]
    <2>1. ASSUME NEW j \in 0..(n - 1) PROVE ModTorusScale(Q, s[j], a[j]) \in Int
      <3>1. s[j] \in Int /\ a[j] \in Int OBVIOUS
      <3> QED BY <3>1, TorusOps
    <2>2. [j \in 0..(n - 1) |-> ModTorusScale(Q, s[j], a[j])] \in [0..(n - 1) -> Int]
      BY <2>1
    <2> QED BY <2>2
  <1>3. PICK g \in [0..(n - 1) -> Int] : g = [j \in 0..(n - 1) |-> s[j] * a[j]]
    BY <1>1, InnerTyped
  <1>4. ASSUME NEW j \in 0..(n - 1) PROVE Within(f[j], g[j], 0)
    <2>1. s[j] \in Int /\ a[j] \in Int OBVIOUS
    <2>2. f[j] = ModTorusScale(Q, s[j], a[j]) /\ g[j] = s[j] * a[j] BY <1>2, <1>3
    <2> QED BY <2>1, <2>2, TorusOps
  <1>5. Within(Sum(f, n), Sum(g, n), 0) BY <1>1, <1>4, SumSame
  <1>6. Sum(f, n) \in Int BY <1>1, SumInt
  <1>7. TLWEDot(s, a) = Sum(f, n) BY <1>1, <1>2 DEF TLWEDot
  <1> QED BY <1>3, <1>5, <1>6, <1>7 DEF Inner

LEMMA TLWETyped ==
  ASSUME NEW s \in [0..(n - 1) -> Int], NEW c \in TLWEs
  PROVE  /\ c.b \in Torus /\ c.b \in Int
         /\ c.a \in [0..(n - 1) -> Torus] /\ c.a \in [0..(n - 1) -> Int]
         /\ DOMAIN c.a = 0..(n - 1)
         /\ Inner(n, s, c.a) \in Int /\ TLWEPhase(s, c) \in Int
  <1>1. c.b \in Torus /\ c.a \in [0..(n - 1) -> Torus] BY DEF TLWEs
  <1>2. Torus \subseteq Int BY TorusSize DEF Torus
  <1>3. c.b \in Int /\ c.a \in [0..(n - 1) -> Int] BY <1>1, <1>2
  <1>4. Inner(n, s, c.a) \in Int BY <1>3, Sizes, InnerTyped
  <1> QED BY <1>1, <1>3, <1>4 DEF TLWEPhase

LEMMA TLWEDecryptIs ==
  ASSUME NEW s \in [0..(n - 1) -> Int], NEW c \in TLWEs
  PROVE  TLWEDecrypt(s, c) \in Torus /\ Within(TLWEDecrypt(s, c), TLWEPhase(s, c), 0)
  <1>1. PICK x \in Int, d \in Int, e \in Int :
          /\ x = c.b /\ d = TLWEDot(s, c.a) /\ e = Inner(n, s, c.a)
          /\ Within(d, e, 0)
    BY TLWETyped, TLWEDotIs
  <1>2. Within(x - d, x - e, 0)
    <2>1. Within(x, x, 0) BY WithinItself
    <2>2. 0 \in Nat /\ 0 + 0 = 0 OBVIOUS
    <2>3. Within(x - d, x - e, 0 + 0) BY <1>1, <2>1, <2>2, WithinSum, Zenon
    <2> QED BY <2>2, <2>3
  <1>3. PICK y \in Int, z \in Int : y = x - d /\ z = x - e OBVIOUS
  <1>4. y % Q \in Torus /\ y % Q \in Int /\ Within(y % Q, y, 0) BY Reduced
  <1>5. Within(y % Q, z, 0)
    <2>1. 0 \in Nat /\ 0 + 0 = 0 OBVIOUS
    <2> QED BY <1>2, <1>3, <1>4, <2>1, WithinTwo
  <1> QED BY <1>1, <1>3, <1>4, <1>5 DEF TLWEDecrypt, TLWEPhase

(* What is subtracted is subtracted of the phase. *)
LEMMA MinusScaled ==
  ASSUME NEW s \in [0..(n - 1) -> Int], NEW c \in TLWEs, NEW d \in TLWEs, NEW u \in Int
  PROVE  LET e == TLWESub(c, TLWEScale(u, d))
         IN  /\ e \in TLWEs
             /\ Within(TLWEPhase(s, e), TLWEPhase(s, c) - u * TLWEPhase(s, d), 0)
  <1> DEFINE e == TLWESub(c, TLWEScale(u, d))
             Minus(x, y) == ModTorusSub(Q, x, ModTorusScale(Q, u, y))
  <1>1. /\ c.a \in [0..(n - 1) -> Int] /\ d.a \in [0..(n - 1) -> Int]
        /\ DOMAIN c.a = 0..(n - 1) /\ DOMAIN d.a = 0..(n - 1)
        /\ c.b \in Int /\ d.b \in Int
    BY TLWETyped
  <1>2. e = [a |-> [j \in 0..(n - 1) |-> Minus(c.a[j], d.a[j])], b |-> Minus(c.b, d.b)]
    BY <1>1 DEF TLWESub, TLWEScale
  <1>3. ASSUME NEW x \in Int, NEW y \in Int
        PROVE  Minus(x, y) \in Torus /\ Within(Minus(x, y), x + (-u) * y, 0)
    <2>1. PICK uy \in Int, z \in Int :
            uy = u * y /\ z = ModTorusScale(Q, u, y) /\ Within(z, uy, 0)
      <3>1. u * y \in Int BY SMT
      <3> QED BY <3>1, TorusOps
    <2>2. Minus(x, y) \in Torus /\ Minus(x, y) \in Int /\ Within(Minus(x, y), x - z, 0)
      <3>1. ModTorusSub(Q, x, z) \in Torus /\ ModTorusSub(Q, x, z) \in Int
            /\ Within(ModTorusSub(Q, x, z), x - z, 0)
        BY TorusOps
      <3> QED BY <2>1, <3>1
    <2>3. 0 \in Nat /\ 0 + 0 = 0 OBVIOUS
    <2>4. Within(x - z, x - uy, 0) BY <2>1, <2>3, WithinItself, WithinSum
    <2>5. x - z \in Int /\ x - uy \in Int OBVIOUS
    <2> HIDE DEF Minus
    <2>6. Within(Minus(x, y), x - uy, 0) BY <2>2, <2>3, <2>4, <2>5, WithinTwo
    <2>7. x - uy = x + (-u) * y
      <3>1. (-u) * y = -(u * y) BY SMT
      <3> QED BY <2>1, <3>1
    <2> QED BY <2>2, <2>6, <2>7
  <1> HIDE DEF Minus
  <1>4. e.a \in [0..(n - 1) -> Torus] /\ e.b \in Torus /\ e \in TLWEs
    <2>1. \A j \in 0..(n - 1) : Minus(c.a[j], d.a[j]) \in Torus BY <1>1, <1>3
    <2>2. Minus(c.b, d.b) \in Torus BY <1>1, <1>3
    <2> QED BY <1>2, <2>1, <2>2 DEF TLWEs
  <1> HIDE DEF e
  <1>5. PICK f \in [0..(n - 1) -> Int] : f = [j \in 0..(n - 1) |-> c.a[j] + (-u) * d.a[j]]
    <2>1. ASSUME NEW j \in 0..(n - 1) PROVE c.a[j] + (-u) * d.a[j] \in Int
      <3>1. PICK x \in Int, y \in Int : x = c.a[j] /\ y = d.a[j] BY <1>1
      <3>2. x + (-u) * y \in Int BY SMT
      <3> QED BY <3>1, <3>2
    <2>2. [j \in 0..(n - 1) |-> c.a[j] + (-u) * d.a[j]] \in [0..(n - 1) -> Int] BY <2>1
    <2> QED BY <2>2
  <1>6. PICK x \in Int, y \in Int, z \in Int :
          /\ x = Inner(n, s, c.a) /\ y = Inner(n, s, d.a) /\ z = Inner(n, s, e.a)
          /\ Within(z, x + (-u) * y, 0)
    <2>1. /\ Inner(n, s, c.a) \in Int /\ Inner(n, s, d.a) \in Int
          /\ Inner(n, s, e.a) \in Int /\ e.a \in [0..(n - 1) -> Int]
      BY <1>4, TLWETyped
    <2>2. ASSUME NEW j \in 0..(n - 1) PROVE Within(e.a[j], f[j], 0)
      <3>1. e.a[j] = Minus(c.a[j], d.a[j]) /\ f[j] = c.a[j] + (-u) * d.a[j]
        BY <1>2, <1>5
      <3>2. c.a[j] \in Int /\ d.a[j] \in Int BY <1>1
      <3> QED BY <1>3, <3>1, <3>2
    <2>3. Within(Inner(n, s, e.a), Inner(n, s, f), 0) BY <2>1, <2>2, Sizes, InnerSame
    <2>4. Inner(n, s, f) = Inner(n, s, c.a) + (-u) * Inner(n, s, d.a)
      <3>1. -u \in Int /\ n \in Nat BY Sizes
      <3>2. PICK g \in [0..(n - 1) -> Int], h \in [0..(n - 1) -> Int] : g = c.a /\ h = d.a
        BY <1>1
      <3>3. Inner(n, s, [j \in 0..(n - 1) |-> g[j] + (-u) * h[j]])
              = Inner(n, s, g) + (-u) * Inner(n, s, h)
        BY <3>1, InnerLinear, Zenon
      <3> QED BY <1>5, <3>2, <3>3
    <2> QED BY <2>1, <2>3, <2>4
  <1>7. PICK bc \in Int, bd \in Int, be \in Int :
          /\ bc = c.b /\ bd = d.b /\ be = e.b /\ Within(be, bc + (-u) * bd, 0)
    <2>1. e.b \in Int BY <1>4, TLWETyped
    <2>2. e.b = Minus(c.b, d.b) BY <1>2
    <2> QED BY <1>1, <1>3, <2>1, <2>2
  <1>8. Within(be - z, (bc + (-u) * bd) - (x + (-u) * y), 0)
    <2>1. PICK b1 \in Int, b2 \in Int : b1 = bc + (-u) * bd /\ b2 = x + (-u) * y
      <3>1. bc + (-u) * bd \in Int /\ x + (-u) * y \in Int BY SMT
      <3> QED BY <3>1
    <2>2. 0 \in Nat /\ 0 + 0 = 0 OBVIOUS
    <2>3. Within(be, b1, 0) /\ Within(z, b2, 0) BY <1>6, <1>7, <2>1
    <2>4. Within(be - z, b1 - b2, 0) BY <2>2, <2>3, WithinSum
    <2> QED BY <2>1, <2>4
  <1>9. (bc + (-u) * bd) - (x + (-u) * y) = (bc - x) - u * (bd - y)
    <2>1. (-u) * bd = -(u * bd) /\ (-u) * y = -(u * y) BY SMT
    <2>2. u * (bd - y) = u * bd - u * y BY SMT
    <2>3. u * bd \in Int /\ u * y \in Int BY SMT
    <2> QED BY <2>1, <2>2, <2>3
  <1>10. Within(TLWEPhase(s, e), TLWEPhase(s, c) - u * TLWEPhase(s, d), 0)
    BY <1>6, <1>7, <1>8, <1>9 DEF TLWEPhase
  <1> QED BY <1>4, <1>10 DEF e

(* What an encryption's phase is: the message and the error. *)
LEMMA TLWEEncryptIs ==
  ASSUME NEW s \in [0..(n - 1) -> Int], NEW mask \in [0..(n - 1) -> Torus],
         NEW x \in Int, NEW error \in Int
  PROVE  /\ TLWEEncrypt(s, mask, x, error) \in TLWEs
         /\ Within(TLWEPhase(s, TLWEEncrypt(s, mask, x, error)), x + error, 0)
  <1>1. mask \in [0..(n - 1) -> Int] BY TorusSize DEF Torus
  <1>2. PICK d \in Int, e \in Int :
          d = TLWEDot(s, mask) /\ e = Inner(n, s, mask) /\ Within(d, e, 0)
    BY <1>1, TLWEDotIs, InnerTyped, Sizes
  <1>3. PICK y \in Int, z \in Int : y = d + x + error /\ z = x + error OBVIOUS
  <1>4. y % Q \in Torus /\ y % Q \in Int /\ Within(y % Q, y, 0) BY Reduced
  <1>5. TLWEEncrypt(s, mask, x, error) = [a |-> mask, b |-> y % Q]
    BY <1>2, <1>3 DEF TLWEEncrypt
  <1>6. Within((y % Q) - e, y - d, 0)
    <2>1. 0 \in Nat /\ 0 + 0 = 0 OBVIOUS
    <2>2. Within(e, d, 0) BY <1>2, <2>1, WithinBack
    <2> QED BY <1>4, <2>1, <2>2, WithinSum
  <1>7. y - d = x + error BY <1>3
  <1> QED BY <1>2, <1>4, <1>5, <1>6, <1>7 DEF TLWEPhase, TLWEs

-----------------------------------------------------------------------------
(* The key switch.                                                         *)

Keys == [r : [Coefficients -> {0, 1}], l : [0..(n - 1) -> {0, 1}]]

LEMMA KeysTyped ==
  ASSUME secret \in Keys
  PROVE  /\ secret.r \in [0..(N - 1) -> {0, 1}] /\ secret.r \in [0..(N - 1) -> Int]
         /\ secret.l \in [0..(n - 1) -> {0, 1}] /\ secret.l \in [0..(n - 1) -> Int]
  <1>1. secret.r \in [0..(N - 1) -> {0, 1}] /\ secret.l \in [0..(n - 1) -> {0, 1}]
    BY DEF Keys, Coefficients
  <1> QED BY <1>1

(* A row of the key is a digit's place, if the secret's bit is set. *)
LEMMA KeySwitchRow ==
  ASSUME secret \in Keys, NEW sign \in {-1, 1}, NEW at \in Coefficients, NEW m \in 0..(t - 1)
  PROVE  /\ KeySwitchSample(sign, at, m) \in TLWEs
         /\ Within(TLWEPhase(secret.l, KeySwitchSample(sign, at, m)),
                   secret.r[at] * pow2[Shift(switch, m)], 1)
  <1>1. Shift(switch, m) = qbit - Kbit * (m + 1) BY DEF Shift, switch
  <1>2. PICK place \in Int : place = pow2[Shift(switch, m)]
    <2>1. m \in Places(switch) BY DEF Places, switch
    <2> QED BY <2>1, Sizes, PlacesOf DEF Decomposition
  <1>3. PICK x \in Int : x = secret.r[at] * place
    <2>1. secret.r[at] \in Int BY KeysTyped DEF Coefficients
    <2> QED BY <2>1
  <1>4. PICK mask \in [0..(n - 1) -> Torus] :
          mask = [k \in 0..(n - 1) |-> (29 * (at + 3) * (m + 1) + 5 * k) % Q]
    <2>1. at \in Int /\ m \in Int BY TorusSize, Sizes DEF Coefficients
    <2>2. 29 * (at + 3) * (m + 1) \in Int BY <2>1, SMT
    <2>3. ASSUME NEW k \in 0..(n - 1)
          PROVE  (29 * (at + 3) * (m + 1) + 5 * k) % Q \in Torus
      <3>1. PICK y \in Int : y = 29 * (at + 3) * (m + 1) + 5 * k BY <2>2
      <3> QED BY <3>1, Reduced
    <2>4. [k \in 0..(n - 1) |-> (29 * (at + 3) * (m + 1) + 5 * k) % Q]
            \in [0..(n - 1) -> Torus]
      BY <2>3
    <2> QED BY <2>4
  <1>5. KeySwitchSample(sign, at, m) = TLWEEncrypt(secret.l, mask, x % Q, sign)
    BY <1>1, <1>2, <1>3, <1>4 DEF KeySwitchSample, ModTorus
  <1>6. PICK y \in Int : y = x % Q /\ Within(y, x, 0) BY Reduced
  <1>7. sign \in Int OBVIOUS
  <1>8. PICK c \in TLWEs : /\ c = TLWEEncrypt(secret.l, mask, y, sign)
                           /\ Within(TLWEPhase(secret.l, c), y + sign, 0)
    BY <1>7, KeysTyped, TLWEEncryptIs
  <1>9. Within(TLWEPhase(secret.l, c), x, 1)
    <2>1. Within(sign, 0, 1)
      <3>1. sign - 0 - 0 * Q \in (-1)..1 BY TorusSize
      <3> QED BY <3>1 DEF Within
    <2>2. Within(y + sign, x, 1)
      <3>1. 0 \in Int /\ x + 0 = x /\ 0 + 1 = 1 /\ 0 \in Nat /\ 1 \in Nat OBVIOUS
      <3>2. Within(y + sign, x + 0, 0 + 1) BY <1>6, <1>7, <2>1, <3>1, WithinSum
      <3> QED BY <3>1, <3>2
    <2>3. TLWEPhase(secret.l, c) \in Int BY KeysTyped, TLWETyped
    <2>4. y + sign \in Int /\ 0 + 1 = 1 /\ 0 \in Nat /\ 1 \in Nat OBVIOUS
    <2>5. Within(TLWEPhase(secret.l, c), x, 0 + 1)
      BY <1>8, <2>2, <2>3, <2>4, WithinTwo
    <2> QED BY <2>4, <2>5
  <1> QED BY <1>2, <1>3, <1>5, <1>6, <1>8, <1>9

(* The digits of what is switched: numbers below the base, which side by   *)
(* side stand for it up to the rounding.                                   *)
LEMMA SwitchDigits ==
  ASSUME NEW ai \in Torus
  PROVE  LET digit == DigitsOf(switch, switch_decompose, ai)
         IN  /\ digit \in [0..(t - 1) -> 0..(pow2[Kbit] - 1)]
             /\ SideBySide(switch, digit) \in Int
             /\ Within(SideBySide(switch, digit), ai, Round(switch))
             /\ Round(switch) \in Nat
  <1> DEFINE digit == DigitsOf(switch, switch_decompose, ai)
  <1>1. switch.qbit = qbit /\ switch.bits = Kbit /\ switch.len = t /\ Places(switch) = 0..(t - 1)
    BY DEF switch, Places
  <1>2. PICK w \in Int : w = Wrap(ai + Round(switch)) /\ Round(switch) \in Nat
    <2>1. Round(switch) \in Nat /\ ai \in Int
      BY Sizes, RoundOf, TorusSize DEF Decomposition, Torus
    <2>2. ai + Round(switch) \in Int BY <2>1
    <2> QED BY <2>1, <2>2, TorusSize, LosesTurns
  <1>3. digit = [j \in Places(switch) |-> (w \div pow2[Shift(switch, j)]) % BaseOf(switch)]
    BY <1>2 DEF DigitsOf, switch_decompose
  <1>4. /\ \A j \in Places(switch) : (w \div pow2[Shift(switch, j)]) % BaseOf(switch)
                                       \in 0..(BaseOf(switch) - 1)
        /\ SideBySide(switch, digit) = (w % pow2[switch.qbit]) - (w % Place(switch, switch.len))
    BY <1>3, Sizes, CutDigits DEF Decomposition
  <1>5. digit \in [0..(t - 1) -> 0..(pow2[Kbit] - 1)]
    BY <1>1, <1>3, <1>4 DEF BaseOf
  <1>6. SideBySide(switch, digit) \in Int
    <2>1. PICK rest \in Nat \ {0} : rest = Place(switch, switch.len)
      BY Sizes, RoundOf DEF Decomposition
    <2>2. w % rest \in 0..(rest - 1) /\ w % Q \in 0..(Q - 1) BY Remainder, TorusSize
    <2>3. w % rest \in Int /\ w % Q \in Int BY <2>2, TorusSize
    <2> QED BY <1>1, <1>4, <2>1, <2>3 DEF Q
  <1> HIDE DEF digit
  <1>7. Near(Q, unsigned_reconstruct(switch, digit), ai, Round(switch))
    BY <1>1, Sizes, SwitchedNear DEF Torus, Q, digit
  <1>8. PICK side \in Int, y \in Int : side = SideBySide(switch, digit) /\ y = side % Q
                                       /\ Within(y, side, 0)
    BY <1>6, Reduced
  <1>9. unsigned_reconstruct(switch, digit) = y
    BY <1>1, <1>8, WithinMod DEF unsigned_reconstruct, ModTorus, Q
  <1>10. Within(side, ai, Round(switch))
    <2>1. ai \in Int /\ 0 \in Nat BY TorusSize DEF Torus
    <2>2. Within(y, ai, Round(switch)) BY <1>2, <1>7, <1>9, <2>1, NearIs
    <2>3. Within(side, y, 0) BY <1>8, <2>1, WithinBack
    <2>4. Within(side, ai, 0 + Round(switch)) BY <1>2, <2>1, <2>2, <2>3, WithinTwo
    <2> QED BY <1>2, <2>4
  <1> QED BY <1>2, <1>5, <1>6, <1>8, <1>10 DEF digit

(* The accumulator after every digit of one coefficient. *)
Subtracting(sign, ai, f) ==
  f = [m \in 0..t |->
         IF m = 0 THEN dst
         ELSE TLWESub(f[m - 1], TLWEScale(switch_decompose(switch, ai, m - 1),
                                          KeySwitchSample(sign, i, m - 1)))]

LEMMA SwitchedSteps ==
  ASSUME secret \in Keys, dst \in TLWEs, i \in Coefficients,
         NEW sign \in {-1, 1}, NEW ai \in Torus
  PROVE  \E f \in [0..t -> TLWEs] :
           /\ f[0] = dst
           /\ \A m \in 0..(t - 1) :
                f[m + 1] = TLWESub(f[m], TLWEScale(switch_decompose(switch, ai, m),
                                                   KeySwitchSample(sign, i, m)))
           /\ Switched(sign, ai) = f[t]
  <1> DEFINE Minus(m, c) == TLWESub(c, TLWEScale(switch_decompose(switch, ai, m),
                                                KeySwitchSample(sign, i, m)))
             G == [m \in 0..(t - 1) |-> [c \in TLWEs |-> Minus(m, c)]]
  <1>1. ASSUME NEW m \in 0..(t - 1), NEW c \in TLWEs PROVE Minus(m, c) \in TLWEs
    <2>1. PICK u \in Int : u = switch_decompose(switch, ai, m)
      <3>1. PICK digit \in [0..(t - 1) -> 0..(pow2[Kbit] - 1)] :
              digit = DigitsOf(switch, switch_decompose, ai)
        BY SwitchDigits
      <3>2. digit[m] = switch_decompose(switch, ai, m)
        BY <3>1 DEF DigitsOf, Places, switch
      <3>3. pow2[Kbit] \in Nat BY Sizes, PowersOfTwo
      <3>4. digit[m] \in Int BY <3>3
      <3> QED BY <3>2, <3>4
    <2>2. PICK d \in TLWEs : d = KeySwitchSample(sign, i, m) BY KeySwitchRow
    <2>3. secret.l \in [0..(n - 1) -> Int] BY KeysTyped
    <2>4. TLWESub(c, TLWEScale(u, d)) \in TLWEs BY <2>3, MinusScaled
    <2> QED BY <2>1, <2>2, <2>4
  <1> HIDE DEF Minus
  <1>2. t \in Nat /\ G \in [0..(t - 1) -> [TLWEs -> TLWEs]] BY <1>1, Sizes
  <1>3. PICK f \in [0..t -> TLWEs] :
          f[0] = dst /\ \A m \in 0..(t - 1) : f[m + 1] = G[m][f[m]]
    <2> HIDE DEF G
    <2>1. \E f \in [0..t -> TLWEs] : Loops(f, t, dst, G) BY <1>2, LoopExists, Zenon
    <2> QED BY <2>1 DEF Loops
  <1>4. \A m \in 0..(t - 1) : f[m + 1] = Minus(m, f[m])
    <2> SUFFICES ASSUME NEW m \in 0..(t - 1) PROVE f[m + 1] = Minus(m, f[m]) OBVIOUS
    <2>1. m \in 0..t /\ f[m] \in TLWEs BY <1>2
    <2> QED BY <1>3, <2>1
  <1>5. Subtracting(sign, ai, f)
    <2>1. ASSUME NEW m \in 0..t
          PROVE  f[m] = IF m = 0 THEN dst ELSE Minus(m - 1, f[m - 1])
      <3>1. CASE m = 0 BY <1>3, <3>1
      <3>2. CASE m # 0
        <4>1. m - 1 \in 0..(t - 1) /\ (m - 1) + 1 = m BY <1>2, <3>2
        <4> QED BY <1>4, <3>2, <4>1
      <3> QED BY <3>1, <3>2
    <2>2. f = [m \in 0..t |-> IF m = 0 THEN dst ELSE Minus(m - 1, f[m - 1])] BY <2>1
    <2> QED BY <2>2 DEF Subtracting, Minus
  <1> DEFINE sub[m \in 0..t] ==
        IF m = 0 THEN dst
        ELSE TLWESub(sub[m - 1], TLWEScale(switch_decompose(switch, ai, m - 1),
                                           KeySwitchSample(sign, i, m - 1)))
  <1>6. PICK g : Subtracting(sign, ai, g) /\ Switched(sign, ai) = g[t]
    <2>1. Subtracting(sign, ai, sub) BY <1>5, Zenon DEF Subtracting
    <2>2. Switched(sign, ai) = sub[t] BY Zenon DEF Switched, sub
    <2> HIDE DEF sub
    <2> QED BY <2>1, <2>2
  <1> HIDE DEF sub, G
  <1>7. /\ g[0] = dst
        /\ \A m \in 0..(t - 1) : g[m + 1] = Minus(m, g[m])
    <2>1. 0 \in 0..t BY <1>2
    <2>2. g[0] = dst BY <1>6, <2>1 DEF Subtracting
    <2>3. ASSUME NEW m \in 0..(t - 1) PROVE g[m + 1] = Minus(m, g[m])
      <3>1. m + 1 \in 0..t /\ m + 1 # 0 /\ (m + 1) - 1 = m BY <1>2
      <3>2. g[m + 1] = TLWESub(g[(m + 1) - 1],
                               TLWEScale(switch_decompose(switch, ai, (m + 1) - 1),
                                         KeySwitchSample(sign, i, (m + 1) - 1)))
        BY <1>6, <3>1, ZenonT(30) DEF Subtracting
      <3> QED BY <3>1, <3>2 DEF Minus
    <2> QED BY <2>2, <2>3
  <1> DEFINE S == {m \in Nat : m <= t => g[m] = f[m]}
  <1>8. 0 \in S BY <1>3, <1>7
  <1>9. ASSUME NEW m \in Nat, m \in S PROVE m + 1 \in S
    <2> SUFFICES ASSUME m + 1 <= t PROVE g[m + 1] = f[m + 1] OBVIOUS
    <2>1. m \in 0..(t - 1) /\ m <= t BY <1>2
    <2> QED BY <1>4, <1>7, <1>9, <2>1
  <1> HIDE DEF S
  <1>10. t \in S BY <1>2, <1>8, <1>9, Induction
  <1>11. g[t] = f[t] BY <1>2, <1>10 DEF S
  <1> QED BY <1>3, <1>4, <1>6, <1>11 DEF Minus

(* One coefficient goes from one key to the other: the accumulator loses   *)
(* what the coefficient was under the old key, up to the noise of a row    *)
(* for every unit of every digit, and the rounding.                        *)
LEMMA SwitchedIs ==
  ASSUME secret \in Keys, dst \in TLWEs, i \in Coefficients,
         NEW sign \in {-1, 1}, NEW ai \in Torus
  PROVE  /\ Switched(sign, ai) \in TLWEs
         /\ SwitchNoise \in Nat
         /\ Within(TLWEPhase(secret.l, Switched(sign, ai)),
                   TLWEPhase(secret.l, dst) - secret.r[i] * ai, SwitchNoise)
  <1>1. PICK f \in [0..t -> TLWEs] :
          /\ f[0] = dst
          /\ \A m \in 0..(t - 1) :
               f[m + 1] = TLWESub(f[m], TLWEScale(switch_decompose(switch, ai, m),
                                                  KeySwitchSample(sign, i, m)))
          /\ Switched(sign, ai) = f[t]
    BY SwitchedSteps
  <1>2. PICK top \in Nat : top = pow2[Kbit] - 1
    <2>1. PICK base \in Nat \ {0} : base = pow2[Kbit] BY Sizes, PowersOfTwo
    <2>2. base - 1 \in Nat OBVIOUS
    <2> QED BY <2>1, <2>2
  <1>3. PICK digit \in [0..(t - 1) -> 0..top], side \in Int, round \in Nat :
          /\ digit = DigitsOf(switch, switch_decompose, ai)
          /\ side = SideBySide(switch, digit) /\ round = Round(switch)
          /\ Within(side, ai, round)
    BY <1>2, SwitchDigits
  <1>4. /\ t \in Nat /\ 0 \in 0..t /\ t \in 0..t /\ switch.len = t /\ Places(switch) = 0..(t - 1)
        /\ secret.l \in [0..(n - 1) -> Int] /\ ai \in Int
    BY Sizes, KeysTyped, TorusSize DEF Places, switch, Torus
  <1>5. PICK b \in {0, 1} : b = secret.r[i] BY KeysTyped DEF Coefficients
  <1>6. ASSUME NEW m \in 0..(t - 1) PROVE pow2[Shift(switch, m)] \in Int
    <2>1. FitsTorus(switch) BY Sizes DEF Decomposition
    <2>2. m \in Places(switch) BY <1>4
    <2>3. m + 1 \in 0..switch.len /\ pow2[Shift(switch, m)] = Place(switch, m + 1)
      BY <2>1, <2>2, PlacesOf
    <2>4. Place(switch, m + 1) \in Nat \ {0} BY <2>1, <2>3, PlacesOf
    <2> QED BY <2>3, <2>4
  <1>7. PICK placed \in [0..(t - 1) -> Int] :
          placed = [m \in 0..(t - 1) |-> digit[m] * pow2[Shift(switch, m)]]
    <2>1. ASSUME NEW m \in 0..(t - 1) PROVE digit[m] * pow2[Shift(switch, m)] \in Int
      <3>1. PICK x \in Int, y \in Int : x = digit[m] /\ y = pow2[Shift(switch, m)]
        BY <1>6
      <3>2. x * y \in Int BY SMT
      <3> QED BY <3>1, <3>2
    <2>2. [m \in 0..(t - 1) |-> digit[m] * pow2[Shift(switch, m)]] \in [0..(t - 1) -> Int]
      BY <2>1
    <2> QED BY <2>2
  <1>8. side = Sum(placed, t) BY <1>3, <1>4, <1>7 DEF SideBySide
  <1>9. PICK r \in [0..t -> Int] :
          /\ r[0] = 0
          /\ \A m \in 0..(t - 1) : r[m + 1] = r[m] + placed[m]
          /\ Sum(placed, t) = r[t]
    BY <1>4, SumSteps
  <1>10. PICK x0 \in Int : x0 = TLWEPhase(secret.l, dst) BY <1>4, TLWETyped
  <1> DEFINE S == {m \in Nat : m <= t =>
                     Within(TLWEPhase(secret.l, f[m]), x0 - b * r[m], m * top)}
  <1>11. 0 \in S
    <2>1. b * 0 = 0 /\ 0 * top = 0 /\ x0 - 0 = x0 BY SMT
    <2>2. Within(x0, x0, 0) BY WithinItself
    <2> QED BY <1>1, <1>9, <1>10, <2>1, <2>2
  <1>12. ASSUME NEW m \in Nat, m \in S PROVE m + 1 \in S
    <2> SUFFICES ASSUME m + 1 <= t
                 PROVE  Within(TLWEPhase(secret.l, f[m + 1]), x0 - b * r[m + 1], (m + 1) * top)
      OBVIOUS
    <2>1. m \in 0..(t - 1) /\ m \in 0..t /\ m + 1 \in 0..t /\ m <= t BY <1>4
    <2>2. PICK c \in TLWEs, e \in TLWEs : c = f[m] /\ e = f[m + 1] BY <2>1
    <2>3. PICK u \in (-top)..top : u = digit[m] /\ u = switch_decompose(switch, ai, m)
      <3>1. digit[m] \in 0..top BY <2>1
      <3>2. digit[m] \in (-top)..top BY <3>1
      <3>3. digit[m] = switch_decompose(switch, ai, m) BY <1>3, <1>4, <2>1 DEF DigitsOf
      <3> QED BY <3>2, <3>3
    <2>4. PICK place \in Int : place = pow2[Shift(switch, m)] BY <1>6, <2>1
    <2>5. PICK d \in TLWEs : /\ d = KeySwitchSample(sign, i, m)
                             /\ Within(TLWEPhase(secret.l, d), b * place, 1)
      BY <1>5, <2>1, <2>4, KeySwitchRow
    <2>6. PICK x \in Int, y \in Int, z \in Int :
            /\ x = TLWEPhase(secret.l, c) /\ y = TLWEPhase(secret.l, d)
            /\ z = TLWEPhase(secret.l, e)
            /\ Within(z, x - u * y, 0)
      <3>1. e = TLWESub(c, TLWEScale(u, d)) BY <1>1, <2>1, <2>2, <2>3, <2>5
      <3>2. u \in Int OBVIOUS
      <3>3. Within(TLWEPhase(secret.l, e),
                   TLWEPhase(secret.l, c) - u * TLWEPhase(secret.l, d), 0)
        BY <1>4, <3>1, <3>2, MinusScaled
      <3>4. \A g \in TLWEs : TLWEPhase(secret.l, g) \in Int BY <1>4, TLWETyped
      <3> QED BY <3>3, <3>4
    <2>7. PICK rm \in Int, bp \in Int, mtop \in Nat :
            /\ rm = r[m] /\ bp = b * place /\ mtop = m * top
            /\ Within(x, x0 - b * rm, mtop)
      <3>1. m * top \in Nat /\ b * place \in Int BY SMT
      <3>2. Within(TLWEPhase(secret.l, f[m]), x0 - b * r[m], m * top) BY <1>12, <2>1
      <3> QED BY <2>1, <2>2, <2>6, <3>1, <3>2
    <2>8. Within(u * y, u * bp, top)
      <3>1. Within(u * y, u * bp, top * 1) BY <2>5, <2>6, <2>7, WithinTimes
      <3>2. top * 1 = top OBVIOUS
      <3> QED BY <3>1, <3>2
    <2>9. PICK uy \in Int, ub \in Int, br \in Int :
            uy = u * y /\ ub = u * bp /\ br = b * rm
      <3>1. u * y \in Int /\ u * bp \in Int /\ b * rm \in Int BY SMT
      <3> QED BY <3>1
    <2>10. Within(x - uy, (x0 - br) - ub, mtop + top)
      <3>1. x0 - br \in Int OBVIOUS
      <3> QED BY <2>7, <2>8, <2>9, <3>1, WithinSum
    <2>11. Within(z, (x0 - br) - ub, 0 + (mtop + top))
      <3>1. x - uy \in Int /\ (x0 - br) - ub \in Int /\ mtop + top \in Nat OBVIOUS
      <3> QED BY <2>6, <2>9, <2>10, <3>1, WithinTwo
    <2>12. (x0 - br) - ub = x0 - b * r[m + 1]
      <3>1. r[m + 1] = rm + u * place BY <1>7, <1>9, <2>1, <2>3, <2>4, <2>7
      <3>2. b * (rm + u * place) = b * rm + u * (b * place) BY TimesLinear
      <3> QED BY <2>7, <2>9, <3>1, <3>2
    <2>13. 0 + (mtop + top) = (m + 1) * top
      <3>1. (m + 1) * top = m * top + top BY SMT
      <3> QED BY <2>7, <3>1
    <2> QED BY <2>2, <2>6, <2>11, <2>12, <2>13
  <1> HIDE DEF S
  <1>13. t \in S BY <1>4, <1>11, <1>12, Induction
  <1>14. Within(TLWEPhase(secret.l, f[t]), x0 - b * side, t * top)
    <2>1. t <= t BY <1>4
    <2> QED BY <1>8, <1>9, <1>13, <2>1 DEF S
  <1>15. PICK bs \in Int, ba \in Int, ttop \in Nat, last \in Int :
           /\ bs = b * side /\ ba = b * ai /\ ttop = t * top
           /\ last = TLWEPhase(secret.l, f[t])
    <2>1. b * side \in Int /\ b * ai \in Int /\ t * top \in Nat BY <1>4, SMT
    <2>2. f[t] \in TLWEs BY <1>4
    <2> QED BY <1>4, <2>1, <2>2, TLWETyped
  <1>16. Within(bs, ba, round)
    <2>1. b \in (-1)..1 /\ 1 \in Nat /\ 1 * round = round OBVIOUS
    <2>2. Within(b * side, b * ai, 1 * round) BY <1>3, <1>4, <2>1, WithinTimes
    <2> QED BY <1>15, <2>1, <2>2
  <1>17. Within(x0 - bs, x0 - ba, 0 + round)
    <2>1. 0 \in Nat OBVIOUS
    <2> QED BY <1>16, <2>1, WithinItself, WithinSum
  <1>18. Within(last, x0 - ba, ttop + (0 + round))
    <2>1. x0 - bs \in Int /\ x0 - ba \in Int /\ 0 + round \in Nat OBVIOUS
    <2>2. Within(last, x0 - bs, ttop) BY <1>14, <1>15
    <2> QED BY <1>17, <2>1, <2>2, WithinTwo
  <1>19. SwitchNoise = ttop + (0 + round) /\ ttop + (0 + round) \in Nat
    <2>1. SwitchNoise = ttop + round
      <3>1. SwitchNoise = t * top + round BY <1>2, <1>3, Zenon DEF SwitchNoise
      <3> QED BY <1>15, <3>1, Zenon
    <2>2. ttop + round = ttop + (0 + round) /\ ttop + (0 + round) \in Nat OBVIOUS
    <2> QED BY <2>1, <2>2
  <1>20. f[t] \in TLWEs BY <1>4
  <1> QED BY <1>1, <1>5, <1>10, <1>15, <1>18, <1>19, <1>20

-----------------------------------------------------------------------------
(* TRLWE: polynomials, their products and phases.                          *)

Polys == [Coefficients -> Torus]

TRLWEs == [a : Polys, b : Polys]

(* The coefficients of x that a product's coefficient m takes, in order.   *)
Turned(x, m) == [j \in Coefficients |-> IF j <= m THEN x[m - j] ELSE -x[N + m - j]]

TRLWEPhase(s, c, m) == c.b[m] - Inner(N, s, Turned(c.a, m))

LEMMA TurnedTyped ==
  ASSUME NEW x \in [Coefficients -> Int], NEW m \in Coefficients
  PROVE  /\ Turned(x, m) \in [0..(N - 1) -> Int]
         /\ \A j \in Coefficients : /\ j <= m => m - j \in Coefficients
                                    /\ ~(j <= m) => N + m - j \in Coefficients
  <1>1. ASSUME NEW j \in Coefficients
        PROVE  /\ j <= m => m - j \in Coefficients
               /\ ~(j <= m) => N + m - j \in Coefficients
    BY TorusSize DEF Coefficients
  <1>2. ASSUME NEW j \in Coefficients
        PROVE  (IF j <= m THEN x[m - j] ELSE -x[N + m - j]) \in Int
    <2>1. CASE j <= m
      <3>1. x[m - j] \in Int BY <1>1, <2>1
      <3> QED BY <2>1, <3>1
    <2>2. CASE ~(j <= m)
      <3>1. x[N + m - j] \in Int BY <1>1, <2>2
      <3> QED BY <2>2, <3>1
    <2> QED BY <2>1, <2>2
  <1>3. Turned(x, m) \in [Coefficients -> Int] BY <1>2 DEF Turned
  <1> QED BY <1>1, <1>3 DEF Coefficients

LEMMA PolysTyped ==
  /\ Polys \subseteq [Coefficients -> Int]
  /\ Polys \subseteq [0..(N - 1) -> Int]
  /\ Zero \in Polys
  /\ \A c \in TRLWEs : /\ c.a \in Polys /\ c.b \in Polys
                       /\ c.a \in [Coefficients -> Int] /\ c.b \in [Coefficients -> Int]
  /\ TRLWEZero \in TRLWEs
  <1>1. Torus \subseteq Int /\ 0 \in Torus BY TorusSize DEF Torus
  <1>2. Polys \subseteq [Coefficients -> Int] BY <1>1 DEF Polys
  <1>3. Zero \in Polys BY <1>1 DEF Zero, Polys
  <1>4. TRLWEZero \in TRLWEs BY <1>3 DEF TRLWEZero, TRLWEs
  <1>5. \A c \in TRLWEs : c.a \in Polys /\ c.b \in Polys BY DEF TRLWEs
  <1> QED BY <1>2, <1>3, <1>4, <1>5 DEF Coefficients

LEMMA PolyOps ==
  ASSUME NEW x \in [Coefficients -> Int], NEW y \in [Coefficients -> Int]
  PROVE  /\ PolyAdd(x, y) \in Polys /\ PolySub(x, y) \in Polys
         /\ \A j \in Coefficients :
              /\ Within(PolyAdd(x, y)[j], x[j] + y[j], 0)
              /\ Within(PolySub(x, y)[j], x[j] - y[j], 0)
  <1>1. ASSUME NEW j \in Coefficients
        PROVE  /\ ModTorusAdd(Q, x[j], y[j]) \in Torus
               /\ Within(ModTorusAdd(Q, x[j], y[j]), x[j] + y[j], 0)
               /\ ModTorusSub(Q, x[j], y[j]) \in Torus
               /\ Within(ModTorusSub(Q, x[j], y[j]), x[j] - y[j], 0)
    <2>1. x[j] \in Int /\ y[j] \in Int OBVIOUS
    <2> QED BY <2>1, TorusOps
  <1> QED BY <1>1 DEF PolyAdd, PolySub, Polys

(* A product's coefficient is an inner product. *)
LEMMA ConvolutionIs ==
  ASSUME NEW u \in [Coefficients -> Int], NEW x \in [Coefficients -> Int]
  PROVE  /\ negacyclic_convolution(u, x) \in Polys
         /\ \A m \in Coefficients :
              Within(negacyclic_convolution(u, x)[m], Inner(N, u, Turned(x, m)), 0)
  <1> DEFINE Term(m) == [j \in Coefficients |->
                           IF j <= m THEN ModTorusScale(Q, u[j], x[m - j])
                           ELSE -ModTorusScale(Q, u[j], x[N + m - j])]
  <1>1. ASSUME NEW m \in Coefficients
        PROVE  /\ Sum(Term(m), N) % Q \in Torus
               /\ Within(Sum(Term(m), N) % Q, Inner(N, u, Turned(x, m)), 0)
    <2>1. PICK y \in [0..(N - 1) -> Int], g \in [0..(N - 1) -> Int] :
            y = Turned(x, m) /\ g = [j \in 0..(N - 1) |-> u[j] * y[j]]
      <3>1. PICK y \in [0..(N - 1) -> Int] : y = Turned(x, m) BY TurnedTyped
      <3>2. N \in Nat /\ u \in [0..(N - 1) -> Int] BY TorusSize DEF Coefficients
      <3>3. [j \in 0..(N - 1) |-> u[j] * y[j]] \in [0..(N - 1) -> Int]
        BY <3>2, InnerTyped
      <3> QED BY <3>1, <3>3
    <2>2. ASSUME NEW j \in Coefficients
          PROVE  Term(m)[j] \in Int /\ Within(Term(m)[j], g[j], 0)
      <3>1. CASE j <= m
        <4>1. m - j \in Coefficients BY <3>1, TurnedTyped
        <4>2. PICK c \in Int, z \in Int : c = u[j] /\ z = x[m - j] BY <4>1
        <4>3. Term(m)[j] = ModTorusScale(Q, c, z) BY <3>1, <4>2
        <4>4. g[j] = c * z BY <2>1, <3>1, <4>2 DEF Turned, Coefficients
        <4>5. ModTorusScale(Q, c, z) \in Int /\ Within(ModTorusScale(Q, c, z), c * z, 0)
          BY TorusOps
        <4> QED BY <4>3, <4>4, <4>5
      <3>2. CASE ~(j <= m)
        <4>1. N + m - j \in Coefficients BY <3>2, TurnedTyped
        <4>2. PICK c \in Int, z \in Int : c = u[j] /\ z = x[N + m - j] BY <4>1
        <4>3. PICK w \in Int, cz \in Int :
                w = ModTorusScale(Q, c, z) /\ cz = c * z /\ Within(w, cz, 0)
          <5>1. c * z \in Int BY SMT
          <5> QED BY <5>1, TorusOps
        <4>4. Term(m)[j] = -w BY <3>2, <4>2, <4>3
        <4>5. g[j] = -cz
          <5>1. g[j] = c * (-z) BY <2>1, <3>2, <4>2 DEF Turned, Coefficients
          <5>2. c * (-z) = -(c * z) BY SMT
          <5> QED BY <4>3, <5>1, <5>2
        <4>6. Within(0 - w, 0 - cz, 0)
          <5>1. Within(0, 0, 0) BY WithinItself
          <5>2. 0 \in Nat /\ 0 \in Int /\ 0 + 0 = 0 OBVIOUS
          <5>3. Within(0 - w, 0 - cz, 0 + 0) BY <4>3, <5>1, <5>2, WithinSum
          <5> QED BY <5>2, <5>3
        <4>7. 0 - w = -w /\ 0 - cz = -cz /\ -w \in Int OBVIOUS
        <4> QED BY <4>4, <4>5, <4>6, <4>7
      <3> QED BY <3>1, <3>2
    <2>3. PICK f \in [0..(N - 1) -> Int] :
            f = Term(m) /\ \A j \in 0..(N - 1) : Within(f[j], g[j], 0)
      <3>1. \A j \in Coefficients : Term(m)[j] \in Int BY <2>2
      <3>2. Term(m) = [j \in Coefficients |-> Term(m)[j]] OBVIOUS
      <3>3. Term(m) \in [Coefficients -> Int]
        <4> HIDE DEF Term
        <4> QED BY <3>1, <3>2
      <3> HIDE DEF Term
      <3> QED BY <2>2, <3>3 DEF Coefficients
    <2>4. PICK sf \in Int, sg \in Int :
            sf = Sum(f, N) /\ sg = Sum(g, N) /\ Within(sf, sg, 0)
      <3>1. N \in Nat BY TorusSize
      <3>2. Within(Sum(f, N), Sum(g, N), 0) BY <2>3, <3>1, SumSame
      <3>3. Sum(f, N) \in Int /\ Sum(g, N) \in Int BY <3>1, SumInt
      <3> QED BY <3>2, <3>3
    <2>5. sf % Q \in Torus /\ sf % Q \in Int /\ Within(sf % Q, sf, 0) BY Reduced
    <2>6. Within(sf % Q, sg, 0)
      <3>1. 0 \in Nat /\ 0 + 0 = 0 OBVIOUS
      <3> QED BY <2>4, <2>5, <3>1, WithinTwo
    <2>7. sg = Inner(N, u, Turned(x, m)) BY <2>1, <2>4 DEF Inner
    <2> QED BY <2>3, <2>4, <2>5, <2>6, <2>7
  <1>2. negacyclic_convolution(u, x) = [m \in Coefficients |-> Sum(Term(m), N) % Q]
    BY DEF negacyclic_convolution
  <1> HIDE DEF Term
  <1> QED BY <1>1, <1>2 DEF Polys

LEMMA TRLWEDecryptIs ==
  ASSUME NEW s \in [Coefficients -> Int], NEW c \in TRLWEs, NEW m \in Coefficients
  PROVE  /\ TRLWEPhase(s, c, m) \in Int
         /\ TRLWEDecrypt(s, c) \in Polys
         /\ Within(TRLWEDecrypt(s, c)[m], TRLWEPhase(s, c, m), 0)
  <1>1. c.a \in [Coefficients -> Int] /\ c.b \in [Coefficients -> Int] BY PolysTyped
  <1>2. PICK y \in [Coefficients -> Int] :
          /\ y = negacyclic_convolution(s, c.a)
          /\ Within(y[m], Inner(N, s, Turned(c.a, m)), 0)
    BY <1>1, ConvolutionIs, PolysTyped
  <1>3. PICK x \in Int, z \in Int, b \in Int :
          /\ x = y[m] /\ z = Inner(N, s, Turned(c.a, m)) /\ b = c.b[m]
          /\ Within(x, z, 0)
    <2>1. Turned(c.a, m) \in [0..(N - 1) -> Int] BY <1>1, TurnedTyped
    <2>2. Inner(N, s, Turned(c.a, m)) \in Int
      BY <2>1, TorusSize, InnerTyped DEF Coefficients
    <2> QED BY <1>1, <1>2, <2>2
  <1>4. TRLWEDecrypt(s, c) \in Polys /\ Within(TRLWEDecrypt(s, c)[m], b - x, 0)
    BY <1>1, <1>2, <1>3, PolyOps DEF TRLWEDecrypt
  <1>5. Within(b - x, b - z, 0)
    <2>1. Within(b, b, 0) BY WithinItself
    <2>2. 0 \in Nat /\ 0 + 0 = 0 OBVIOUS
    <2>3. Within(b - x, b - z, 0 + 0) BY <1>3, <2>1, <2>2, WithinSum, Zenon
    <2> QED BY <2>2, <2>3
  <1>6. TRLWEDecrypt(s, c)[m] \in Int BY <1>4, PolysTyped
  <1>7. Within(TRLWEDecrypt(s, c)[m], b - z, 0)
    <2>1. PICK d \in Int, e \in Int, g \in Int :
            d = TRLWEDecrypt(s, c)[m] /\ e = b - x /\ g = b - z
      BY <1>6
    <2>2. Within(d, e, 0) /\ Within(e, g, 0) BY <1>4, <1>5, <2>1
    <2>3. Within(d, g, 0 + 0) BY <2>2, WithinTwo
    <2>4. 0 + 0 = 0 OBVIOUS
    <2> QED BY <2>1, <2>3, <2>4
  <1>8. b - z \in Int OBVIOUS
  <1> QED BY <1>3, <1>4, <1>7, <1>8 DEF TRLWEPhase

-----------------------------------------------------------------------------
(* What every operation keeps: coefficients are torus values, the loops    *)
(* are in step with the control, and an accumulator is fresh when its loop *)
(* begins.                                                                 *)

LEMMA GadgetPlace ==
  ASSUME NEW m \in Int, NEW j \in 0..(l - 1)
  PROVE  GadgetValue(m, j) \in Int
  <1>1. PICK place \in Int : place = pow2[qbit - Bbit * (j + 1)]
    <2>1. j \in Places(gadget) /\ Shift(gadget, j) = qbit - Bbit * (j + 1)
      BY DEF Places, Shift, gadget
    <2> QED BY <2>1, Sizes, PlacesOf DEF Decomposition
  <1>2. m * place \in Int BY SMT
  <1> QED BY <1>1, <1>2 DEF GadgetValue

LEMMA FoldTyped ==
  ASSUME NEW rows \in [Rows -> TRLWEs], NEW m \in Int
  PROVE  Fold(rows, m) \in [Rows -> TRLWEs]
  <1>1. ASSUME NEW x \in Polys, NEW v \in Int
        PROVE  [x EXCEPT ![0] = ModTorusAdd(Q, @, v)] \in Polys
    <2>1. 0 \in Coefficients BY TorusSize DEF Coefficients
    <2>2. x[0] \in Int BY <2>1, PolysTyped
    <2>3. ModTorusAdd(Q, x[0], v) \in Torus BY <2>2, TorusOps
    <2> QED BY <2>1, <2>3 DEF Polys
  <1>2. ASSUME NEW row \in Rows
        PROVE  (IF row < l
                THEN [rows[row] EXCEPT !.a[0] = ModTorusAdd(Q, @, GadgetValue(m, row))]
                ELSE [rows[row] EXCEPT !.b[0] = ModTorusAdd(Q, @, GadgetValue(m, row - l))])
               \in TRLWEs
    <2>1. PICK c \in TRLWEs : c = rows[row] OBVIOUS
    <2>2. c.a \in Polys /\ c.b \in Polys /\ c = [a |-> c.a, b |-> c.b] BY DEF TRLWEs
    <2>3. CASE row < l
      <3>1. row \in 0..(l - 1) BY <2>3, Sizes DEF Rows
      <3>2. PICK v \in Int : v = GadgetValue(m, row) BY <3>1, GadgetPlace
      <3>3. [c EXCEPT !.a[0] = ModTorusAdd(Q, @, v)]
              = [a |-> [c.a EXCEPT ![0] = ModTorusAdd(Q, @, v)], b |-> c.b]
        BY <2>2
      <3>4. [c EXCEPT !.a[0] = ModTorusAdd(Q, @, v)] \in TRLWEs
        BY <1>1, <2>2, <3>3 DEF TRLWEs
      <3> QED BY <2>1, <2>3, <3>2, <3>4
    <2>4. CASE ~(row < l)
      <3>1. row - l \in 0..(l - 1) BY <2>4, Sizes DEF Rows
      <3>2. PICK v \in Int : v = GadgetValue(m, row - l) BY <3>1, GadgetPlace
      <3>3. [c EXCEPT !.b[0] = ModTorusAdd(Q, @, v)]
              = [a |-> c.a, b |-> [c.b EXCEPT ![0] = ModTorusAdd(Q, @, v)]]
        BY <2>2
      <3>4. [c EXCEPT !.b[0] = ModTorusAdd(Q, @, v)] \in TRLWEs
        BY <1>1, <2>2, <3>3 DEF TRLWEs
      <3> QED BY <2>1, <2>4, <3>2, <3>4
    <2> QED BY <2>3, <2>4
  <1> QED BY <1>2 DEF Fold

LEMMA TRLWEOps ==
  ASSUME NEW c \in TRLWEs, NEW d \in TRLWEs
  PROVE  TRLWEAdd(c, d) \in TRLWEs /\ TRLWESub(c, d) \in TRLWEs
  <1>1. /\ c.a \in [Coefficients -> Int] /\ c.b \in [Coefficients -> Int]
        /\ d.a \in [Coefficients -> Int] /\ d.b \in [Coefficients -> Int]
    BY PolysTyped
  <1>2. /\ PolyAdd(c.a, d.a) \in Polys /\ PolyAdd(c.b, d.b) \in Polys
        /\ PolySub(c.a, d.a) \in Polys /\ PolySub(c.b, d.b) \in Polys
    BY <1>1, PolyOps
  <1> QED BY <1>2 DEF TRLWEAdd, TRLWESub, TRLWEs

(* A mask and an error of a row. *)
LEMMA RowTyped ==
  ASSUME NEW sign \in {-1, 1}, NEW row \in Int
  PROVE  /\ RowMask(row) \in Polys
         /\ RowError(sign, row) \in [Coefficients -> {-1, 1}]
         /\ RowError(sign, row) \in [Coefficients -> Int]
         /\ [j \in Coefficients |-> RowError(sign, row)[j] % Q] \in Polys
  <1>1. ASSUME NEW j \in Coefficients
        PROVE  (37 * (row + 2) * (j + 1) + 11 * row) % Q \in Torus
    <2>1. j \in Int BY DEF Coefficients
    <2>2. PICK y \in Int : y = 37 * (row + 2) * (j + 1) + 11 * row
      <3>1. 37 * (row + 2) * (j + 1) \in Int BY <2>1, SMT
      <3>2. 37 * (row + 2) * (j + 1) + 11 * row \in Int BY <3>1
      <3> QED BY <3>2
    <2> QED BY <2>2, Reduced
  <1>2. RowMask(row) \in Polys BY <1>1 DEF RowMask, Polys
  <1>3. RowError(sign, row) \in [Coefficients -> {-1, 1}]
    <2>1. ASSUME NEW j \in Coefficients
          PROVE  (IF (row + j) % 2 = 0 THEN sign ELSE -sign) \in {-1, 1}
      OBVIOUS
    <2> QED BY <2>1 DEF RowError
  <1>4. RowError(sign, row) \in [Coefficients -> Int] BY <1>3
  <1>5. ASSUME NEW j \in Coefficients PROVE RowError(sign, row)[j] % Q \in Torus
    <2>1. RowError(sign, row)[j] \in Int BY <1>4
    <2> QED BY <2>1, Reduced
  <1> QED BY <1>2, <1>3, <1>4, <1>5 DEF Polys

LEMMA TRLWEEncryptTyped ==
  ASSUME secret \in Keys, NEW mask \in Polys, NEW pt \in Polys,
         NEW error \in [Coefficients -> Int]
  PROVE  TRLWEEncrypt(secret.r, mask, pt, error) \in TRLWEs
  <1>1. secret.r \in [Coefficients -> Int] BY KeysTyped DEF Coefficients
  <1>2. /\ mask \in [Coefficients -> Int] /\ pt \in [Coefficients -> Int]
        /\ Polys \subseteq [Coefficients -> Int]
    BY PolysTyped
  <1>3. negacyclic_convolution(secret.r, mask) \in Polys BY <1>1, <1>2, ConvolutionIs
  <1>4. PolyAdd(pt, negacyclic_convolution(secret.r, mask)) \in Polys
    BY <1>2, <1>3, PolyOps
  <1>5. [j \in Coefficients |-> error[j] % Q] \in Polys
    <2>1. ASSUME NEW j \in Coefficients PROVE error[j] % Q \in Torus
      <3>1. error[j] \in Int OBVIOUS
      <3> QED BY <3>1, Reduced
    <2> QED BY <2>1 DEF Polys
  <1>6. PolyAdd(PolyAdd(pt, negacyclic_convolution(secret.r, mask)),
                [j \in Coefficients |-> error[j] % Q]) \in Polys
    BY <1>2, <1>4, <1>5, PolyOps
  <1> QED BY <1>6 DEF TRLWEEncrypt, TRLWEs

LEMMA KeyTyped ==
  ASSUME secret \in Keys, NEW sign \in {-1, 1}, NEW m \in Int
  PROVE  /\ \A row \in Int : ZeroRow(sign, row) \in TRLWEs
         /\ BootstrapKeyEntry(sign, m) \in [Rows -> TRLWEs]
         /\ TRGSWEncrypt(sign, m) \in [Rows -> TRLWEs]
         /\ \A chosen \in SUBSET {1, 2} :
              TRGSWPublicEncrypt(sign, chosen, m) \in [Rows -> TRLWEs]
  <1>1. Rows \subseteq Int BY Sizes DEF Rows
  <1>2. ASSUME NEW row \in Int PROVE ZeroRow(sign, row) \in TRLWEs
    BY RowTyped, PolysTyped, TRLWEEncryptTyped DEF ZeroRow
  <1>3. BootstrapKeyEntry(sign, m) \in [Rows -> TRLWEs]
    <2>1. [row \in Rows |-> ZeroRow(sign, row)] \in [Rows -> TRLWEs] BY <1>1, <1>2
    <2> QED BY <2>1, FoldTyped DEF BootstrapKeyEntry
  <1>4. TRGSWEncrypt(sign, m) \in [Rows -> TRLWEs]
    <2>1. ASSUME NEW row \in Rows
          PROVE  [a |-> RowMask(row),
                  b |-> PolyAdd(AssignProduct(Zero, secret.r, RowMask(row)),
                                [j \in Coefficients |-> RowError(sign, row)[j] % Q])]
                 \in TRLWEs
      <3>1. row \in Int BY <1>1
      <3>2. secret.r \in [Coefficients -> Int] BY KeysTyped DEF Coefficients
      <3>3. RowMask(row) \in Polys /\ RowMask(row) \in [Coefficients -> Int]
        BY <3>1, RowTyped, PolysTyped
      <3>4. PICK x \in Polys : x = negacyclic_convolution(secret.r, RowMask(row))
        BY <3>2, <3>3, ConvolutionIs
      <3>5. AssignProduct(Zero, secret.r, RowMask(row)) \in Polys
        BY <3>4, PolysTyped, PolyOps DEF AssignProduct
      <3>6. [j \in Coefficients |-> RowError(sign, row)[j] % Q] \in Polys
        BY <3>1, RowTyped
      <3>7. PolyAdd(AssignProduct(Zero, secret.r, RowMask(row)),
                    [j \in Coefficients |-> RowError(sign, row)[j] % Q]) \in Polys
        BY <3>5, <3>6, PolysTyped, PolyOps
      <3> QED BY <3>3, <3>7 DEF TRLWEs
    <2> DEFINE rows == [row \in Rows |->
                          [a |-> RowMask(row),
                           b |-> PolyAdd(AssignProduct(Zero, secret.r, RowMask(row)),
                                         [j \in Coefficients |-> RowError(sign, row)[j] % Q])]]
    <2>2. rows \in [Rows -> TRLWEs] BY <2>1
    <2>3. TRGSWEncrypt(sign, m) = Fold(rows, m) BY DEF TRGSWEncrypt
    <2> HIDE DEF rows
    <2> QED BY <2>2, <2>3, FoldTyped
  <1>5. ASSUME NEW chosen \in SUBSET {1, 2}
        PROVE  TRGSWPublicEncrypt(sign, chosen, m) \in [Rows -> TRLWEs]
    <2> DEFINE sample(k) == [row \in Rows |-> ZeroRow(sign, row + k)]
               plus(rows, k) == IF k \in chosen THEN TRGSWAdd(rows, sample(k)) ELSE rows
    <2>1. ASSUME NEW rows \in [Rows -> TRLWEs], NEW k \in {1, 2}
          PROVE  plus(rows, k) \in [Rows -> TRLWEs]
      <3>1. ASSUME NEW row \in Rows
            PROVE  TRLWEAdd(rows[row], sample(k)[row]) \in TRLWEs
        <4>1. row + k \in Int BY <1>1
        <4>2. sample(k)[row] = ZeroRow(sign, row + k) OBVIOUS
        <4>3. rows[row] \in TRLWEs /\ sample(k)[row] \in TRLWEs BY <1>2, <4>1, <4>2
        <4> QED BY <4>3, TRLWEOps
      <3>2. TRGSWAdd(rows, sample(k)) \in [Rows -> TRLWEs] BY <3>1 DEF TRGSWAdd
      <3> QED BY <3>2
    <2>2. [row \in Rows |-> TRLWEZero] \in [Rows -> TRLWEs] BY PolysTyped
    <2>3. TRGSWPublicEncrypt(sign, chosen, m)
            = Fold(plus(plus([row \in Rows |-> TRLWEZero], 1), 2), m)
      BY DEF TRGSWPublicEncrypt
    <2> HIDE DEF plus
    <2>4. plus(plus([row \in Rows |-> TRLWEZero], 1), 2) \in [Rows -> TRLWEs]
      BY <2>1, <2>2
    <2> QED BY <2>3, <2>4, FoldTyped
  <1> QED BY <1>2, <1>3, <1>4, <1>5

(* A public key of two samples. *)
Summed(pk, chosen, f) ==
  f = [m \in 0..Len(pk) |->
         IF m = 0 THEN TRLWEZero
         ELSE IF m \in chosen THEN TRLWEAdd(f[m - 1], pk[m]) ELSE f[m - 1]]

LEMMA PublicEncryptIs ==
  ASSUME NEW x \in TRLWEs, NEW y \in TRLWEs, NEW chosen \in SUBSET {1, 2}, NEW pt \in Polys
  PROVE  LET one == IF 1 \in chosen THEN TRLWEAdd(TRLWEZero, x) ELSE TRLWEZero
             two == IF 2 \in chosen THEN TRLWEAdd(one, y) ELSE one
         IN  /\ two \in TRLWEs
             /\ PublicEncrypt(<<x, y>>, chosen, pt) = [a |-> two.a, b |-> PolyAdd(two.b, pt)]
             /\ PublicEncrypt(<<x, y>>, chosen, pt) \in TRLWEs
  <1> DEFINE one == IF 1 \in chosen THEN TRLWEAdd(TRLWEZero, x) ELSE TRLWEZero
             two == IF 2 \in chosen THEN TRLWEAdd(one, y) ELSE one
             pk == <<x, y>>
             sum[m \in 0..Len(pk)] ==
               IF m = 0 THEN TRLWEZero
               ELSE IF m \in chosen THEN TRLWEAdd(sum[m - 1], pk[m]) ELSE sum[m - 1]
  <1>1. Len(pk) = 2 /\ pk[1] = x /\ pk[2] = y OBVIOUS
  <1> HIDE DEF pk
  <1>2. one \in TRLWEs /\ two \in TRLWEs
    <2>1. one \in TRLWEs BY PolysTyped, TRLWEOps
    <2> HIDE DEF one
    <2> QED BY <2>1, TRLWEOps
  <1>3. \E f : Summed(pk, chosen, f)
    <2> DEFINE g == [m \in 0..2 |-> IF m = 0 THEN TRLWEZero ELSE IF m = 1 THEN one ELSE two]
    <2>1. g[0] = TRLWEZero /\ g[1] = one /\ g[2] = two OBVIOUS
    <2>2. ASSUME NEW m \in 0..2
          PROVE  g[m] = IF m = 0 THEN TRLWEZero
                        ELSE IF m \in chosen THEN TRLWEAdd(g[m - 1], pk[m]) ELSE g[m - 1]
      <3>1. m = 0 \/ (m = 1 /\ m - 1 = 0) \/ (m = 2 /\ m - 1 = 1) OBVIOUS
      <3> HIDE DEF g
      <3>2. CASE m = 0 BY <2>1, <3>2
      <3>3. CASE m = 1 /\ m - 1 = 0 BY <1>1, <2>1, <3>3 DEF one
      <3>4. CASE m = 2 /\ m - 1 = 1 
        <4> HIDE DEF one
        <4> QED BY <1>1, <2>1, <3>4 DEF two
      <3> QED BY <3>1, <3>2, <3>3, <3>4
    <2>3. g = [m \in 0..2 |->
                 IF m = 0 THEN TRLWEZero
                 ELSE IF m \in chosen THEN TRLWEAdd(g[m - 1], pk[m]) ELSE g[m - 1]]
      BY <2>2
    <2> HIDE DEF g
    <2>4. Summed(pk, chosen, g) BY <1>1, <2>3 DEF Summed
    <2> QED BY <2>4
  <1>4. PICK f : Summed(pk, chosen, f) /\ PublicEncrypt(pk, chosen, pt) = [f[Len(pk)] EXCEPT !.b = PolyAdd(@, pt)]
    <2>1. Summed(pk, chosen, sum) BY <1>3, Zenon DEF Summed
    <2>2. PublicEncrypt(pk, chosen, pt) = [sum[Len(pk)] EXCEPT !.b = PolyAdd(@, pt)]
      BY Zenon DEF PublicEncrypt, sum
    <2> HIDE DEF sum
    <2> QED BY <2>1, <2>2
  <1> HIDE DEF sum
  <1>5. f[2] = two
    <2>1. f[0] = TRLWEZero BY <1>1, <1>4 DEF Summed
    <2>2. f[1] = one
      <3>1. 1 \in 0..Len(pk) /\ 1 # 0 /\ 1 - 1 = 0 BY <1>1
      <3>2. f[1] = IF 1 \in chosen THEN TRLWEAdd(f[0], pk[1]) ELSE f[0]
        BY <1>4, <3>1 DEF Summed
      <3> QED BY <1>1, <2>1, <3>2
    <2> HIDE DEF one
    <2>3. 2 \in 0..Len(pk) /\ 2 # 0 /\ 2 - 1 = 1 BY <1>1
    <2>4. f[2] = IF 2 \in chosen THEN TRLWEAdd(f[1], pk[2]) ELSE f[1]
      BY <1>4, <2>3 DEF Summed
    <2> QED BY <1>1, <2>2, <2>4
  <1> HIDE DEF one, two
  <1>6. two.a \in Polys /\ two.b \in Polys /\ two = [a |-> two.a, b |-> two.b]
    BY <1>2 DEF TRLWEs
  <1>7. PublicEncrypt(pk, chosen, pt) = [a |-> two.a, b |-> PolyAdd(two.b, pt)]
    BY <1>1, <1>4, <1>5, <1>6
  <1>8. PolyAdd(two.b, pt) \in Polys BY <1>6, PolysTyped, PolyOps
  <1>9. PublicEncrypt(pk, chosen, pt) \in TRLWEs BY <1>6, <1>7, <1>8 DEF TRLWEs
  <1> QED BY <1>2, <1>7, <1>9 DEF one, two, pk

LEMMA RotateTyped ==
  ASSUME NEW x \in Polys, NEW m \in Nat
  PROVE  rotate(x, m) \in Polys
  <1> DEFINE by == m % (2 * N)
             source(j) == (j + 2 * N - by) % N
  <1>1. ASSUME NEW j \in Coefficients
        PROVE  /\ source(j) \in Coefficients
               /\ x[source(j)] \in Torus /\ (-x[source(j)]) % Q \in Torus
    <2>1. PICK size \in Nat \ {0} : size = N BY TorusSize
    <2>2. by \in Int
      <3>1. PICK w \in Nat \ {0} : w = 2 * N BY <2>1
      <3>2. m % w \in 0..(w - 1) BY Remainder
      <3> QED BY <3>1, <3>2
    <2>3. PICK y \in Int : y = j + 2 * N - by
      <3>1. j \in Int BY DEF Coefficients
      <3> HIDE DEF by
      <3> QED BY <2>1, <2>2, <3>1
    <2>4. source(j) \in Coefficients
      <3>1. y % size \in 0..(size - 1) BY Remainder
      <3> QED BY <2>1, <2>3, <3>1 DEF Coefficients
    <2> HIDE DEF source
    <2>5. x[source(j)] \in Torus BY <2>4 DEF Polys
    <2>6. -x[source(j)] \in Int BY <2>5, TorusSize DEF Torus
    <2> QED BY <2>4, <2>5, <2>6, Reduced
  <1>2. rotate(x, m)
          = [j \in Coefficients |->
               IF ((source(j) + by) \div N) % 2 = 1 THEN (-x[source(j)]) % Q ELSE x[source(j)]]
    BY DEF rotate
  <1> HIDE DEF source, by
  <1> QED BY <1>1, <1>2 DEF Polys

(* The state between operations. *)
Typed ==
  /\ secret \in Keys
  /\ bit \in {0, 1}
  /\ maker \in {"bootstrap_key", "trgsw", "public"}
  /\ trgsw \in [Rows -> TRLWEs]
  /\ message \in Polys
  /\ amount \in Nat
  /\ cand0 \in TRLWEs
  /\ res \in TRLWEs
  /\ p \in Coefficients
  /\ dst \in TLWEs

InStep ==
  \/ pc \in {"start", "represented", "key", "encrypt", "extract"} /\ i = 0
  \/ pc = "multiply" /\ i \in 0..l
  \/ pc = "switch" /\ i \in 0..N
  \/ pc = "done" /\ i = N

FreshAccumulators ==
  /\ pc \in {"start", "represented", "key", "encrypt"} => res = TRLWEZero
  /\ pc \notin {"switch", "done"} => dst.a = [j \in 0..(n - 1) |-> 0]

RoundInvariant == Typed /\ InStep /\ FreshAccumulators

LEMMA GivenTyped ==
  /\ Sign \subseteq {-1, 1} /\ Mask \subseteq Polys /\ Message \subseteq Polys
  /\ Amount \subseteq Nat
  BY BootstrapRoundAssumption DEF Polys, Torus

LEMMA RoundInvariantHoldsAtFirst == Init => RoundInvariant
  <1> SUFFICES ASSUME Init PROVE RoundInvariant OBVIOUS
  <1> USE DEF Init
  <1>1. secret \in Keys
    <2>1. Zero \in [Coefficients -> {0, 1}] BY DEF Zero
    <2>2. [j \in 0..(n - 1) |-> 0] \in [0..(n - 1) -> {0, 1}] OBVIOUS
    <2> QED BY <2>1, <2>2 DEF Keys
  <1>2. message \in Polys /\ cand0 \in TRLWEs /\ res \in TRLWEs BY PolysTyped
  <1>3. trgsw \in [Rows -> TRLWEs] BY PolysTyped
  <1>4. p \in Coefficients BY TorusSize DEF Coefficients
  <1>5. dst \in TLWEs
    <2>1. 0 \in Torus BY TorusSize DEF Torus
    <2>2. [j \in 0..(n - 1) |-> 0] \in [0..(n - 1) -> Torus] BY <2>1
    <2> QED BY <2>1, <2>2 DEF TLWEs
  <1>6. Typed BY <1>1, <1>2, <1>3, <1>4, <1>5 DEF Typed
  <1> QED BY <1>6 DEF RoundInvariant, InStep, FreshAccumulators

LEMMA DifferenceTyped ==
  ASSUME cand0 \in TRLWEs, amount \in Nat
  PROVE  Rotated(cand0) \in TRLWEs /\ Difference \in TRLWEs
  <1>1. cand0.a \in Polys /\ cand0.b \in Polys BY DEF TRLWEs
  <1>2. Rotated(cand0) \in TRLWEs BY <1>1, RotateTyped DEF Rotated, TRLWEs
  <1> QED BY <1>2, TRLWEOps DEF Difference

(* A digit as it is stored. *)
LEMMA DigitPolyTyped ==
  ASSUME NEW x \in Polys, NEW j \in 0..(l - 1)
  PROVE  DigitPoly(x, j) \in [Coefficients -> Int]
  <1>1. ASSUME NEW m \in Coefficients PROVE balanced_decompose(gadget, x[m], j) \in Int
    <2>1. x[m] \in 0..(pow2[gadget.qbit] - 1) BY DEF Polys, Torus, Q, gadget
    <2>2. PICK d : d = gadget /\ Decomposition(d) BY Sizes
    <2>3. PICK v \in 0..(pow2[d.qbit] - 1) : v = x[m] BY <2>1, <2>2
    <2>4. PICK balanced : balanced = DigitsOf(d, balanced_decompose, v) OBVIOUS
    <2>5. j \in Places(d) BY <2>2 DEF Places, gadget
    <2>6. balanced[j] = balanced_decompose(gadget, x[m], j)
      BY <2>2, <2>3, <2>4, <2>5 DEF DigitsOf
    <2>7. PICK h \in Int : h = BaseOf(d) \div 2 /\ BaseOf(d) \in Nat \ {0}
      <3>1. \E h \in Nat \ {0}, m1 \in Nat \ {0} :
              BaseOf(d) = 2 * h /\ BaseOf(d) \div 2 = h /\ UIntLimit = m1 * (2 * h)
        BY <2>2, BaseIsEven
      <3> QED BY <3>1
    <2>8. ASSUME NEW w \in Int
          PROVE  (((w \div pow2[Shift(d, j)]) % BaseOf(d)) - h) % UIntLimit \in Int
      <3>1. PICK unit \in Nat \ {0} : unit = pow2[Shift(d, j)]
        <4>1. j + 1 \in 0..d.len /\ pow2[Shift(d, j)] = Place(d, j + 1)
          BY <2>2, <2>5, PlacesOf DEF Decomposition
        <4>2. Place(d, j + 1) \in Nat \ {0} BY <2>2, <4>1, PlacesOf DEF Decomposition
        <4> QED BY <4>1, <4>2
      <3>2. w \div unit \in Int BY Splits, Zenon
      <3>3. (w \div unit) % BaseOf(d) \in Int
        <4>1. (w \div unit) % BaseOf(d) \in 0..(BaseOf(d) - 1) BY <2>7, <3>2, Remainder
        <4> QED BY <2>7, <4>1
      <3>4. PICK y \in Int : y = ((w \div unit) % BaseOf(d)) - h BY <3>3
      <3>5. y % UIntLimit \in 0..(UIntLimit - 1) BY DigitsAssumption, Remainder
      <3> QED BY <3>1, <3>4, <3>5, DigitsAssumption
    <2>9. Wrap(v + Offset(d) + Round(d)) \in Int
      <3>1. Offset(d) \in Int
        <4> DEFINE half == [k \in Places(d) |-> BaseOf(d) \div 2]
        <4>1. half \in [Places(d) -> Int] BY <2>7
        <4>2. SideBySide(d, half) \in Int
          BY <2>2, <4>1, SideBySideTyped DEF Decomposition
        <4>3. Offset(d) = Wrap(SideBySide(d, half)) BY DEF Offset
        <4> HIDE DEF half
        <4>4. Wrap(SideBySide(d, half)) \in Nat BY <4>2, TorusSize, LosesTurns
        <4> QED BY <4>3, <4>4
      <3>2. Round(d) \in Int /\ v \in Int
        <4>1. pow2[d.qbit] \in Nat BY <2>2, TorusSize DEF gadget, Q
        <4> QED BY <2>2, <4>1, RoundOf DEF Decomposition
      <3>3. PICK y \in Int : y = v + Offset(d) + Round(d) BY <3>1, <3>2
      <3>4. Wrap(y) \in Nat BY TorusSize, LosesTurns
      <3> QED BY <3>3, <3>4
    <2> QED BY <2>2, <2>3, <2>7, <2>8, <2>9 DEF balanced_decompose
  <1> QED BY <1>1 DEF DigitPoly

(* One level of the external product. *)
LEMMA LevelTyped ==
  ASSUME RoundInvariant, MultiplyLevel
  PROVE  res' \in TRLWEs
  <1>1. /\ trgsw \in [Rows -> TRLWEs] /\ res \in TRLWEs /\ Difference \in TRLWEs
        /\ i \in 0..(l - 1)
    <2>1. i \in 0..(l - 1) BY Sizes DEF RoundInvariant, InStep, MultiplyLevel
    <2> QED BY <2>1, DifferenceTyped DEF RoundInvariant, Typed
  <1>2. PICK da \in [Coefficients -> Int], db \in [Coefficients -> Int] :
          da = DigitPoly(Difference.a, i) /\ db = DigitPoly(Difference.b, i)
    BY <1>1, DigitPolyTyped, PolysTyped
  <1>3. PICK c \in TRLWEs, d \in TRLWEs : c = trgsw[i] /\ d = trgsw[l + i]
    <2>1. i \in Rows /\ l + i \in Rows BY <1>1, Sizes DEF Rows
    <2> QED BY <1>1, <2>1
  <1>4. ASSUME NEW x \in Polys, NEW y \in Polys, NEW z \in Polys
        PROVE  PolyAdd(PolyAdd(x, negacyclic_convolution(da, y)),
                       negacyclic_convolution(db, z)) \in Polys
    <2>1. /\ x \in [Coefficients -> Int] /\ y \in [Coefficients -> Int]
          /\ z \in [Coefficients -> Int] /\ Polys \subseteq [Coefficients -> Int]
      BY PolysTyped
    <2>2. negacyclic_convolution(da, y) \in Polys /\ negacyclic_convolution(db, z) \in Polys
      BY <2>1, ConvolutionIs
    <2>3. PolyAdd(x, negacyclic_convolution(da, y)) \in Polys BY <2>1, <2>2, PolyOps
    <2> QED BY <2>1, <2>2, <2>3, PolyOps
  <1>5. res' = [a |-> PolyAdd(PolyAdd(res.a, negacyclic_convolution(da, c.a)),
                              negacyclic_convolution(db, d.a)),
                b |-> PolyAdd(PolyAdd(res.b, negacyclic_convolution(da, c.b)),
                              negacyclic_convolution(db, d.b))]
    BY <1>2, <1>3 DEF MultiplyLevel
  <1> QED BY <1>1, <1>3, <1>4, <1>5, PolysTyped DEF TRLWEs

(* What is taken out of a ciphertext. *)
LEMMA ExtractedTyped ==
  ASSUME NEW c \in TRLWEs, NEW at \in Coefficients, NEW j \in Coefficients
  PROVE  /\ ExtractedA(c, at, j) \in Torus
         /\ Within(ExtractedA(c, at, j), Turned(c.a, at)[j], 0)
  <1>1. c.a \in [Coefficients -> Int] /\ c.a \in [Coefficients -> Torus]
    BY PolysTyped DEF Polys
  <1>2. CASE j <= at
    <2>1. at - j \in Coefficients BY <1>2, TurnedTyped, <1>1
    <2>2. PICK x \in Int : x = c.a[at - j] /\ x \in Torus BY <1>1, <2>1
    <2>3. ExtractedA(c, at, j) = x /\ Turned(c.a, at)[j] = x
      BY <1>2, <2>2 DEF ExtractedA, Turned
    <2> QED BY <2>2, <2>3, WithinItself
  <1>3. CASE ~(j <= at)
    <2>1. N + at - j \in Coefficients BY <1>3, TurnedTyped, <1>1
    <2>2. PICK x \in Int : x = -c.a[N + at - j] BY <1>1, <2>1
    <2>3. ExtractedA(c, at, j) = x % Q /\ Turned(c.a, at)[j] = x
      BY <1>3, <2>2 DEF ExtractedA, Turned
    <2> QED BY <2>2, <2>3, Reduced
  <1> QED BY <1>2, <1>3

LEMMA RoundInvariantHolds == RoundInvariant /\ [Next]_vars => RoundInvariant'
  <1> SUFFICES ASSUME RoundInvariant, [Next]_vars PROVE RoundInvariant' OBVIOUS
  <1> USE DEF RoundInvariant
  <1>1. CASE Draw
    <2> USE <1>1 DEF Draw
    <2>1. secret' \in Keys BY DEF Keys
    <2>2. Typed' BY <2>1, GivenTyped DEF Typed
    <2> QED BY <2>2 DEF InStep, FreshAccumulators
  <1>2. CASE Represent
    BY <1>2 DEF Represent, Typed, InStep, FreshAccumulators
  <1>3. CASE MakeKey
    <2> USE <1>3 DEF MakeKey
    <2>1. trgsw' \in [Rows -> TRLWEs]
      <3>1. secret \in Keys /\ bit \in Int BY DEF Typed
      <3>2. PICK sign \in Sign :
              \/ trgsw' = BootstrapKeyEntry(sign, bit)
              \/ trgsw' = TRGSWEncrypt(sign, bit)
              \/ \E chosen \in SUBSET {1, 2} : trgsw' = TRGSWPublicEncrypt(sign, chosen, bit)
        OBVIOUS
      <3>3. sign \in {-1, 1} BY GivenTyped
      <3> QED BY <3>1, <3>2, <3>3, KeyTyped
    <2>2. Typed' BY <2>1 DEF Typed
    <2> QED BY <2>2 DEF InStep, FreshAccumulators
  <1>4. CASE Encrypt
    <2> USE <1>4 DEF Encrypt
    <2>1. cand0' \in TRLWEs
      <3>1. secret \in Keys /\ message \in Polys BY DEF Typed
      <3>2. PICK mask \in Mask, sign \in Sign :
              \/ cand0' = TRLWEEncrypt(secret.r, mask, message, RowError(sign, 0))
              \/ \E chosen \in SUBSET {1, 2} :
                   cand0' = PublicEncrypt(<<TRLWEEncrypt(secret.r, mask, Zero,
                                                         RowError(sign, 0)),
                                            ZeroRow(sign, 1)>>, chosen, message)
        OBVIOUS
      <3>3. mask \in Polys /\ sign \in {-1, 1} BY GivenTyped
      <3>4. RowError(sign, 0) \in [Coefficients -> Int]
        <4>1. 0 \in Int OBVIOUS
        <4> QED BY <3>3, <4>1, RowTyped
      <3>5. TRLWEEncrypt(secret.r, mask, message, RowError(sign, 0)) \in TRLWEs
        BY <3>1, <3>3, <3>4, TRLWEEncryptTyped
      <3>6. TRLWEEncrypt(secret.r, mask, Zero, RowError(sign, 0)) \in TRLWEs
        BY <3>1, <3>3, <3>4, TRLWEEncryptTyped, PolysTyped
      <3>7. ZeroRow(sign, 1) \in TRLWEs
        <4>1. 0 \in Int /\ 1 \in Int OBVIOUS
        <4> QED BY <3>1, <3>3, <4>1, KeyTyped
      <3>8. PICK x \in TRLWEs, y \in TRLWEs :
              /\ x = TRLWEEncrypt(secret.r, mask, Zero, RowError(sign, 0))
              /\ y = ZeroRow(sign, 1)
        BY <3>6, <3>7
      <3>9. \A chosen \in SUBSET {1, 2} : PublicEncrypt(<<x, y>>, chosen, message) \in TRLWEs
        BY <3>1, PublicEncryptIs
      <3> QED BY <3>2, <3>5, <3>8, <3>9
    <2>2. Typed' BY <2>1 DEF Typed
    <2> QED BY <2>2, Sizes DEF InStep, FreshAccumulators
  <1>5. CASE MultiplyLevel
    <2>1. res' \in TRLWEs BY <1>5, LevelTyped
    <2> USE <1>5 DEF MultiplyLevel
    <2>2. Typed' BY <2>1 DEF Typed
    <2>3. InStep' BY Sizes DEF InStep
    <2> QED BY <2>2, <2>3 DEF FreshAccumulators
  <1>6. CASE AddBack
    <2> USE <1>6 DEF AddBack
    <2>1. res' \in TRLWEs BY TRLWEOps DEF Typed
    <2>2. Typed' BY <2>1 DEF Typed
    <2> QED BY <2>2 DEF InStep, FreshAccumulators
  <1>7. CASE Extract
    <2> USE <1>7 DEF Extract
    <2>1. p' \in Coefficients OBVIOUS
    <2>2. dst' \in TLWEs
      <3>1. res.b \in [Coefficients -> Torus] BY DEF Typed, TRLWEs, Polys
      <3>2. res.b[p'] \in Torus BY <2>1, <3>1
      <3> QED BY <3>2 DEF Typed, TLWEs
    <2>3. Typed' BY <2>1, <2>2 DEF Typed
    <2> QED BY <2>3, TorusSize DEF InStep, FreshAccumulators
  <1>8. CASE SwitchCoefficient
    <2> USE <1>8 DEF SwitchCoefficient
    <2>1. i \in Coefficients /\ i + 1 \in 0..N BY TorusSize DEF InStep, Coefficients
    <2>2. PICK sign \in {-1, 1} : dst' = Switched(sign, ExtractedA(res, p, i))
      BY GivenTyped
    <2>3. ExtractedA(res, p, i) \in Torus BY <2>1, ExtractedTyped DEF Typed
    <2>4. dst' \in TLWEs BY <2>1, <2>2, <2>3, SwitchedIs DEF Typed
    <2>5. Typed' BY <2>4 DEF Typed
    <2> QED BY <2>1, <2>5 DEF InStep, FreshAccumulators
  <1>9. CASE Finish
    <2> USE <1>9 DEF Finish
    <2>1. Typed' BY DEF Typed
    <2> QED BY <2>1 DEF InStep, FreshAccumulators
  <1>10. CASE UNCHANGED vars
    BY <1>10 DEF vars, Typed, InStep, FreshAccumulators
  <1>11. CASE Decrypted BY <1>10, <1>11 DEF Decrypted
  <1> QED BY <1>1, <1>2, <1>3, <1>4, <1>5, <1>6, <1>7, <1>8, <1>9, <1>10, <1>11 DEF Next

(* Coefficients stay torus values, keys and ciphertexts keep their shape,  *)
(* and every loop starts on a fresh accumulator and ends in time.          *)
THEOREM RoundTyped == Spec => []RoundInvariant
  BY RoundInvariantHoldsAtFirst, RoundInvariantHolds, PTL DEF Spec

(* The digits of any torus value, of any decomposition the run has. *)
THEOREM DigitsAlwaysStand == Spec => []DigitsStandForTheirValue
  <1>1. Init => DigitsStandForTheirValue BY DEF Init, DigitsStandForTheirValue
  <1>2. DigitsStandForTheirValue /\ [Next]_vars => DigitsStandForTheirValue'
    <2> SUFFICES ASSUME DigitsStandForTheirValue, [Next]_vars
                 PROVE  DigitsStandForTheirValue'
      OBVIOUS
    <2>1. CASE Represent
      <3>0. PICK d \in Gadget :
              \E v \in 0..(pow2[d.qbit] - 1) :
                repr' = [of |-> d, value |-> v,
                         balanced |-> DigitsOf(d, balanced_decompose, v),
                         switched |-> DigitsOf(d, switch_decompose, v),
                         classical |-> DigitsOf(d, classical_decompose, v)]
        BY <2>1 DEF Represent
      <3>1. PICK v \in 0..(pow2[d.qbit] - 1) :
              repr' = [of |-> d, value |-> v,
                       balanced |-> DigitsOf(d, balanced_decompose, v),
                       switched |-> DigitsOf(d, switch_decompose, v),
                       classical |-> DigitsOf(d, classical_decompose, v)]
        BY <3>0
      <3>2. FitsTorus(d) /\ FitsUInt(d) /\ FitsWord(pow2[d.qbit])
        BY BootstrapRoundAssumption
      <3>3. StandFor(d, v, DigitsOf(d, balanced_decompose, v),
                           DigitsOf(d, switch_decompose, v),
                           DigitsOf(d, classical_decompose, v))
        BY <3>2, DigitsStand
      <3> QED BY <3>1, <3>3 DEF DigitsStandForTheirValue
    <2>2. CASE UNCHANGED vars BY <2>2 DEF vars, DigitsStandForTheirValue
    <2>3. CASE Decrypted BY <2>2, <2>3 DEF Decrypted
    <2> QED
      BY <2>1, <2>2, <2>3
      DEF Next, Draw, MakeKey, Encrypt, MultiplyLevel, AddBack, Extract, SwitchCoefficient,
          Finish, DigitsStandForTheirValue
  <1> QED BY <1>1, <1>2, PTL DEF Spec

-----------------------------------------------------------------------------
(* The key switch's loop.                                                  *)

LEMMA SwitchNoiseNat == SwitchNoise \in Nat
  <1>1. PICK top \in Nat : top = pow2[Kbit] - 1
    <2>1. PICK base \in Nat \ {0} : base = pow2[Kbit] BY Sizes, PowersOfTwo
    <2>2. base - 1 \in Nat OBVIOUS
    <2> QED BY <2>1, <2>2
  <1>2. t * top \in Nat BY Sizes, SMT
  <1>3. Round(switch) \in Nat BY Sizes, RoundOf DEF Decomposition
  <1> QED BY <1>1, <1>2, <1>3 DEF SwitchNoise

(* What the coefficients from k on contribute to a coefficient's phase.    *)
Remaining(c, at, k) ==
  [j \in Coefficients |-> IF j < k THEN 0 ELSE ExtractedA(c, at, j) * secret.r[j]]

LEMMA RemainingTyped ==
  ASSUME secret \in Keys, NEW c \in TRLWEs, NEW at \in Coefficients, NEW k \in Nat
  PROVE  Remaining(c, at, k) \in [0..(N - 1) -> Int]
  <1>1. ASSUME NEW j \in Coefficients
        PROVE  (IF j < k THEN 0 ELSE ExtractedA(c, at, j) * secret.r[j]) \in Int
    <2>1. PICK x \in Int, y \in Int : x = ExtractedA(c, at, j) /\ y = secret.r[j]
      <3>1. ExtractedA(c, at, j) \in Int BY ExtractedTyped, TorusSize DEF Torus
      <3>2. secret.r[j] \in Int BY KeysTyped DEF Coefficients
      <3> QED BY <3>1, <3>2
    <2>2. x * y \in Int BY SMT
    <2> QED BY <2>1, <2>2
  <1> QED BY <1>1 DEF Remaining, Coefficients

(* Before the loop all of it is: it is the coefficient's mask.             *)
LEMMA RemainingAtFirst ==
  ASSUME secret \in Keys, NEW c \in TRLWEs, NEW at \in Coefficients
  PROVE  Within(Sum(Remaining(c, at, 0), N), Inner(N, secret.r, Turned(c.a, at)), 0)
  <1>1. PICK s \in [0..(N - 1) -> {0, 1}] : s = secret.r BY KeysTyped
  <1>2. PICK x \in [0..(N - 1) -> Int] : x = Turned(c.a, at)
    BY PolysTyped, TurnedTyped
  <1>3. s \in [0..(N - 1) -> Int] /\ N \in Nat BY TorusSize
  <1>4. PICK f \in [0..(N - 1) -> Int], g \in [0..(N - 1) -> Int] :
          f = Remaining(c, at, 0) /\ g = [j \in 0..(N - 1) |-> s[j] * x[j]]
    <2>1. 0 \in Nat OBVIOUS
    <2>2. Remaining(c, at, 0) \in [0..(N - 1) -> Int] BY <2>1, RemainingTyped
    <2>3. [j \in 0..(N - 1) |-> s[j] * x[j]] \in [0..(N - 1) -> Int]
      BY <1>3, InnerTyped
    <2> QED BY <2>2, <2>3
  <1>5. ASSUME NEW j \in 0..(N - 1) PROVE Within(f[j], g[j], 0)
    <2>1. j \in Coefficients /\ ~(j < 0) BY TorusSize DEF Coefficients
    <2>2. PICK y \in Int : y = ExtractedA(c, at, j) /\ Within(y, x[j], 0)
      <3>1. ExtractedA(c, at, j) \in Int
        BY <2>1, ExtractedTyped, TorusSize DEF Torus
      <3> QED BY <1>2, <2>1, <3>1, ExtractedTyped
    <2>3. PICK b \in {0, 1}, z \in Int : b = s[j] /\ z = x[j] OBVIOUS
    <2>4. f[j] = y * b BY <1>1, <1>4, <2>1, <2>2, <2>3 DEF Remaining
    <2>5. g[j] = b * z BY <1>4, <2>3
    <2>6. Within(b * y, b * z, 1 * 0)
      <3>1. b \in (-1)..1 /\ 1 \in Nat /\ 0 \in Nat OBVIOUS
      <3>2. Within(y, z, 0) BY <2>2, <2>3
      <3> QED BY <3>1, <3>2, WithinTimes
    <2>7. 1 * 0 = 0 /\ b * y = y * b OBVIOUS
    <2> QED BY <2>4, <2>5, <2>6, <2>7
  <1>6. Within(Sum(f, N), Sum(g, N), 0) BY <1>3, <1>5, SumSame
  <1> QED BY <1>1, <1>2, <1>4, <1>6 DEF Inner

(* One more coefficient is done. *)
LEMMA RemainingNext ==
  ASSUME secret \in Keys, NEW c \in TRLWEs, NEW at \in Coefficients, NEW k \in Coefficients
  PROVE  /\ Sum(Remaining(c, at, k), N) \in Int
         /\ Sum(Remaining(c, at, k + 1), N)
              = Sum(Remaining(c, at, k), N) - secret.r[k] * ExtractedA(c, at, k)
  <1>1. k \in 0..(N - 1) /\ k \in Nat /\ k + 1 \in Nat /\ N \in Nat
    BY TorusSize DEF Coefficients
  <1>2. PICK f \in [0..(N - 1) -> Int], g \in [0..(N - 1) -> Int] :
          f = Remaining(c, at, k + 1) /\ g = Remaining(c, at, k)
    BY <1>1, RemainingTyped
  <1>3. PICK x \in Int, y \in Int, xy \in Int :
          x = ExtractedA(c, at, k) /\ y = secret.r[k] /\ xy = x * y /\ xy = y * x
    <2>1. ExtractedA(c, at, k) \in Int BY ExtractedTyped, TorusSize DEF Torus
    <2>2. secret.r[k] \in Int BY <1>1, KeysTyped
    <2>3. PICK x \in Int, y \in Int : x = ExtractedA(c, at, k) /\ y = secret.r[k]
      BY <2>1, <2>2
    <2>4. x * y \in Int /\ x * y = y * x BY SMT
    <2> QED BY <2>3, <2>4
  <1>4. f[k] = 0
    <2>1. k < k + 1 BY <1>1
    <2> QED BY <1>2, <2>1 DEF Remaining
  <1>5. g[k] = xy
    <2>1. ~(k < k) BY <1>1
    <2> QED BY <1>2, <1>3, <2>1 DEF Remaining
  <1>6. ASSUME NEW j \in 0..(N - 1), j # k PROVE f[j] = g[j]
    <2>1. j \in Coefficients /\ (j < k + 1 <=> j < k) BY <1>1, <1>6 DEF Coefficients
    <2> QED BY <1>2, <2>1 DEF Remaining
  <1>7. Sum(f, N) = Sum(g, N) + (f[k] - g[k]) BY <1>1, <1>6, SumButOne
  <1>8. Sum(g, N) \in Int BY <1>1, SumInt
  <1>9. PICK z \in Int : z = Sum(g, N) BY <1>8
  <1>10. Sum(f, N) = z - xy BY <1>4, <1>5, <1>7, <1>9
  <1> QED BY <1>2, <1>3, <1>9, <1>10

(* SwitchKeepsPhase, exactly. *)
PhaseKept ==
  pc \in {"switch", "done"} =>
    Within(TLWEPhase(secret.l, dst) - Sum(Still, N), TRLWEPhase(secret.r, res, p),
           i * SwitchNoise)

LEMMA StillIs == Still = Remaining(res, p, i)
  BY DEF Still, Remaining

(* The coefficient that is extracted has its phase. *)
LEMMA ExtractKeepsPhase ==
  ASSUME RoundInvariant, Extract
  PROVE  PhaseKept'
  <1>1. /\ secret \in Keys /\ res \in TRLWEs /\ secret' = secret /\ res' = res
        /\ i = 0 /\ i' = 0
        /\ dst.a = [j \in 0..(n - 1) |-> 0]
    BY DEF Extract, RoundInvariant, Typed, InStep, FreshAccumulators
  <1>2. PICK at \in Coefficients : at = p' BY DEF Extract
  <1>3. PICK b \in Int : b = res.b[at] BY <1>1, PolysTyped
  <1>4. TLWEPhase(secret.l, dst') = b
    <2>1. dst'.a = [j \in 0..(n - 1) |-> 0] /\ dst'.b = b
      BY <1>1, <1>2, <1>3 DEF Extract, RoundInvariant, Typed, TLWEs
    <2>2. Inner(n, secret.l, [j \in 0..(n - 1) |-> 0]) = 0
      <3>1. [j \in 0..(n - 1) |-> secret.l[j] * [k \in 0..(n - 1) |-> 0][j]]
              = [j \in 0..(n - 1) |-> 0]
        <4>1. ASSUME NEW j \in 0..(n - 1) PROVE secret.l[j] * 0 = 0
          <5>1. secret.l[j] \in Int BY <1>1, KeysTyped
          <5> QED BY <5>1
        <4> QED BY <4>1
      <3>2. n \in Nat BY Sizes
      <3> QED BY <3>1, <3>2, SumOfZeros DEF Inner
    <2>3. b - 0 = b OBVIOUS
    <2> QED BY <2>1, <2>2, <2>3 DEF TLWEPhase
  <1>5. PICK x \in Int, y \in Int :
          /\ x = Sum(Remaining(res, at, 0), N) /\ y = Inner(N, secret.r, Turned(res.a, at))
          /\ Within(x, y, 0)
    <2>1. 0 \in Nat /\ N \in Nat BY TorusSize
    <2>2. Remaining(res, at, 0) \in [0..(N - 1) -> Int] BY <1>1, <2>1, RemainingTyped
    <2>3. Sum(Remaining(res, at, 0), N) \in Int BY <2>1, <2>2, SumInt
    <2>4. Turned(res.a, at) \in [0..(N - 1) -> Int] BY <1>1, PolysTyped, TurnedTyped
    <2>5. secret.r \in [0..(N - 1) -> Int] BY <1>1, KeysTyped
    <2>6. Inner(N, secret.r, Turned(res.a, at)) \in Int BY <2>1, <2>4, <2>5, InnerTyped
    <2> QED BY <1>1, <2>3, <2>6, RemainingAtFirst
  <1>6. Within(b - x, b - y, 0)
    <2>1. Within(b, b, 0) BY WithinItself
    <2>2. 0 \in Nat /\ 0 + 0 = 0 OBVIOUS
    <2> QED BY <1>5, <2>1, <2>2, WithinSum
  <1>7. 0 * SwitchNoise = 0 BY SwitchNoiseNat, SMT
  <1>8. Still' = Remaining(res, at, 0)
    <2>1. Still' = [j \in Coefficients |->
                      IF j < i' THEN 0 ELSE ExtractedA(res', p', j) * secret'.r[j]]
      BY DEF Still
    <2> QED BY <1>1, <1>2, <2>1 DEF Remaining
  <1>9. Within(TLWEPhase(secret'.l, dst') - Sum(Still', N), TRLWEPhase(secret'.r, res', p'),
               i' * SwitchNoise)
    BY <1>1, <1>2, <1>3, <1>4, <1>5, <1>6, <1>7, <1>8 DEF TRLWEPhase
  <1> QED BY <1>9 DEF PhaseKept

(* One coefficient of the loop. *)
LEMMA SwitchingKeepsPhase ==
  ASSUME RoundInvariant, PhaseKept, SwitchCoefficient
  PROVE  PhaseKept'
  <1>1. /\ secret \in Keys /\ res \in TRLWEs /\ p \in Coefficients /\ dst \in TLWEs
        /\ secret' = secret /\ res' = res /\ p' = p /\ i' = i + 1 /\ pc = "switch"
    BY DEF SwitchCoefficient, RoundInvariant, Typed
  <1>2. i \in Coefficients /\ i \in Nat
    BY TorusSize DEF SwitchCoefficient, RoundInvariant, InStep, Coefficients
  <1>3. PICK sign \in {-1, 1} : dst' = Switched(sign, ExtractedA(res, p, i))
    BY GivenTyped DEF SwitchCoefficient
  <1>4. PICK ai \in Torus : ai = ExtractedA(res, p, i) BY <1>1, <1>2, ExtractedTyped
  <1>5. /\ dst' \in TLWEs
        /\ Within(TLWEPhase(secret.l, dst'), TLWEPhase(secret.l, dst) - secret.r[i] * ai,
                  SwitchNoise)
    BY <1>1, <1>2, <1>3, <1>4, SwitchedIs
  <1>6. PICK x \in Int, y \in Int :
          x = TLWEPhase(secret.l, dst) /\ y = TLWEPhase(secret.l, dst')
    BY <1>1, <1>5, KeysTyped, TLWETyped
  <1>7. PICK sa \in Int : sa = secret.r[i] * ai
    <2>1. secret.r[i] \in Int /\ ai \in Int
      BY <1>1, <1>2, KeysTyped, TorusSize DEF Coefficients, Torus
    <2> QED BY <2>1
  <1>8. PICK r \in Int :
          r = Sum(Remaining(res, p, i), N) /\ Sum(Remaining(res, p, i + 1), N) = r - sa
    BY <1>1, <1>2, <1>4, <1>7, RemainingNext
  <1>9. PICK z \in Int : z = TRLWEPhase(secret.r, res, p)
    <2>1. secret.r \in [Coefficients -> Int] BY <1>1, KeysTyped DEF Coefficients
    <2> QED BY <1>1, <2>1, TRLWEDecryptIs
  <1>10. PICK noise \in Nat, total \in Nat :
           noise = SwitchNoise /\ total = i * SwitchNoise
    <2>1. PICK noise \in Nat : noise = SwitchNoise BY SwitchNoiseNat
    <2>2. i * noise \in Nat BY <1>2
    <2> QED BY <2>1, <2>2
  <1>11. Within(x - r, z, total)
    BY <1>1, <1>6, <1>8, <1>9, <1>10, StillIs DEF PhaseKept
  <1>12. Within(y - (r - sa), (x - sa) - (r - sa), noise + 0)
    <2>1. Within(y, x - sa, noise) BY <1>5, <1>6, <1>7, <1>10
    <2>2. r - sa \in Int /\ x - sa \in Int /\ 0 \in Nat OBVIOUS
    <2>3. Within(r - sa, r - sa, 0) BY <2>2, WithinItself
    <2> QED BY <2>1, <2>2, <2>3, WithinSum
  <1>13. Within(y - (r - sa), z, noise + total)
    <2>1. /\ (x - sa) - (r - sa) = x - r /\ noise + 0 = noise
          /\ y - (r - sa) \in Int /\ x - r \in Int
      OBVIOUS
    <2>2. Within(y - (r - sa), x - r, noise) BY <1>12, <2>1
    <2> QED BY <1>11, <2>1, <2>2, WithinTwo
  <1>14. noise + total = (i + 1) * SwitchNoise
    <2>1. (i + 1) * noise = i * noise + noise BY <1>2, SMT
    <2> QED BY <1>10, <2>1
  <1>15. Still' = Remaining(res, p, i + 1)
    <2>1. Still' = [j \in Coefficients |->
                      IF j < i' THEN 0 ELSE ExtractedA(res', p', j) * secret'.r[j]]
      BY DEF Still
    <2> QED BY <1>1, <2>1 DEF Remaining
  <1>16. Within(TLWEPhase(secret'.l, dst') - Sum(Still', N), TRLWEPhase(secret'.r, res', p'),
                i' * SwitchNoise)
    BY <1>1, <1>6, <1>8, <1>9, <1>13, <1>14, <1>15
  <1> QED BY <1>16 DEF PhaseKept

LEMMA PhaseKeptHolds == RoundInvariant /\ PhaseKept /\ [Next]_vars => PhaseKept'
  <1> SUFFICES ASSUME RoundInvariant, PhaseKept, [Next]_vars PROVE PhaseKept' OBVIOUS
  <1>1. CASE Extract BY <1>1, ExtractKeepsPhase
  <1>2. CASE SwitchCoefficient BY <1>2, SwitchingKeepsPhase
  <1>3. ASSUME secret' = secret, res' = res, p' = p, dst' = dst, i' = i,
               pc' \in {"switch", "done"} => pc \in {"switch", "done"}
        PROVE  PhaseKept'
    <2>1. Still' = Still BY <1>3 DEF Still
    <2> QED BY <1>3, <2>1 DEF PhaseKept, TLWEPhase, TRLWEPhase
  <1>4. CASE Finish BY <1>3, <1>4 DEF Finish
  <1>5. CASE UNCHANGED vars BY <1>3, <1>5 DEF vars
  <1>6. CASE Decrypted BY <1>5, <1>6 DEF Decrypted
  <1> QED
    BY <1>1, <1>2, <1>4, <1>5, <1>6
    DEF Next, Draw, Represent, MakeKey, Encrypt, MultiplyLevel, AddBack, PhaseKept

(* Decrypting is taking the phase. *)
LEMMA PhaseKeptSuffices == RoundInvariant /\ PhaseKept => SwitchKeepsPhase
  <1> SUFFICES ASSUME RoundInvariant, PhaseKept, pc \in {"switch", "done"}
               PROVE  Near(Q, TLWEDecrypt(secret.l, dst) - Sum(Still, N),
                           TRLWEDecrypt(secret.r, res)[p], i * SwitchNoise)
    BY DEF SwitchKeepsPhase
  <1>1. /\ secret \in Keys /\ res \in TRLWEs /\ p \in Coefficients /\ dst \in TLWEs
        /\ i \in Nat
    BY TorusSize DEF RoundInvariant, Typed, InStep
  <1>2. secret.l \in [0..(n - 1) -> Int] /\ secret.r \in [Coefficients -> Int]
    BY <1>1, KeysTyped DEF Coefficients
  <1>3. PICK x \in Int, d \in Int :
          /\ x = TLWEPhase(secret.l, dst) /\ d = TLWEDecrypt(secret.l, dst)
          /\ Within(d, x, 0)
    BY <1>1, <1>2, TLWEDecryptIs, TLWETyped, TorusSize DEF Torus
  <1>4. PICK z \in Int, e \in Int :
          /\ z = TRLWEPhase(secret.r, res, p) /\ e = TRLWEDecrypt(secret.r, res)[p]
          /\ Within(e, z, 0)
    <2>1. TRLWEDecrypt(secret.r, res)[p] \in Int
      BY <1>1, <1>2, TRLWEDecryptIs, PolysTyped
    <2> QED BY <1>1, <1>2, <2>1, TRLWEDecryptIs
  <1>5. PICK r \in Int : r = Sum(Still, N)
    <2>1. Still \in [0..(N - 1) -> Int] BY <1>1, StillIs, RemainingTyped
    <2> QED BY <2>1, TorusSize, SumInt
  <1>6. PICK total \in Nat : total = i * SwitchNoise
    <2>1. PICK noise \in Nat : noise = SwitchNoise BY SwitchNoiseNat
    <2>2. i * noise \in Nat BY <1>1
    <2> QED BY <2>1, <2>2
  <1>7. Within(x - r, z, total) BY <1>3, <1>4, <1>5, <1>6 DEF PhaseKept
  <1>8. 0 \in Nat /\ 0 + 0 = 0 /\ 0 + total = total /\ total + 0 = total
        /\ d - r \in Int /\ x - r \in Int
    OBVIOUS
  <1>9. Within(d - r, x - r, 0)
    <2>1. Within(r, r, 0) BY WithinItself
    <2> QED BY <1>3, <1>8, <2>1, WithinSum
  <1>10. Within(d - r, z, total) BY <1>7, <1>8, <1>9, WithinTwo
  <1>11. Within(z, e, 0) BY <1>4, <1>8, WithinBack
  <1>12. Within(d - r, e, total) BY <1>8, <1>10, <1>11, WithinTwo
  <1> QED BY <1>3, <1>4, <1>5, <1>6, <1>8, <1>12, NearIs

(* The key switch moves a coefficient's phase from one key to the other,   *)
(* whatever the ciphertext, the keys and the errors of their rows: at every*)
(* turn of its loop what has been moved and what has not make up the phase,*)
(* up to the noise of the turns so far.                                    *)
THEOREM SwitchAlwaysKeepsPhase == Spec => []SwitchKeepsPhase
  <1>1. Init => PhaseKept BY DEF Init, PhaseKept
  <1> QED
    BY <1>1, RoundInvariantHoldsAtFirst, RoundInvariantHolds, PhaseKeptHolds,
       PhaseKeptSuffices, PTL
    DEF Spec

-----------------------------------------------------------------------------
(* The external product, and the CMux.  Products in the ring commute and    *)
(* are linear, so phases are; what the digits of a polynomial stand for is  *)
(* multiplied by what the rows of the key are encryptions of.               *)

(* Exact products in the ring, X^N = -1. *)
Product(u, x) == [m \in Coefficients |-> Inner(N, u, Turned(x, m))]

(* The coefficients of x, on along the powers of X. *)
Coef(x, e) == IF e >= 0 THEN x[e] ELSE IF e >= -N THEN -x[e + N] ELSE x[e + 2 * N]

Table == [Coefficients -> [Coefficients -> Int]]

LEMMA SumScaled ==
  ASSUME NEW m \in Nat, NEW f \in [0..(m - 1) -> Int], NEW c \in Int
  PROVE  Sum([j \in 0..(m - 1) |-> c * f[j]], m) = c * Sum(f, m)
  <1>1. PICK z \in [0..(m - 1) -> Int] : z = [j \in 0..(m - 1) |-> 0]
    <2>1. [j \in 0..(m - 1) |-> 0] \in [0..(m - 1) -> Int] OBVIOUS
    <2> QED BY <2>1
  <1>2. Sum([j \in 0..(m - 1) |-> z[j] + c * f[j]], m) = Sum(z, m) + c * Sum(f, m)
    BY SumLinear
  <1>3. \A j \in 0..(m - 1) : z[j] + c * f[j] = c * f[j]
    <2>1. TAKE j \in 0..(m - 1)
    <2>2. PICK y \in Int : y = f[j] OBVIOUS
    <2>3. c * y \in Int BY SMT
    <2> QED BY <1>1, <2>2, <2>3
  <1>4. [j \in 0..(m - 1) |-> z[j] + c * f[j]] = [j \in 0..(m - 1) |-> c * f[j]]
    BY <1>3
  <1>5. Sum(z, m) = 0 BY <1>1, SumOfZeros
  <1>6. c * Sum(f, m) \in Int
    <2>1. Sum(f, m) \in Int BY SumInt
    <2> QED BY <2>1, SMT
  <1> QED BY <1>2, <1>4, <1>5, <1>6

LEMMA InnerScaled ==
  ASSUME NEW m \in Nat, NEW s \in [0..(m - 1) -> Int], NEW x \in [0..(m - 1) -> Int],
         NEW c \in Int
  PROVE  Inner(m, s, [j \in 0..(m - 1) |-> c * x[j]]) = c * Inner(m, s, x)
  <1>1. PICK f \in [0..(m - 1) -> Int] : f = [j \in 0..(m - 1) |-> s[j] * x[j]]
    BY InnerTyped
  <1>2. \A j \in 0..(m - 1) : s[j] * [k \in 0..(m - 1) |-> c * x[k]][j] = c * f[j]
    <2>1. TAKE j \in 0..(m - 1)
    <2>2. PICK y \in Int, z \in Int : y = s[j] /\ z = x[j] OBVIOUS
    <2>3. y * (c * z) = c * (y * z) BY SMT
    <2> QED BY <1>1, <2>2, <2>3
  <1>3. [j \in 0..(m - 1) |-> s[j] * [k \in 0..(m - 1) |-> c * x[k]][j]]
          = [j \in 0..(m - 1) |-> c * f[j]]
    BY <1>2
  <1>4. Sum([j \in 0..(m - 1) |-> c * f[j]], m) = c * Sum(f, m) BY SumScaled
  <1> QED BY <1>1, <1>3, <1>4 DEF Inner

(* Two sums of products, one inside the other, either way round. *)
LEMMA InnersExchanged ==
  ASSUME NEW s \in [Coefficients -> Int], NEW d \in [Coefficients -> Int], NEW table \in Table,
         \A j, k \in Coefficients : table[j][k] = table[k][j]
  PROVE  Inner(N, s, [j \in Coefficients |-> Inner(N, d, table[j])])
       = Inner(N, d, [j \in Coefficients |-> Inner(N, s, table[j])])
  <1>0. N \in Nat /\ Coefficients = 0..(N - 1) BY TorusSize DEF Coefficients
  <1>1. PICK f \in Table :
          \A j, k \in Coefficients : f[j][k] = s[j] * (d[k] * table[j][k])
    <2>1. [j \in Coefficients |-> [k \in Coefficients |-> s[j] * (d[k] * table[j][k])]] \in Table
      <3>1. \A j, k \in Coefficients : s[j] * (d[k] * table[j][k]) \in Int
        <4>1. TAKE j, k \in Coefficients
        <4>2. PICK x \in Int, y \in Int, z \in Int : x = s[j] /\ y = d[k] /\ z = table[j][k]
          BY DEF Table
        <4>3. x * (y * z) \in Int BY SMT
        <4> QED BY <4>2, <4>3
      <3> QED BY <3>1 DEF Table
    <2> QED BY <2>1
  <1>2. ASSUME NEW j \in Coefficients
        PROVE  /\ s[j] * Inner(N, d, table[j]) = Sum([k \in Coefficients |-> f[j][k]], N)
               /\ d[j] * Inner(N, s, table[j]) = Sum([k \in Coefficients |-> f[k][j]], N)
    <2>1. PICK row \in [Coefficients -> Int] : row = table[j] BY DEF Table
    <2>2. PICK g \in [Coefficients -> Int] : g = [k \in Coefficients |-> d[k] * row[k]]
      <3>1. row \in [0..(N - 1) -> Int] /\ d \in [0..(N - 1) -> Int] BY <1>0, <2>1
      <3>2. [k \in 0..(N - 1) |-> d[k] * row[k]] \in [0..(N - 1) -> Int]
        BY <1>0, <3>1, InnerTyped
      <3> QED BY <1>0, <3>2
    <2>3. PICK h \in [Coefficients -> Int] : h = [k \in Coefficients |-> s[k] * row[k]]
      <3>1. row \in [0..(N - 1) -> Int] /\ s \in [0..(N - 1) -> Int] BY <1>0, <2>1
      <3>2. [k \in 0..(N - 1) |-> s[k] * row[k]] \in [0..(N - 1) -> Int]
        BY <1>0, <3>1, InnerTyped
      <3> QED BY <1>0, <3>2
    <2>4. /\ Sum([k \in Coefficients |-> s[j] * g[k]], N) = s[j] * Sum(g, N)
          /\ Sum([k \in Coefficients |-> d[j] * h[k]], N) = d[j] * Sum(h, N)
      <3>1. s[j] \in Int /\ d[j] \in Int OBVIOUS
      <3> QED BY <1>0, <3>1, SumScaled
    <2>5. \A k \in Coefficients : s[j] * g[k] = f[j][k] BY <1>1, <2>1, <2>2
    <2>6. \A k \in Coefficients : d[j] * h[k] = f[k][j]
      <3>1. TAKE k \in Coefficients
      <3>2. PICK x \in Int, y \in Int, z \in Int : x = s[k] /\ y = d[j] /\ z = table[j][k]
        BY DEF Table
      <3>3. x * (y * z) = y * (x * z) BY SMT
      <3> QED BY <1>1, <2>1, <2>3, <3>2, <3>3
    <2>7. /\ [k \in Coefficients |-> s[j] * g[k]] = [k \in Coefficients |-> f[j][k]]
          /\ [k \in Coefficients |-> d[j] * h[k]] = [k \in Coefficients |-> f[k][j]]
      BY <2>5, <2>6
    <2> QED BY <1>0, <2>1, <2>2, <2>3, <2>4, <2>7 DEF Inner
  <1>3. Sum([j \in Coefficients |-> Sum([k \in Coefficients |-> f[j][k]], N)], N)
      = Sum([k \in Coefficients |-> Sum([j \in Coefficients |-> f[j][k]], N)], N)
    <2>1. f \in [0..(N - 1) -> [0..(N - 1) -> Int]] BY <1>0, <1>1 DEF Table
    <2>2. Sum([j \in 0..(N - 1) |-> Sum([k \in 0..(N - 1) |-> f[j][k]], N)], N)
        = Sum([k \in 0..(N - 1) |-> Sum([j \in 0..(N - 1) |-> f[j][k]], N)], N)
      BY <1>0, <2>1, SumExchanged, Zenon
    <2> QED BY <1>0, <2>2
  <1>4. /\ [j \in Coefficients |-> s[j] * [k \in Coefficients |-> Inner(N, d, table[k])][j]]
             = [j \in Coefficients |-> Sum([k \in Coefficients |-> f[j][k]], N)]
        /\ [j \in Coefficients |-> d[j] * [k \in Coefficients |-> Inner(N, s, table[k])][j]]
             = [k \in Coefficients |-> Sum([j \in Coefficients |-> f[j][k]], N)]
    BY <1>2
  <1> QED BY <1>0, <1>3, <1>4 DEF Inner

LEMMA CoefTyped ==
  ASSUME NEW x \in [Coefficients -> Int], NEW e \in (-(2 * N))..(N - 1)
  PROVE  /\ Coef(x, e) \in Int
         /\ e < 0 => e + N \in (-(2 * N))..(N - 1) /\ Coef(x, e) = -Coef(x, e + N)
  <1>1. N \in Nat \ {0} BY TorusSize
  <1>2. CASE e >= 0
    <2>1. e \in Coefficients BY <1>1, <1>2 DEF Coefficients
    <2> QED BY <1>1, <1>2, <2>1 DEF Coef
  <1>3. CASE e < 0 /\ e >= -N
    <2>1. e + N \in Coefficients /\ e + N >= 0 BY <1>1, <1>3 DEF Coefficients
    <2>2. Coef(x, e) = -x[e + N] /\ Coef(x, e + N) = x[e + N] BY <1>1, <1>3, <2>1 DEF Coef
    <2>3. x[e + N] \in Int BY <2>1
    <2> QED BY <1>1, <1>3, <2>2, <2>3
  <1>4. CASE e < -N
    <2>1. e + 2 * N \in Coefficients /\ ~(e >= 0) /\ ~(e >= -N)
          /\ (e + N) + N = e + 2 * N /\ ~(e + N >= 0) /\ e + N >= -N
      BY <1>1, <1>4 DEF Coefficients
    <2>2. Coef(x, e) = x[e + 2 * N] /\ Coef(x, e + N) = -x[e + 2 * N]
      BY <2>1 DEF Coef
    <2>3. x[e + 2 * N] \in Int BY <2>1
    <2> QED BY <1>1, <1>4, <2>2, <2>3
  <1> QED BY <1>1, <1>2, <1>3, <1>4

LEMMA TurnedIs ==
  ASSUME NEW x \in [Coefficients -> Int], NEW m \in Coefficients, NEW j \in Coefficients
  PROVE  m - j \in (-(2 * N))..(N - 1) /\ Turned(x, m)[j] = Coef(x, m - j)
  <1>1. N \in Nat \ {0} BY TorusSize
  <1>2. m \in Int /\ j \in Int /\ m >= 0 /\ j >= 0 /\ m < N /\ j < N
    BY <1>1 DEF Coefficients
  <1>3. CASE j <= m
    BY <1>1, <1>2, <1>3 DEF Turned, Coef
  <1>4. CASE ~(j <= m)
    <2>1. ~(m - j >= 0) /\ m - j >= -N /\ (m - j) + N = N + m - j BY <1>1, <1>2, <1>4
    <2> QED BY <1>1, <1>2, <1>4, <2>1 DEF Turned, Coef
  <1> QED BY <1>3, <1>4

LEMMA ProductTyped ==
  ASSUME NEW u \in [Coefficients -> Int], NEW x \in [Coefficients -> Int]
  PROVE  Product(u, x) \in [Coefficients -> Int]
  <1>0. N \in Nat /\ Coefficients = 0..(N - 1) BY TorusSize DEF Coefficients
  <1>1. \A m \in Coefficients : Inner(N, u, Turned(x, m)) \in Int
    <2>1. TAKE m \in Coefficients
    <2>2. Turned(x, m) \in [0..(N - 1) -> Int] BY TurnedTyped
    <2> QED BY <1>0, <2>2, InnerTyped
  <1> QED BY <1>1 DEF Product

(* A product of x, as a table of the coefficients of x.                     *)
LEMMA TurnedProduct ==
  ASSUME NEW d \in [Coefficients -> Int], NEW x \in [Coefficients -> Int],
         NEW m \in Coefficients, NEW j \in Coefficients
  PROVE  Turned(Product(d, x), m)[j] = Inner(N, d, [k \in Coefficients |-> Coef(x, m - (j + k))])
  <1>0. N \in Nat \ {0} /\ Coefficients = 0..(N - 1) BY TorusSize DEF Coefficients
  <1>1. CASE j <= m
    <2>1. m - j \in Coefficients BY <1>1, TurnedTyped
    <2>2. \A k \in Coefficients : Turned(x, m - j)[k] = Coef(x, m - (j + k))
      <3>1. TAKE k \in Coefficients
      <3>2. Turned(x, m - j)[k] = Coef(x, (m - j) - k) BY <2>1, TurnedIs
      <3>3. (m - j) - k = m - (j + k) BY <1>0
      <3> QED BY <3>2, <3>3
    <2>3. Turned(x, m - j) = [k \in Coefficients |-> Coef(x, m - (j + k))]
      BY <2>2 DEF Turned
    <2>4. Turned(Product(d, x), m)[j] = Product(d, x)[m - j] BY <1>1 DEF Turned
    <2> QED BY <2>1, <2>3, <2>4 DEF Product
  <1>2. CASE ~(j <= m)
    <2> DEFINE r == N + m - j
    <2>1. r \in Coefficients BY <1>2, TurnedTyped
    <2>2. Turned(x, r) \in [0..(N - 1) -> Int] BY <2>1, TurnedTyped
    <2>3. \A k \in Coefficients : (-1) * Turned(x, r)[k] = Coef(x, m - (j + k))
      <3>1. TAKE k \in Coefficients
      <3>2. Turned(x, r)[k] = Coef(x, r - k) BY <2>1, TurnedIs
      <3>3. m - (j + k) \in (-(2 * N))..(N - 1) /\ m - (j + k) < 0 /\ (m - (j + k)) + N = r - k
        BY <1>0, <1>2
      <3>4. Coef(x, m - (j + k)) = -Coef(x, r - k) /\ Coef(x, m - (j + k)) \in Int
        <4>1. Coef(x, m - (j + k)) = -Coef(x, (m - (j + k)) + N) BY <3>3, CoefTyped
        <4> QED BY <3>3, <4>1, CoefTyped
      <3>5. Turned(x, r)[k] \in Int BY <1>0, <2>2
      <3> HIDE DEF r
      <3> QED BY <3>2, <3>4, <3>5
    <2>4. [k \in Coefficients |-> (-1) * Turned(x, r)[k]]
            = [k \in Coefficients |-> Coef(x, m - (j + k))]
      BY <2>3
    <2>5. Inner(N, d, [k \in Coefficients |-> (-1) * Turned(x, r)[k]])
            = (-1) * Inner(N, d, Turned(x, r))
      <3>1. PICK y \in [0..(N - 1) -> Int] : y = Turned(x, r) BY <2>2
      <3>2. d \in [0..(N - 1) -> Int] BY <1>0
      <3>3. Inner(N, d, [k \in 0..(N - 1) |-> (-1) * y[k]]) = (-1) * Inner(N, d, y)
        <4>1. -1 \in Int OBVIOUS
        <4> QED BY <1>0, <3>2, <4>1, InnerScaled, Zenon
      <3> HIDE DEF r
      <3> QED BY <1>0, <3>1, <3>3
    <2>6. Turned(Product(d, x), m)[j] = -(Product(d, x)[r]) BY <1>2 DEF Turned
    <2>7. Inner(N, d, Turned(x, r)) \in Int
      <3> HIDE DEF r
      <3> QED BY <1>0, <2>2, InnerTyped
    <2>8. Product(d, x)[r] = Inner(N, d, Turned(x, r)) BY <2>1 DEF Product
    <2> HIDE DEF r
    <2> QED BY <2>4, <2>5, <2>6, <2>7, <2>8
  <1> QED BY <1>1, <1>2

LEMMA ProductsCommute ==
  ASSUME NEW s \in [Coefficients -> Int], NEW d \in [Coefficients -> Int],
         NEW x \in [Coefficients -> Int]
  PROVE  Product(s, Product(d, x)) = Product(d, Product(s, x))
  <1>0. N \in Nat \ {0} /\ Coefficients = 0..(N - 1) BY TorusSize DEF Coefficients
  <1>1. ASSUME NEW m \in Coefficients
        PROVE  Inner(N, s, Turned(Product(d, x), m)) = Inner(N, d, Turned(Product(s, x), m))
    <2>1. PICK table \in Table :
            table = [j \in Coefficients |-> [k \in Coefficients |-> Coef(x, m - (j + k))]]
      <3>1. \A j, k \in Coefficients : Coef(x, m - (j + k)) \in Int
        <4>1. TAKE j, k \in Coefficients
        <4>2. m - (j + k) \in (-(2 * N))..(N - 1) BY <1>0
        <4> QED BY <4>2, CoefTyped
      <3>2. [j \in Coefficients |-> [k \in Coefficients |-> Coef(x, m - (j + k))]] \in Table
        BY <3>1 DEF Table
      <3> QED BY <3>2
    <2>2. \A j, k \in Coefficients : table[j][k] = table[k][j]
      <3>1. TAKE j, k \in Coefficients
      <3>2. j + k = k + j BY <1>0
      <3> QED BY <2>1, <3>2
    <2>3. ASSUME NEW y \in [Coefficients -> Int]
          PROVE  Turned(Product(y, x), m) = [j \in Coefficients |-> Inner(N, y, table[j])]
      <3>1. ASSUME NEW j \in Coefficients
            PROVE  Turned(Product(y, x), m)[j] = Inner(N, y, table[j])
        <4>1. table[j] = [k \in Coefficients |-> Coef(x, m - (j + k))] BY <2>1
        <4>2. Turned(Product(y, x), m)[j]
                = Inner(N, y, [k \in Coefficients |-> Coef(x, m - (j + k))])
          BY TurnedProduct, Zenon
        <4> QED BY <4>1, <4>2
      <3> QED BY <3>1 DEF Turned
    <2>4. Inner(N, s, [j \in Coefficients |-> Inner(N, d, table[j])])
        = Inner(N, d, [j \in Coefficients |-> Inner(N, s, table[j])])
      BY <2>2, InnersExchanged
    <2> QED BY <2>3, <2>4
  <1>2. \A m \in Coefficients : Product(s, Product(d, x))[m] = Product(d, Product(s, x))[m]
    BY <1>1 DEF Product
  <1>3. /\ Product(s, Product(d, x)) \in [Coefficients -> Int]
        /\ Product(d, Product(s, x)) \in [Coefficients -> Int]
    BY ProductTyped
  <1> QED BY <1>2, <1>3

LEMMA InnerCommutes ==
  ASSUME NEW m \in Nat, NEW s \in [0..(m - 1) -> Int], NEW x \in [0..(m - 1) -> Int]
  PROVE  Inner(m, s, x) = Inner(m, x, s)
  <1>1. \A j \in 0..(m - 1) : s[j] * x[j] = x[j] * s[j]
    <2>1. TAKE j \in 0..(m - 1)
    <2>2. PICK y \in Int, z \in Int : y = s[j] /\ z = x[j] OBVIOUS
    <2>3. y * z = z * y BY SMT
    <2> QED BY <2>2, <2>3
  <1>2. [j \in 0..(m - 1) |-> s[j] * x[j]] = [j \in 0..(m - 1) |-> x[j] * s[j]]
    BY <1>1
  <1> QED BY <1>2 DEF Inner

Unit(k, c) == [j \in Coefficients |-> IF j = k THEN c ELSE 0]

LEMMA InnerUnit ==
  ASSUME NEW s \in [Coefficients -> Int], NEW k \in Coefficients, NEW c \in Int
  PROVE  /\ Unit(k, c) \in [Coefficients -> Int]
         /\ Inner(N, s, Unit(k, c)) = c * s[k] /\ Inner(N, Unit(k, c), s) = c * s[k]
  <1>0. N \in Nat /\ Coefficients = 0..(N - 1) BY TorusSize DEF Coefficients
  <1>1. Unit(k, c) \in [0..(N - 1) -> Int] BY <1>0 DEF Unit
  <1>2. PICK f \in [0..(N - 1) -> Int] : f = [j \in 0..(N - 1) |-> s[j] * Unit(k, c)[j]]
    BY <1>0, <1>1, InnerTyped
  <1>3. PICK z \in [0..(N - 1) -> Int] : z = [j \in 0..(N - 1) |-> 0]
    <2>1. [j \in 0..(N - 1) |-> 0] \in [0..(N - 1) -> Int] OBVIOUS
    <2> QED BY <2>1
  <1>4. \A j \in 0..(N - 1) : j # k => f[j] = z[j]
    <2>1. TAKE j \in 0..(N - 1)
    <2>2. HAVE j # k
    <2>3. PICK y \in Int : y = s[j] BY <1>0
    <2>4. y * 0 = 0 OBVIOUS
    <2> QED BY <1>0, <1>2, <1>3, <2>2, <2>3, <2>4 DEF Unit
  <1>5. f[k] = c * s[k] /\ f[k] \in Int
    <2>1. PICK y \in Int : y = s[k] OBVIOUS
    <2>2. y * c = c * y BY SMT
    <2> QED BY <1>0, <1>2, <2>1, <2>2 DEF Unit
  <1>6. k \in 0..(N - 1) BY <1>0
  <1>7. Sum(f, N) = Sum(z, N) + (f[k] - z[k]) BY <1>0, <1>4, <1>6, SumButOne
  <1>8. Sum(z, N) = 0 /\ z[k] = 0 BY <1>0, <1>3, SumOfZeros
  <1>9. Inner(N, s, Unit(k, c)) = c * s[k] BY <1>2, <1>5, <1>7, <1>8 DEF Inner
  <1>10. s \in [0..(N - 1) -> Int] BY <1>0
  <1> QED BY <1>0, <1>1, <1>9, <1>10, InnerCommutes

One == Unit(0, 1)

LEMMA ProductOne ==
  ASSUME NEW d \in [Coefficients -> Int]
  PROVE  One \in [Coefficients -> Int] /\ Product(d, One) = d
  <1>0. N \in Nat \ {0} /\ Coefficients = 0..(N - 1) /\ 0 \in Coefficients
    BY TorusSize DEF Coefficients
  <1>1. One \in [Coefficients -> Int] BY <1>0 DEF One, Unit
  <1>2. ASSUME NEW m \in Coefficients PROVE Inner(N, d, Turned(One, m)) = d[m]
    <2>1. \A j \in Coefficients : Turned(One, m)[j] = Unit(m, 1)[j]
      <3>1. TAKE j \in Coefficients
      <3>2. CASE j <= m
        <4>1. m - j \in Coefficients /\ (m - j = 0 <=> j = m) BY <1>0, <3>2
        <4> QED BY <3>2, <4>1 DEF Turned, One, Unit
      <3>3. CASE ~(j <= m)
        <4>1. N + m - j \in Coefficients /\ N + m - j # 0 /\ j # m BY <1>0, <3>3
        <4>2. One[N + m - j] = 0 BY <4>1 DEF One, Unit
        <4>3. Turned(One, m)[j] = -One[N + m - j] BY <3>3 DEF Turned
        <4>4. Unit(m, 1)[j] = 0 BY <4>1 DEF Unit
        <4> QED BY <4>2, <4>3, <4>4
      <3> QED BY <3>2, <3>3
    <2>2. Turned(One, m) = Unit(m, 1) BY <2>1 DEF Turned, Unit
    <2>3. d[m] \in Int /\ 1 * d[m] = d[m] OBVIOUS
    <2> QED BY <2>2, <2>3, InnerUnit
  <1>3. \A m \in Coefficients : Product(d, One)[m] = d[m] BY <1>2 DEF Product
  <1> QED BY <1>1, <1>3 DEF Product

LEMMA ProductSwaps ==
  ASSUME NEW s \in [Coefficients -> Int], NEW d \in [Coefficients -> Int]
  PROVE  Product(s, d) = Product(d, s)
  <1>1. Product(s, Product(d, One)) = Product(d, Product(s, One))
    BY ProductOne, ProductsCommute
  <1> QED BY <1>1, ProductOne

(* z is x and c times y. *)
Adds(z, x, c, y) == \A j \in Coefficients : z[j] = x[j] + c * y[j]

LEMMA TurnedAdds ==
  ASSUME NEW x \in [Coefficients -> Int], NEW y \in [Coefficients -> Int], NEW c \in Int,
         NEW z \in [Coefficients -> Int], Adds(z, x, c, y), NEW m \in Coefficients
  PROVE  Adds(Turned(z, m), Turned(x, m), c, Turned(y, m))
  <1>1. ASSUME NEW j \in Coefficients
        PROVE  Turned(z, m)[j] = Turned(x, m)[j] + c * Turned(y, m)[j]
    <2>1. CASE j <= m
      <3>1. m - j \in Coefficients BY <2>1, TurnedTyped
      <3> QED BY <2>1, <3>1 DEF Turned, Adds
    <2>2. CASE ~(j <= m)
      <3>1. N + m - j \in Coefficients BY <2>2, TurnedTyped
      <3>2. PICK v \in Int, w \in Int : v = x[N + m - j] /\ w = y[N + m - j] BY <3>1
      <3>3. z[N + m - j] = v + c * w BY <3>1, <3>2 DEF Adds
      <3>4. -(v + c * w) = (-v) + c * (-w) BY SMT
      <3>5. /\ Turned(z, m)[j] = -(z[N + m - j])
            /\ Turned(x, m)[j] = -x[N + m - j] /\ Turned(y, m)[j] = -y[N + m - j]
        BY <2>2 DEF Turned
      <3> QED BY <3>2, <3>3, <3>4, <3>5
    <2> QED BY <2>1, <2>2
  <1> QED BY <1>1 DEF Adds

LEMMA InnerOfSum ==
  ASSUME NEW u \in [Coefficients -> Int], NEW x \in [Coefficients -> Int],
         NEW y \in [Coefficients -> Int], NEW c \in Int,
         NEW z \in [Coefficients -> Int], Adds(z, x, c, y)
  PROVE  Inner(N, u, z) = Inner(N, u, x) + c * Inner(N, u, y)
  <1>1. N \in Nat /\ Coefficients = 0..(N - 1) BY TorusSize DEF Coefficients
  <1>2. /\ u \in [0..(N - 1) -> Int] /\ x \in [0..(N - 1) -> Int]
        /\ y \in [0..(N - 1) -> Int]
    BY <1>1
  <1>3. Inner(N, u, [j \in 0..(N - 1) |-> x[j] + c * y[j]]) = Inner(N, u, x) + c * Inner(N, u, y)
    BY <1>1, <1>2, InnerLinear, Zenon
  <1>4. z = [j \in 0..(N - 1) |-> x[j] + c * y[j]] BY <1>1 DEF Adds
  <1> QED BY <1>3, <1>4

LEMMA ProductOfSum ==
  ASSUME NEW u \in [Coefficients -> Int], NEW x \in [Coefficients -> Int],
         NEW y \in [Coefficients -> Int], NEW c \in Int, NEW m \in Coefficients,
         NEW z \in [Coefficients -> Int], Adds(z, x, c, y)
  PROVE  Product(u, z)[m] = Product(u, x)[m] + c * Product(u, y)[m]
  <1>1. PICK v \in [Coefficients -> Int], w \in [Coefficients -> Int],
             r \in [Coefficients -> Int] :
          v = Turned(x, m) /\ w = Turned(y, m) /\ r = Turned(z, m)
    BY TurnedTyped DEF Coefficients
  <1>2. Adds(r, v, c, w) BY <1>1, TurnedAdds, Zenon
  <1>3. Inner(N, u, r) = Inner(N, u, v) + c * Inner(N, u, w) BY <1>2, InnerOfSum
  <1> QED BY <1>1, <1>3 DEF Product

LEMMA WithinMinus ==
  ASSUME NEW x \in Int, NEW y \in Int, NEW b \in Nat, Within(x, y, b)
  PROVE  Within(-x, -y, b)
  <1>1. PICK k \in Int : x - y - k * Q \in (-b)..b BY DEF Within
  <1>2. Q \in Int BY TorusSize
  <1>3. (-k) * Q = -(k * Q) /\ k * Q \in Int /\ -k \in Int
    <2>1. PICK q \in Int : q = Q BY <1>2
    <2>2. (-k) * q = -(k * q) /\ k * q \in Int BY SMT
    <2> QED BY <2>1, <2>2
  <1>4. (-x) - (-y) - (-k) * Q \in (-b)..b BY <1>1, <1>3
  <1> QED BY <1>3, <1>4, Zenon DEF Within

LEMMA TurnedWithin ==
  ASSUME NEW x \in [Coefficients -> Int], NEW y \in [Coefficients -> Int], NEW b \in Nat,
         \A j \in Coefficients : Within(x[j], y[j], b), NEW m \in Coefficients
  PROVE  \A j \in Coefficients : Within(Turned(x, m)[j], Turned(y, m)[j], b)
  <1>1. TAKE j \in Coefficients
  <1>2. CASE j <= m
    <2>1. m - j \in Coefficients BY <1>2, TurnedTyped
    <2> QED BY <1>2, <2>1 DEF Turned
  <1>3. CASE ~(j <= m)
    <2>1. N + m - j \in Coefficients BY <1>3, TurnedTyped
    <2>2. PICK v \in Int, w \in Int : v = x[N + m - j] /\ w = y[N + m - j] BY <2>1
    <2>3. Within(-v, -w, b) BY <2>1, <2>2, WithinMinus
    <2> QED BY <1>3, <2>2, <2>3 DEF Turned
  <1> QED BY <1>2, <1>3

LEMMA ProductWithin ==
  ASSUME NEW h \in Nat, NEW u \in [Coefficients -> (-h)..h],
         NEW x \in [Coefficients -> Int], NEW y \in [Coefficients -> Int], NEW b \in Nat,
         \A j \in Coefficients : Within(x[j], y[j], b), NEW m \in Coefficients
  PROVE  Within(Product(u, x)[m], Product(u, y)[m], N * (h * b)) /\ N * (h * b) \in Nat
  <1>0. N \in Nat /\ Coefficients = 0..(N - 1) BY TorusSize DEF Coefficients
  <1>1. PICK v \in [0..(N - 1) -> Int], w \in [0..(N - 1) -> Int] :
          v = Turned(x, m) /\ w = Turned(y, m)
    BY TurnedTyped
  <1>2. u \in [0..(N - 1) -> (-h)..h] BY <1>0
  <1>3. \A j \in 0..(N - 1) : Within(v[j], w[j], b) BY <1>0, <1>1, TurnedWithin
  <1>4. Within(Inner(N, u, v), Inner(N, u, w), N * (h * b)) /\ N * (h * b) \in Nat
    BY <1>0, <1>2, <1>3, InnerWithin
  <1> QED BY <1>1, <1>4 DEF Product

LEMMA ProductSame ==
  ASSUME NEW u \in [Coefficients -> Int],
         NEW x \in [Coefficients -> Int], NEW y \in [Coefficients -> Int],
         \A j \in Coefficients : Within(x[j], y[j], 0), NEW m \in Coefficients
  PROVE  /\ Within(Product(u, x)[m], Product(u, y)[m], 0)
         /\ Within(Product(x, u)[m], Product(y, u)[m], 0)
  <1>0. N \in Nat /\ Coefficients = 0..(N - 1) BY TorusSize DEF Coefficients
  <1>1. PICK v \in [0..(N - 1) -> Int], w \in [0..(N - 1) -> Int] :
          v = Turned(x, m) /\ w = Turned(y, m)
    BY TurnedTyped
  <1>2. u \in [0..(N - 1) -> Int] BY <1>0
  <1>3. \A j \in 0..(N - 1) : Within(v[j], w[j], 0) BY <1>0, <1>1, TurnedWithin
  <1>4. Within(Inner(N, u, v), Inner(N, u, w), 0) BY <1>0, <1>2, <1>3, InnerSame
  <1>5. Within(Product(u, x)[m], Product(u, y)[m], 0) BY <1>1, <1>4 DEF Product
  <1> QED BY <1>5, ProductSwaps

Pairs == [a : [Coefficients -> Int], b : [Coefficients -> Int]]

Phase(s, c) == [m \in Coefficients |-> c.b[m] - Product(s, c.a)[m]]

LEMMA PhaseTyped ==
  ASSUME NEW s \in [Coefficients -> Int], NEW c \in Pairs
  PROVE  /\ Phase(s, c) \in [Coefficients -> Int]
         /\ c.a \in [Coefficients -> Int] /\ c.b \in [Coefficients -> Int]
         /\ Product(s, c.a) \in [Coefficients -> Int]
  <1>1. c.a \in [Coefficients -> Int] /\ c.b \in [Coefficients -> Int] BY DEF Pairs
  <1>2. Product(s, c.a) \in [Coefficients -> Int] BY <1>1, ProductTyped
  <1>3. \A m \in Coefficients : c.b[m] - Product(s, c.a)[m] \in Int
    <2>1. TAKE m \in Coefficients
    <2>2. c.b[m] \in Int /\ Product(s, c.a)[m] \in Int BY <1>1, <1>2
    <2> QED BY <2>2
  <1> QED BY <1>1, <1>2, <1>3 DEF Phase

LEMMA PairsTyped == TRLWEs \subseteq Pairs
  BY PolysTyped DEF TRLWEs, Pairs

LEMMA PhaseIs ==
  ASSUME NEW s \in [Coefficients -> Int], NEW c \in TRLWEs, NEW m \in Coefficients
  PROVE  /\ TRLWEPhase(s, c, m) = Phase(s, c)[m]
         /\ TRLWEDecrypt(s, c) \in Polys
         /\ Within(TRLWEDecrypt(s, c)[m], Phase(s, c)[m], 0)
  <1>1. TRLWEPhase(s, c, m) = Phase(s, c)[m] BY DEF TRLWEPhase, Phase, Product
  <1> QED BY <1>1, TRLWEDecryptIs

LEMMA PlusTimes ==
  ASSUME NEW x \in Int, NEW y \in Int, NEW v \in Int, NEW w \in Int, NEW c \in Int
  PROVE  (x + c * y) - (v + c * w) = (x - v) + c * (y - w)
  BY SMT

(* e is c and k times d. *)
Combines(e, c, k, d) ==
  \A j \in Coefficients : /\ Within(e.a[j], c.a[j] + k * d.a[j], 0)
                          /\ Within(e.b[j], c.b[j] + k * d.b[j], 0)

(* The phase of a sum is the sum of the phases.                             *)
LEMMA PhaseLinear ==
  ASSUME NEW s \in [Coefficients -> Int], NEW e \in Pairs, NEW c \in Pairs, NEW d \in Pairs,
         NEW k \in Int, Combines(e, c, k, d), NEW m \in Coefficients
  PROVE  Within(Phase(s, e)[m], Phase(s, c)[m] + k * Phase(s, d)[m], 0)
  <1>1. PICK x \in [Coefficients -> Int], y \in [Coefficients -> Int],
             z \in [Coefficients -> Int] : x = c.a /\ y = d.a /\ z = e.a
    BY PhaseTyped
  <1>2. PICK sum \in [Coefficients -> Int] : sum = [j \in Coefficients |-> x[j] + k * y[j]]
    <2>1. \A j \in Coefficients : x[j] + k * y[j] \in Int
      <3>1. TAKE j \in Coefficients
      <3>2. PICK v \in Int, w \in Int : v = x[j] /\ w = y[j] OBVIOUS
      <3>3. v + k * w \in Int BY SMT
      <3> QED BY <3>2, <3>3
    <2>2. [j \in Coefficients |-> x[j] + k * y[j]] \in [Coefficients -> Int] BY <2>1
    <2> QED BY <2>2
  <1>3. \A j \in Coefficients : Within(z[j], sum[j], 0) BY <1>1, <1>2 DEF Combines
  <1>4. Within(Product(s, z)[m], Product(s, sum)[m], 0) BY <1>3, ProductSame
  <1>5. Product(s, sum)[m] = Product(s, x)[m] + k * Product(s, y)[m]
    <2>1. Adds(sum, x, k, y) BY <1>2 DEF Adds
    <2> QED BY <2>1, ProductOfSum, SMT
  <1>6. PICK px \in Int, py \in Int, pz \in Int, bx \in Int, by \in Int, bz \in Int :
          /\ px = Product(s, x)[m] /\ py = Product(s, y)[m] /\ pz = Product(s, z)[m]
          /\ bx = c.b[m] /\ by = d.b[m] /\ bz = e.b[m]
    <2>1. /\ Product(s, x)[m] \in Int /\ Product(s, y)[m] \in Int /\ Product(s, z)[m] \in Int
          /\ c.b[m] \in Int /\ d.b[m] \in Int /\ e.b[m] \in Int
      BY <1>1, PhaseTyped
    <2> QED BY <2>1
  <1>7. /\ Phase(s, c)[m] = bx - px /\ Phase(s, d)[m] = by - py /\ Phase(s, e)[m] = bz - pz
    BY <1>1, <1>6 DEF Phase
  <1>8. Within(pz, px + k * py, 0) BY <1>4, <1>5, <1>6
  <1>9. Within(bz, bx + k * by, 0) BY <1>6 DEF Combines
  <1>10. px + k * py \in Int /\ bx + k * by \in Int BY SMT
  <1>11. Within(bz - pz, (bx + k * by) - (px + k * py), 0 + 0) /\ 0 + 0 = 0
    BY <1>8, <1>9, <1>10, WithinSum
  <1>12. (bx + k * by) - (px + k * py) = (bx - px) + k * (by - py) BY PlusTimes
  <1> QED BY <1>7, <1>11, <1>12

LEMMA PhaseAdds ==
  ASSUME NEW s \in [Coefficients -> Int], NEW c \in TRLWEs, NEW d \in TRLWEs,
         NEW m \in Coefficients
  PROVE  /\ Within(Phase(s, TRLWEAdd(c, d))[m], Phase(s, c)[m] + Phase(s, d)[m], 0)
         /\ Within(Phase(s, TRLWESub(c, d))[m], Phase(s, c)[m] - Phase(s, d)[m], 0)
  <1>1. c \in Pairs /\ d \in Pairs /\ TRLWEAdd(c, d) \in Pairs /\ TRLWESub(c, d) \in Pairs
    BY PairsTyped, TRLWEOps
  <1>2. \A j \in Coefficients :
          /\ c.a[j] \in Int /\ d.a[j] \in Int /\ c.b[j] \in Int /\ d.b[j] \in Int
    BY <1>1 DEF Pairs
  <1>3. ASSUME NEW j \in Coefficients
        PROVE  /\ Within(TRLWEAdd(c, d).a[j], c.a[j] + 1 * d.a[j], 0)
               /\ Within(TRLWEAdd(c, d).b[j], c.b[j] + 1 * d.b[j], 0)
               /\ Within(TRLWESub(c, d).a[j], c.a[j] + (-1) * d.a[j], 0)
               /\ Within(TRLWESub(c, d).b[j], c.b[j] + (-1) * d.b[j], 0)
    <2>1. c.a \in [Coefficients -> Int] /\ d.a \in [Coefficients -> Int]
          /\ c.b \in [Coefficients -> Int] /\ d.b \in [Coefficients -> Int]
      BY <1>1 DEF Pairs
    <2>2. /\ Within(PolyAdd(c.a, d.a)[j], c.a[j] + d.a[j], 0)
          /\ Within(PolyAdd(c.b, d.b)[j], c.b[j] + d.b[j], 0)
          /\ Within(PolySub(c.a, d.a)[j], c.a[j] - d.a[j], 0)
          /\ Within(PolySub(c.b, d.b)[j], c.b[j] - d.b[j], 0)
      BY <2>1, PolyOps
    <2>3. /\ TRLWEAdd(c, d).a[j] = PolyAdd(c.a, d.a)[j]
          /\ TRLWEAdd(c, d).b[j] = PolyAdd(c.b, d.b)[j]
          /\ TRLWESub(c, d).a[j] = PolySub(c.a, d.a)[j]
          /\ TRLWESub(c, d).b[j] = PolySub(c.b, d.b)[j]
      BY DEF TRLWEAdd, TRLWESub
    <2>4. /\ c.a[j] + 1 * d.a[j] = c.a[j] + d.a[j] /\ c.b[j] + 1 * d.b[j] = c.b[j] + d.b[j]
          /\ c.a[j] + (-1) * d.a[j] = c.a[j] - d.a[j]
          /\ c.b[j] + (-1) * d.b[j] = c.b[j] - d.b[j]
      BY <1>2
    <2> QED BY <2>2, <2>3, <2>4
  <1>4. -1 \in Int /\ 1 \in Int OBVIOUS
  <1>5. Within(Phase(s, TRLWEAdd(c, d))[m], Phase(s, c)[m] + 1 * Phase(s, d)[m], 0)
    <2>1. Combines(TRLWEAdd(c, d), c, 1, d) BY <1>3 DEF Combines
    <2> QED BY <1>1, <1>4, <2>1, PhaseLinear, Zenon
  <1>6. Within(Phase(s, TRLWESub(c, d))[m], Phase(s, c)[m] + (-1) * Phase(s, d)[m], 0)
    <2>1. Combines(TRLWESub(c, d), c, -1, d) BY <1>3 DEF Combines
    <2> QED BY <1>1, <1>4, <2>1, PhaseLinear, Zenon
  <1>7. Phase(s, c)[m] \in Int /\ Phase(s, d)[m] \in Int BY <1>1, PhaseTyped
  <1> QED BY <1>5, <1>6, <1>7

(* c and u times d, as a level of the external product adds them.           *)
AddProduct(c, u, d) ==
  [a |-> PolyAdd(c.a, negacyclic_convolution(u, d.a)),
   b |-> PolyAdd(c.b, negacyclic_convolution(u, d.b))]

LEMMA AddedProduct ==
  ASSUME NEW x \in Polys, NEW u \in [Coefficients -> Int], NEW y \in Polys
  PROVE  /\ PolyAdd(x, negacyclic_convolution(u, y)) \in Polys
         /\ \A m \in Coefficients :
              Within(PolyAdd(x, negacyclic_convolution(u, y))[m], x[m] + 1 * Product(u, y)[m], 0)
  <1>1. x \in [Coefficients -> Int] /\ y \in [Coefficients -> Int] BY PolysTyped
  <1>2. PICK z \in [Coefficients -> Int] : z = negacyclic_convolution(u, y)
    BY <1>1, ConvolutionIs, PolysTyped
  <1>3. PolyAdd(x, z) \in Polys BY <1>1, PolyOps
  <1>4. ASSUME NEW m \in Coefficients
        PROVE  Within(PolyAdd(x, z)[m], x[m] + 1 * Product(u, y)[m], 0)
    <2>1. Within(PolyAdd(x, z)[m], x[m] + z[m], 0) BY <1>1, PolyOps
    <2>2. Within(z[m], Product(u, y)[m], 0) BY <1>1, <1>2, ConvolutionIs DEF Product
    <2>3. /\ x[m] \in Int /\ z[m] \in Int /\ Product(u, y)[m] \in Int
          /\ PolyAdd(x, z)[m] \in Int
      BY <1>1, <1>3, ProductTyped, PolysTyped
    <2>4. Within(x[m] + z[m], x[m] + Product(u, y)[m], 0 + 0) /\ 0 + 0 = 0
      <3>1. Within(x[m], x[m], 0) /\ 0 \in Nat BY <2>3, WithinItself
      <3>2. Within(x[m] + z[m], x[m] + Product(u, y)[m], 0 + 0)
        BY <2>2, <2>3, <3>1, WithinSum, Zenon
      <3> QED BY <3>2
    <2>5. x[m] + 1 * Product(u, y)[m] = x[m] + Product(u, y)[m] BY <2>3
    <2>6. Within(PolyAdd(x, z)[m], x[m] + Product(u, y)[m], 0 + 0)
      <3>1. x[m] + z[m] \in Int /\ x[m] + Product(u, y)[m] \in Int BY <2>3
      <3> QED BY <2>1, <2>3, <2>4, <3>1, WithinTwo
    <2> QED BY <2>4, <2>5, <2>6
  <1> QED BY <1>2, <1>3, <1>4

(* Multiplying both halves multiplies the phase. *)
LEMMA PhaseOfProduct ==
  ASSUME NEW s \in [Coefficients -> Int], NEW u \in [Coefficients -> Int], NEW d \in Pairs
  PROVE  /\ [a |-> Product(u, d.a), b |-> Product(u, d.b)] \in Pairs
         /\ \A m \in Coefficients :
              Phase(s, [a |-> Product(u, d.a), b |-> Product(u, d.b)])[m]
                = Product(u, Phase(s, d))[m]
  <1>1. d.a \in [Coefficients -> Int] /\ d.b \in [Coefficients -> Int] BY DEF Pairs
  <1>2. PICK f \in Pairs : f = [a |-> Product(u, d.a), b |-> Product(u, d.b)]
    <2>1. [a |-> Product(u, d.a), b |-> Product(u, d.b)] \in Pairs
      BY <1>1, ProductTyped DEF Pairs
    <2> QED BY <2>1
  <1>3. ASSUME NEW m \in Coefficients
        PROVE  Phase(s, f)[m] = Product(u, Phase(s, d))[m]
    <2>1. PICK y \in [Coefficients -> Int] : y = Product(s, d.a) BY <1>1, ProductTyped
    <2>2. Product(s, Product(u, d.a)) = Product(u, y) BY <1>1, <2>1, ProductsCommute
    <2>3. PICK x \in [Coefficients -> Int] : x = d.b BY <1>1
    <2>4. PICK z \in [Coefficients -> Int] : z = Phase(s, d) BY PhaseTyped
    <2>5. \A j \in Coefficients : z[j] = x[j] - y[j] BY <2>1, <2>3, <2>4 DEF Phase
    <2>6. PICK k \in Int : k = -1 OBVIOUS
    <2>7. Adds(z, x, k, y) BY <2>5, <2>6 DEF Adds
    <2>8. Product(u, z)[m] = Product(u, x)[m] + k * Product(u, y)[m]
      BY <2>7, ProductOfSum
    <2>9. Phase(s, f)[m] = Product(u, x)[m] - Product(u, y)[m] BY <1>2, <2>2, <2>3 DEF Phase
    <2>10. Product(u, x)[m] \in Int /\ Product(u, y)[m] \in Int BY ProductTyped
    <2> QED BY <2>4, <2>6, <2>8, <2>9, <2>10
  <1> QED BY <1>2, <1>3

LEMMA ProductKeepsPhase ==
  ASSUME NEW s \in [Coefficients -> Int], NEW c \in TRLWEs, NEW u \in [Coefficients -> Int],
         NEW d \in TRLWEs
  PROVE  /\ AddProduct(c, u, d) \in TRLWEs
         /\ \A m \in Coefficients :
              Within(Phase(s, AddProduct(c, u, d))[m],
                     Phase(s, c)[m] + Product(u, Phase(s, d))[m], 0)
  <1>1. /\ c.a \in Polys /\ c.b \in Polys /\ d.a \in Polys /\ d.b \in Polys
        /\ d.a \in [Coefficients -> Int] /\ d.b \in [Coefficients -> Int]
    BY PolysTyped
  <1>2. AddProduct(c, u, d) \in TRLWEs
    BY <1>1, AddedProduct DEF AddProduct, TRLWEs
  <1>3. PICK f \in Pairs :
          /\ f = [a |-> Product(u, d.a), b |-> Product(u, d.b)]
          /\ \A m \in Coefficients : Phase(s, f)[m] = Product(u, Phase(s, d))[m]
    <2>1. d \in Pairs BY PairsTyped
    <2> QED BY <2>1, PhaseOfProduct
  <1>4. c \in Pairs /\ d \in Pairs /\ AddProduct(c, u, d) \in Pairs BY <1>2, PairsTyped
  <1>5. Combines(AddProduct(c, u, d), c, 1, f)
    BY <1>1, <1>3, AddedProduct DEF AddProduct, Combines
  <1>6. 1 \in Int OBVIOUS
  <1>7. ASSUME NEW m \in Coefficients
        PROVE  Within(Phase(s, AddProduct(c, u, d))[m],
                      Phase(s, c)[m] + Product(u, Phase(s, d))[m], 0)
    <2>1. Within(Phase(s, AddProduct(c, u, d))[m], Phase(s, c)[m] + 1 * Phase(s, f)[m], 0)
      BY <1>4, <1>5, <1>6, PhaseLinear, Zenon
    <2>2. Phase(s, c)[m] \in Int /\ Phase(s, f)[m] \in Int BY <1>4, PhaseTyped
    <2>3. Phase(s, c)[m] + 1 * Phase(s, f)[m] = Phase(s, c)[m] + Phase(s, f)[m] BY <2>2
    <2> QED BY <1>3, <2>1, <2>3
  <1> QED BY <1>2, <1>7

LEMMA EncryptPhase ==
  ASSUME secret \in Keys, NEW mask \in Polys, NEW pt \in Polys,
         NEW error \in [Coefficients -> Int], NEW m \in Coefficients
  PROVE  Within(Phase(secret.r, TRLWEEncrypt(secret.r, mask, pt, error))[m], pt[m] + error[m], 0)
  <1> DEFINE noise == [j \in Coefficients |-> error[j] % Q]
             first == PolyAdd(pt, negacyclic_convolution(secret.r, mask))
  <1>1. secret.r \in [Coefficients -> Int] BY KeysTyped DEF Coefficients
  <1>2. first \in Polys /\ Within(first[m], pt[m] + 1 * Product(secret.r, mask)[m], 0)
    BY <1>1, AddedProduct
  <1>3. noise \in Polys
    <2>1. ASSUME NEW j \in Coefficients PROVE error[j] % Q \in Torus
      <3>1. error[j] \in Int OBVIOUS
      <3> QED BY <3>1, Reduced
    <2> QED BY <2>1 DEF Polys
  <1>4. error[m] \in Int /\ noise[m] = error[m] % Q OBVIOUS
  <1>5. Within(noise[m], error[m], 0) BY <1>4, Reduced
  <1>6. Phase(secret.r, TRLWEEncrypt(secret.r, mask, pt, error))[m]
          = PolyAdd(first, noise)[m] - Product(secret.r, mask)[m]
    BY DEF Phase, TRLWEEncrypt
  <1> HIDE DEF noise, first
  <1>7. first \in [Coefficients -> Int] /\ noise \in [Coefficients -> Int]
        /\ pt \in [Coefficients -> Int] /\ mask \in [Coefficients -> Int]
    BY <1>2, <1>3, PolysTyped
  <1>8. PolyAdd(first, noise) \in [Coefficients -> Int] BY <1>7, PolyOps, PolysTyped
  <1>9. Within(PolyAdd(first, noise)[m], first[m] + noise[m], 0) BY <1>7, PolyOps
  <1>10. PICK x \in Int, y \in Int, z \in Int, v \in Int, w \in Int, e \in Int :
           /\ x = pt[m] /\ y = Product(secret.r, mask)[m] /\ z = error[m]
           /\ v = first[m] /\ w = noise[m] /\ e = PolyAdd(first, noise)[m]
    <2>1. /\ pt[m] \in Int /\ first[m] \in Int /\ noise[m] \in Int
          /\ PolyAdd(first, noise)[m] \in Int
      BY <1>7, <1>8
    <2>2. Product(secret.r, mask)[m] \in Int BY <1>1, <1>7, ProductTyped
    <2> QED BY <1>4, <2>1, <2>2
  <1>11. Within(v, x + y, 0) BY <1>2, <1>10
  <1>12. Within(w, z, 0) BY <1>5, <1>10
  <1>13. Within(e, v + w, 0) BY <1>9, <1>10
  <1>14. Within(v + w, (x + y) + z, 0)
    <2>1. x + y \in Int /\ 0 \in Nat /\ 0 + 0 = 0 OBVIOUS
    <2>2. Within(v + w, (x + y) + z, 0 + 0) BY <1>11, <1>12, <2>1, WithinSum, Zenon
    <2> QED BY <2>1, <2>2
  <1>15. Within(e, (x + y) + z, 0)
    <2>1. v + w \in Int /\ (x + y) + z \in Int /\ 0 \in Nat /\ 0 + 0 = 0 OBVIOUS
    <2>2. Within(e, (x + y) + z, 0 + 0) BY <1>13, <1>14, <2>1, WithinTwo, Zenon
    <2> QED BY <2>1, <2>2
  <1>16. Within(e - y, ((x + y) + z) - y, 0)
    <2>1. (x + y) + z \in Int /\ 0 \in Nat /\ 0 + 0 = 0 OBVIOUS
    <2>2. Within(y, y, 0) BY WithinItself
    <2>3. Within(e - y, ((x + y) + z) - y, 0 + 0) BY <1>15, <2>1, <2>2, WithinSum, Zenon
    <2> QED BY <2>1, <2>3
  <1>17. ((x + y) + z) - y = x + z OBVIOUS
  <1> QED BY <1>6, <1>10, <1>16, <1>17

LEMMA NothingTimes ==
  ASSUME NEW s \in [Coefficients -> Int], NEW m \in Coefficients
  PROVE  Product(s, Zero)[m] = 0 /\ Zero \in [Coefficients -> Int]
  <1>1. PICK one \in [Coefficients -> Int] : one = One
    <2>1. Zero \in [Coefficients -> Int] BY DEF Zero
    <2> QED BY <2>1, ProductOne
  <1>2. Zero \in [Coefficients -> Int] BY DEF Zero
  <1>3. -1 \in Int OBVIOUS
  <1>4. Adds(Zero, one, -1, one)
    <2>1. ASSUME NEW j \in Coefficients PROVE 0 = one[j] + (-1) * one[j]
      <3>1. one[j] \in Int OBVIOUS
      <3> QED BY <3>1
    <2> QED BY <2>1 DEF Adds, Zero
  <1>5. Product(s, Zero)[m] = Product(s, one)[m] + (-1) * Product(s, one)[m]
    BY <1>2, <1>3, <1>4, ProductOfSum
  <1>6. Product(s, one)[m] \in Int BY ProductTyped
  <1> QED BY <1>2, <1>5, <1>6

(* What a row of a TRGSW adds to the phase of a sample of zero. *)
LEMMA FoldPhase ==
  ASSUME secret \in Keys, NEW rows \in [Rows -> TRLWEs], NEW x \in Int, NEW row \in 0..(l - 1),
         NEW m \in Coefficients
  PROVE  /\ row \in Rows /\ l + row \in Rows
         /\ Within(Phase(secret.r, Fold(rows, x)[row])[m],
                   Phase(secret.r, rows[row])[m] - GadgetValue(x, row) * secret.r[m], 0)
         /\ Within(Phase(secret.r, Fold(rows, x)[l + row])[m],
                   Phase(secret.r, rows[l + row])[m] + GadgetValue(x, row) * One[m], 0)
  <1>0. 0 \in Coefficients BY TorusSize DEF Coefficients
  <1>1. row \in Rows /\ l + row \in Rows /\ row < l /\ ~(l + row < l) /\ (l + row) - l = row
    BY Sizes DEF Rows
  <1>2. PICK v \in Int : v = GadgetValue(x, row) BY GadgetPlace
  <1>3. PICK s \in [Coefficients -> Int] : s = secret.r BY KeysTyped DEF Coefficients
  <1>4. One \in [Coefficients -> Int] /\ Zero \in [Coefficients -> Int]
    BY <1>3, ProductOne, NothingTimes
  <1>5. PICK ina \in Pairs, inb \in Pairs :
          ina = [a |-> One, b |-> Zero] /\ inb = [a |-> Zero, b |-> One]
    BY <1>4 DEF Pairs
  <1>6. Phase(s, ina)[m] = -(s[m]) /\ Phase(s, inb)[m] = One[m]
    <2>1. Product(s, One)[m] = s[m] BY ProductOne
    <2>2. Product(s, Zero)[m] = 0 BY NothingTimes
    <2>3. Zero[m] = 0 /\ One[m] \in Int /\ s[m] \in Int BY <1>4 DEF Zero
    <2> QED BY <1>5, <2>1, <2>2, <2>3 DEF Phase
  <1>7. ASSUME NEW y \in [Coefficients -> Int], NEW j \in Coefficients
        PROVE  /\ Within([y EXCEPT ![0] = ModTorusAdd(Q, @, v)][j], y[j] + v * One[j], 0)
               /\ Within(y[j], y[j] + v * Zero[j], 0)
    <2>1. PICK z \in Int : z = y[j] OBVIOUS
    <2>2. v * 0 = 0 /\ v * 1 = v OBVIOUS
    <2>3. Within(z, z, 0) BY WithinItself
    <2>4. Within(y[j], y[j] + v * Zero[j], 0) BY <2>1, <2>2, <2>3 DEF Zero
    <2>5. CASE j = 0
      <3>1. Within(ModTorusAdd(Q, z, v), z + v, 0) BY TorusOps
      <3>2. One[j] = 1 BY <2>5, <1>0 DEF One, Unit
      <3> QED BY <2>1, <2>2, <2>4, <2>5, <3>1, <3>2
    <2>6. CASE j # 0
      <3>1. One[j] = 0 BY <2>6 DEF One, Unit
      <3>2. [y EXCEPT ![0] = ModTorusAdd(Q, @, v)][j] = z BY <2>1, <2>6
      <3> QED BY <2>1, <2>2, <2>3, <2>4, <3>1, <3>2
    <2> QED BY <2>5, <2>6
  <1>8. Fold(rows, x) \in [Rows -> TRLWEs] BY FoldTyped
  <1>9. Within(Phase(s, Fold(rows, x)[row])[m], Phase(s, rows[row])[m] + v * Phase(s, ina)[m], 0)
    <2>1. PICK c \in TRLWEs : c = rows[row] BY <1>1
    <2>2. PICK e \in TRLWEs : e = Fold(rows, x)[row] BY <1>1, <1>8
    <2>3. e = [c EXCEPT !.a[0] = ModTorusAdd(Q, @, v)] BY <1>1, <1>2, <2>1, <2>2 DEF Fold
    <2>4. c = [a |-> c.a, b |-> c.b] BY DEF TRLWEs
    <2>5. e.a = [c.a EXCEPT ![0] = ModTorusAdd(Q, @, v)] /\ e.b = c.b BY <2>3, <2>4
    <2>6. c.a \in [Coefficients -> Int] /\ c.b \in [Coefficients -> Int] BY PolysTyped
    <2>7. Combines(e, c, v, ina) BY <1>5, <1>7, <2>5, <2>6 DEF Combines
    <2>8. c \in Pairs /\ e \in Pairs BY PairsTyped
    <2> QED BY <2>1, <2>2, <2>7, <2>8, PhaseLinear
  <1>10. Within(Phase(s, Fold(rows, x)[l + row])[m],
                Phase(s, rows[l + row])[m] + v * Phase(s, inb)[m], 0)
    <2>1. PICK c \in TRLWEs : c = rows[l + row] BY <1>1
    <2>2. PICK e \in TRLWEs : e = Fold(rows, x)[l + row] BY <1>1, <1>8
    <2>3. e = [c EXCEPT !.b[0] = ModTorusAdd(Q, @, v)] BY <1>1, <1>2, <2>1, <2>2 DEF Fold
    <2>4. c = [a |-> c.a, b |-> c.b] BY DEF TRLWEs
    <2>5. e.b = [c.b EXCEPT ![0] = ModTorusAdd(Q, @, v)] /\ e.a = c.a BY <2>3, <2>4
    <2>6. c.a \in [Coefficients -> Int] /\ c.b \in [Coefficients -> Int] BY PolysTyped
    <2>7. Combines(e, c, v, inb) BY <1>5, <1>7, <2>5, <2>6 DEF Combines
    <2>8. c \in Pairs /\ e \in Pairs BY PairsTyped
    <2> QED BY <2>1, <2>2, <2>7, <2>8, PhaseLinear
  <1>11. Phase(s, rows[row])[m] + v * Phase(s, ina)[m]
           = Phase(s, rows[row])[m] - v * s[m]
    <2>1. PICK z \in Int, w \in Int : z = Phase(s, rows[row])[m] /\ w = s[m]
      <3>1. rows[row] \in Pairs BY <1>1, PairsTyped
      <3>2. Phase(s, rows[row])[m] \in Int /\ s[m] \in Int BY <3>1, PhaseTyped
      <3> QED BY <3>2
    <2>2. z + v * (-w) = z - v * w BY SMT
    <2> QED BY <1>6, <2>1, <2>2
  <1> QED BY <1>1, <1>2, <1>3, <1>6, <1>9, <1>10, <1>11

(* Rows that are samples of zero, up to their noise. *)
OfZero(rows, noise) ==
  \A row \in Rows, m \in Coefficients : Within(Phase(secret.r, rows[row])[m], 0, noise)

(* A row's error moves a phase by one at most. *)
LEMMA EncryptNear ==
  ASSUME secret \in Keys, NEW mask \in Polys, NEW pt \in Polys, NEW sign \in {-1, 1},
         NEW row \in Int, NEW m \in Coefficients
  PROVE  Within(Phase(secret.r, TRLWEEncrypt(secret.r, mask, pt, RowError(sign, row)))[m],
                pt[m], 1)
  <1>1. /\ RowError(sign, row) \in [Coefficients -> {-1, 1}]
        /\ RowError(sign, row) \in [Coefficients -> Int]
    BY RowTyped
  <1>2. PICK e \in {-1, 1}, x \in Int : e = RowError(sign, row)[m] /\ x = pt[m]
    BY <1>1, PolysTyped
  <1>3. PICK y \in Int :
          y = Phase(secret.r, TRLWEEncrypt(secret.r, mask, pt, RowError(sign, row)))[m]
    <2>1. secret.r \in [Coefficients -> Int] BY KeysTyped DEF Coefficients
    <2>2. TRLWEEncrypt(secret.r, mask, pt, RowError(sign, row)) \in Pairs
      BY <1>1, TRLWEEncryptTyped, PairsTyped
    <2> QED BY <2>1, <2>2, PhaseTyped
  <1>4. Within(y, x + e, 0) BY <1>1, <1>2, <1>3, EncryptPhase
  <1>5. Within(x + e, x, 1)
    <2>1. (x + e) - x - 0 * Q \in (-1)..1 /\ 0 \in Int
      <3>1. 0 * Q = 0 BY TorusSize
      <3> QED BY <3>1
    <2> QED BY <2>1, Zenon DEF Within
  <1>6. x + e \in Int /\ 0 \in Nat /\ 1 \in Nat /\ 0 + 1 = 1 OBVIOUS
  <1>7. Within(y, x, 0 + 1) BY <1>4, <1>5, <1>6, WithinTwo, Zenon
  <1> QED BY <1>2, <1>3, <1>6, <1>7

LEMMA ZeroRowPhase ==
  ASSUME secret \in Keys, NEW sign \in {-1, 1}, NEW row \in Int, NEW m \in Coefficients
  PROVE  Within(Phase(secret.r, ZeroRow(sign, row))[m], 0, 1)
  <1>1. RowMask(row) \in Polys /\ Zero \in Polys BY RowTyped, PolysTyped
  <1>2. Zero[m] = 0 BY DEF Zero
  <1> QED BY <1>1, <1>2, EncryptNear DEF ZeroRow

LEMMA OfZeroAdds ==
  ASSUME secret \in Keys, NEW f \in [Rows -> TRLWEs], NEW g \in [Rows -> TRLWEs],
         NEW x \in Nat, NEW y \in Nat, OfZero(f, x), OfZero(g, y)
  PROVE  TRGSWAdd(f, g) \in [Rows -> TRLWEs] /\ OfZero(TRGSWAdd(f, g), x + y)
  <1>1. \A row \in Rows : TRGSWAdd(f, g)[row] = TRLWEAdd(f[row], g[row])
    BY DEF TRGSWAdd
  <1>2. \A row \in Rows : TRLWEAdd(f[row], g[row]) \in TRLWEs BY TRLWEOps
  <1>3. TRGSWAdd(f, g) \in [Rows -> TRLWEs] BY <1>2 DEF TRGSWAdd
  <1>4. ASSUME NEW row \in Rows, NEW m \in Coefficients
        PROVE  Within(Phase(secret.r, TRGSWAdd(f, g)[row])[m], 0, x + y)
    <2>1. secret.r \in [Coefficients -> Int] BY KeysTyped DEF Coefficients
    <2>2. f[row] \in TRLWEs /\ g[row] \in TRLWEs /\ TRLWEAdd(f[row], g[row]) \in TRLWEs BY <1>2
    <2>3. PICK u \in Int, v \in Int, w \in Int :
            /\ u = Phase(secret.r, f[row])[m] /\ v = Phase(secret.r, g[row])[m]
            /\ w = Phase(secret.r, TRLWEAdd(f[row], g[row]))[m]
      <3>1. /\ Phase(secret.r, f[row])[m] \in Int /\ Phase(secret.r, g[row])[m] \in Int
            /\ Phase(secret.r, TRLWEAdd(f[row], g[row]))[m] \in Int
        BY <2>1, <2>2, PairsTyped, PhaseTyped
      <3> QED BY <3>1
    <2>4. Within(w, u + v, 0) BY <2>1, <2>2, <2>3, PhaseAdds
    <2>5. Within(u, 0, x) /\ Within(v, 0, y) BY <2>3 DEF OfZero
    <2>6. 0 \in Int /\ 0 \in Nat /\ 0 + 0 = 0 /\ u + v \in Int /\ x + y \in Nat
          /\ 0 + (x + y) = x + y
      OBVIOUS
    <2>7. Within(u + v, 0 + 0, x + y) BY <2>5, <2>6, WithinSum, Zenon
    <2>8. Within(u + v, 0, x + y) BY <2>6, <2>7
    <2>9. Within(w, 0, 0 + (x + y)) BY <2>4, <2>6, <2>8, WithinTwo, Zenon
    <2> QED BY <1>1, <2>3, <2>6, <2>9
  <1> QED BY <1>3, <1>4 DEF OfZero

LEMMA RowNoiseNat == RowNoise \in Nat
  BY DEF RowNoise

(* The key: row by row, minus the bit, scaled, times the secret, or the bit, *)
(* scaled, in the constant coefficient, up to the rows' noise.               *)
KeyRows ==
  \A j \in 0..(l - 1), m \in Coefficients :
    /\ Within(Phase(secret.r, trgsw[j])[m], -(GadgetValue(bit, j) * secret.r[m]), RowNoise)
    /\ Within(Phase(secret.r, trgsw[l + j])[m], GadgetValue(bit, j) * One[m], RowNoise)

LEMMA FoldOfZero ==
  ASSUME secret \in Keys, NEW rows \in [Rows -> TRLWEs], NEW x \in Int, NEW noise \in Nat,
         OfZero(rows, noise), NEW j \in 0..(l - 1), NEW m \in Coefficients
  PROVE  /\ Within(Phase(secret.r, Fold(rows, x)[j])[m],
                   -(GadgetValue(x, j) * secret.r[m]), noise)
         /\ Within(Phase(secret.r, Fold(rows, x)[l + j])[m], GadgetValue(x, j) * One[m], noise)
  <1>1. j \in Rows /\ l + j \in Rows BY FoldPhase
  <1>2. secret.r \in [Coefficients -> Int] BY KeysTyped DEF Coefficients
  <1>3. Fold(rows, x) \in [Rows -> TRLWEs] BY FoldTyped
  <1>4. PICK e \in Int, f \in Int, g \in Int, h \in Int :
          /\ e = Phase(secret.r, Fold(rows, x)[j])[m] /\ f = Phase(secret.r, rows[j])[m]
          /\ g = Phase(secret.r, Fold(rows, x)[l + j])[m] /\ h = Phase(secret.r, rows[l + j])[m]
    <2>1. /\ Fold(rows, x)[j] \in Pairs /\ rows[j] \in Pairs
          /\ Fold(rows, x)[l + j] \in Pairs /\ rows[l + j] \in Pairs
      BY <1>1, <1>3, PairsTyped
    <2>2. /\ Phase(secret.r, Fold(rows, x)[j])[m] \in Int /\ Phase(secret.r, rows[j])[m] \in Int
          /\ Phase(secret.r, Fold(rows, x)[l + j])[m] \in Int
          /\ Phase(secret.r, rows[l + j])[m] \in Int
      BY <1>2, <2>1, PhaseTyped
    <2> QED BY <2>2
  <1>5. PICK v \in Int, w \in Int :
          v = GadgetValue(x, j) * secret.r[m] /\ w = GadgetValue(x, j) * One[m]
    <2>1. PICK y \in Int, z \in Int, o \in Int :
            y = GadgetValue(x, j) /\ z = secret.r[m] /\ o = One[m]
      <3>1. GadgetValue(x, j) \in Int /\ secret.r[m] \in Int BY <1>2, GadgetPlace
      <3>2. One[m] \in Int BY <1>2, ProductOne
      <3> QED BY <3>1, <3>2
    <2>2. y * z \in Int /\ y * o \in Int BY SMT
    <2> QED BY <2>1, <2>2
  <1>6. Within(e, f - v, 0) /\ Within(g, h + w, 0) BY <1>4, <1>5, FoldPhase
  <1>7. Within(f, 0, noise) /\ Within(h, 0, noise) BY <1>1, <1>4 DEF OfZero
  <1>8. /\ 0 \in Int /\ 0 \in Nat /\ f - v \in Int /\ h + w \in Int
        /\ noise + 0 = noise /\ 0 + noise = noise /\ 0 - v = -v /\ 0 + w = w /\ -v \in Int
    OBVIOUS
  <1>9. Within(v, v, 0) /\ Within(w, w, 0) BY WithinItself
  <1>10. Within(f - v, 0 - v, noise + 0) /\ Within(h + w, 0 + w, noise + 0)
    BY <1>7, <1>8, <1>9, WithinSum, Zenon
  <1>11. Within(f - v, -v, noise) /\ Within(h + w, w, noise) BY <1>8, <1>10
  <1>12. Within(e, -v, 0 + noise) /\ Within(g, w, 0 + noise)
    BY <1>6, <1>8, <1>11, WithinTwo, Zenon
  <1> QED BY <1>4, <1>5, <1>8, <1>12

LEMMA KeyMade ==
  ASSUME RoundInvariant, MakeKey
  PROVE  KeyRows'
  <1>1. secret \in Keys /\ bit \in {0, 1} BY DEF RoundInvariant, Typed
  <1>2. PICK sign \in {-1, 1} :
          \/ maker = "bootstrap_key" /\ trgsw' = BootstrapKeyEntry(sign, bit)
          \/ maker = "trgsw" /\ trgsw' = TRGSWEncrypt(sign, bit)
          \/ maker = "public" /\ \E chosen \in SUBSET {1, 2} :
               trgsw' = TRGSWPublicEncrypt(sign, chosen, bit)
    BY GivenTyped DEF MakeKey
  <1>3. bit \in Int /\ Rows \subseteq Int BY <1>1, Sizes DEF Rows
  <1>4. PICK rows \in [Rows -> TRLWEs] : OfZero(rows, RowNoise) /\ trgsw' = Fold(rows, bit)
    <2> DEFINE sample(k) == [row \in Rows |-> ZeroRow(sign, row + k)]
    <2>1. ASSUME NEW k \in Nat
          PROVE  sample(k) \in [Rows -> TRLWEs] /\ OfZero(sample(k), 1)
      <3>1. \A row \in Rows : row + k \in Int BY <1>3
      <3>2. \A row \in Rows : ZeroRow(sign, row + k) \in TRLWEs BY <1>1, <3>1, KeyTyped
      <3>3. \A row \in Rows, m \in Coefficients :
              Within(Phase(secret.r, ZeroRow(sign, row + k))[m], 0, 1)
        BY <1>1, <3>1, ZeroRowPhase
      <3> QED BY <3>2, <3>3 DEF OfZero
    <2>2. /\ [row \in Rows |-> ZeroRow(sign, row)] \in [Rows -> TRLWEs]
          /\ OfZero([row \in Rows |-> ZeroRow(sign, row)], 1)
      <3>1. \A row \in Rows : row + 0 = row BY <1>3
      <3>2. \A row \in Rows : ZeroRow(sign, row + 0) = ZeroRow(sign, row) BY <3>1
      <3>3. sample(0) = [row \in Rows |-> ZeroRow(sign, row)] BY <3>2
      <3>4. 0 \in Nat OBVIOUS
      <3> HIDE DEF sample
      <3> QED BY <2>1, <3>3, <3>4
    <2>3. CASE maker = "bootstrap_key"
      <3>1. RowNoise = 1 /\ trgsw' = Fold([row \in Rows |-> ZeroRow(sign, row)], bit)
        BY <1>2, <2>3 DEF RowNoise, BootstrapKeyEntry
      <3> QED BY <2>2, <3>1
    <2>4. CASE maker = "trgsw"
      <3>1. RowNoise = 1 /\ trgsw' = Fold([row \in Rows |-> ZeroRow(sign, row)], bit)
        BY <1>2, <2>4
        DEF RowNoise, TRGSWEncrypt, AssignProduct, ZeroRow, TRLWEEncrypt
      <3> QED BY <2>2, <3>1
    <2>5. CASE maker = "public"
      <3>1. PICK chosen \in SUBSET {1, 2} : trgsw' = TRGSWPublicEncrypt(sign, chosen, bit)
        BY <1>2, <2>5
      <3> DEFINE plus(f, k) == IF k \in chosen THEN TRGSWAdd(f, sample(k)) ELSE f
                 none == [row \in Rows |-> TRLWEZero]
      <3>2. ASSUME NEW f \in [Rows -> TRLWEs], NEW k \in {1, 2}, NEW x \in Nat, OfZero(f, x)
            PROVE  plus(f, k) \in [Rows -> TRLWEs] /\ OfZero(plus(f, k), x + 1)
        <4>1. CASE k \in chosen
          <5>1. sample(k) \in [Rows -> TRLWEs] /\ OfZero(sample(k), 1) /\ 1 \in Nat BY <2>1
          <5> HIDE DEF sample
          <5> QED BY <1>1, <3>2, <4>1, <5>1, OfZeroAdds
        <4>2. CASE k \notin chosen
          <5>1. OfZero(f, x + 1)
            <6>1. ASSUME NEW row \in Rows, NEW m \in Coefficients
                  PROVE  Within(Phase(secret.r, f[row])[m], 0, x + 1)
              <7>1. secret.r \in [Coefficients -> Int] BY <1>1, KeysTyped DEF Coefficients
              <7>2. f[row] \in Pairs BY PairsTyped
              <7>3. Phase(secret.r, f[row])[m] \in Int BY <7>1, <7>2, PhaseTyped
              <7>4. Within(Phase(secret.r, f[row])[m], 0, x) BY <3>2 DEF OfZero
              <7> QED BY <7>3, <7>4, WithinMore
            <6> QED BY <6>1 DEF OfZero
          <5> QED BY <4>2, <5>1
        <4> QED BY <4>1, <4>2
      <3>3. none \in [Rows -> TRLWEs] /\ OfZero(none, 0)
        <4>1. none \in [Rows -> TRLWEs] BY PolysTyped
        <4>2. ASSUME NEW m \in Coefficients PROVE Within(Phase(secret.r, TRLWEZero)[m], 0, 0)
          <5>1. secret.r \in [Coefficients -> Int] BY <1>1, KeysTyped DEF Coefficients
          <5>2. Product(secret.r, Zero)[m] = 0 BY <5>1, NothingTimes
          <5>3. Phase(secret.r, TRLWEZero)[m] = 0 BY <5>2 DEF Phase, TRLWEZero, Zero
          <5> QED BY <5>3, WithinItself
        <4>3. \A row \in Rows : none[row] = TRLWEZero OBVIOUS
        <4> QED BY <4>1, <4>2, <4>3 DEF OfZero
      <3>4. trgsw' = Fold(plus(plus(none, 1), 2), bit) BY <3>1 DEF TRGSWPublicEncrypt
      <3> HIDE DEF plus, none
      <3>5. plus(none, 1) \in [Rows -> TRLWEs] /\ OfZero(plus(none, 1), 1)
        <4>1. 1 \in {1, 2} /\ 0 \in Nat /\ 0 + 1 = 1 OBVIOUS
        <4>2. plus(none, 1) \in [Rows -> TRLWEs] /\ OfZero(plus(none, 1), 0 + 1)
          BY <3>2, <3>3, <4>1, Zenon
        <4> QED BY <4>1, <4>2
      <3>6. plus(plus(none, 1), 2) \in [Rows -> TRLWEs] /\ OfZero(plus(plus(none, 1), 2), 2)
        <4>1. 2 \in {1, 2} /\ 1 \in Nat /\ 1 + 1 = 2 OBVIOUS
        <4>2. plus(plus(none, 1), 2) \in [Rows -> TRLWEs] /\ OfZero(plus(plus(none, 1), 2), 1 + 1)
          BY <3>2, <3>5, <4>1, Zenon
        <4> QED BY <4>1, <4>2
      <3>7. RowNoise = 2 BY <2>5 DEF RowNoise
      <3> QED BY <3>4, <3>6, <3>7
    <2> QED BY <1>1, <2>3, <2>4, <2>5 DEF RoundInvariant, Typed
  <1>5. secret' = secret /\ bit' = bit /\ maker' = maker BY DEF MakeKey
  <1>6. RowNoise' = RowNoise BY <1>5 DEF RowNoise
  <1>7. RowNoise \in Nat BY RowNoiseNat
  <1>8. ASSUME NEW j \in 0..(l - 1), NEW m \in Coefficients
        PROVE  /\ Within(Phase(secret.r, trgsw'[j])[m], -(GadgetValue(bit, j) * secret.r[m]), RowNoise)
               /\ Within(Phase(secret.r, trgsw'[l + j])[m], GadgetValue(bit, j) * One[m], RowNoise)
    BY <1>1, <1>3, <1>4, <1>7, FoldOfZero
  <1> QED BY <1>5, <1>6, <1>8 DEF KeyRows

(* A UInt is a number of whole turns, as when both are powers of two and the *)
(* Torus is no wider: a digit, which is stored as a UInt, keeps its sign     *)
(* on the circle.                                                            *)
UIntCoversTorus == \E turns \in 1..UIntLimit : UIntLimit = turns * Q

LEMMA SignedSame ==
  ASSUME UIntCoversTorus, NEW u \in Int
  PROVE  Signed(u) \in Int /\ Within(u, Signed(u), 0)
  <1>1. UIntLimit \in Nat BY DigitsAssumption
  <1>2. PICK turns \in Int : UIntLimit = turns * Q BY <1>1 DEF UIntCoversTorus
  <1>3. CASE 2 * u >= UIntLimit
    <2>1. Signed(u) = u - UIntLimit /\ u - UIntLimit \in Int BY <1>1, <1>3 DEF Signed
    <2>2. u - (u - UIntLimit) - turns * Q \in (-0)..0 BY <1>1, <1>2
    <2>3. Within(u, u - UIntLimit, 0) BY <2>2, Zenon DEF Within
    <2> QED BY <2>1, <2>3
  <1>4. CASE ~(2 * u >= UIntLimit)
    <2>1. Signed(u) = u BY <1>4 DEF Signed
    <2> QED BY <2>1, WithinItself
  <1> QED BY <1>3, <1>4

LEMMA GadgetDigits ==
  ASSUME NEW v \in Torus
  PROVE  LET digit == DigitsOf(gadget, balanced_decompose, v)
         IN  /\ HalfBase \in Nat /\ Round(gadget) \in Nat
             /\ \A j \in 0..(l - 1) : Signed(digit[j]) \in (-HalfBase)..HalfBase
             /\ Recomposed(gadget, digit)
                  = Sum([j \in 0..(l - 1) |-> Signed(digit[j]) * pow2[Shift(gadget, j)]], l)
             /\ Recomposed(gadget, digit) \in Int
             /\ Within(Recomposed(gadget, digit), v, Round(gadget))
  <1> DEFINE digit == DigitsOf(gadget, balanced_decompose, v)
  <1>1. gadget.qbit = qbit /\ gadget.bits = Bbit /\ gadget.len = l /\ Places(gadget) = 0..(l - 1)
    BY DEF gadget, Places
  <1>2. v \in 0..(pow2[gadget.qbit] - 1) /\ Q = pow2[gadget.qbit] BY <1>1 DEF Torus, Q
  <1>3. /\ \A j \in Places(gadget) :
             Signed(digit[j]) \in -(BaseOf(gadget) \div 2)..(BaseOf(gadget) \div 2 - 1)
        /\ Near(Q, Recomposed(gadget, digit), v, Round(gadget))
    BY <1>2, Sizes, BalancedNear
  <1>4. BaseOf(gadget) \div 2 = HalfBase /\ HalfBase \in Nat \ {0}
    <2>1. Bbit - 1 \in Nat /\ (Bbit - 1) + 1 = Bbit BY Sizes
    <2>2. PICK h \in Nat \ {0} : h = pow2[Bbit - 1] BY <2>1, PowersOfTwo
    <2>3. BaseOf(gadget) = 2 * h BY <1>1, <2>1, <2>2, PowersOfTwo DEF BaseOf
    <2>4. (2 * h) \div 2 = h OBVIOUS
    <2> QED BY <2>2, <2>3, <2>4 DEF HalfBase
  <1> HIDE DEF digit
  <1>5. \A j \in 0..(l - 1) : Signed(digit[j]) \in (-HalfBase)..HalfBase
                              /\ Signed(digit[j]) \in Int
    BY <1>1, <1>3, <1>4
  <1>6. PICK f \in [0..(l - 1) -> Int] : f = [j \in 0..(l - 1) |-> Signed(digit[j])]
    <2>1. [j \in 0..(l - 1) |-> Signed(digit[j])] \in [0..(l - 1) -> Int] BY <1>5
    <2> QED BY <2>1
  <1>7. Recomposed(gadget, digit) = SideBySide(gadget, f)
    BY <1>1, <1>6 DEF Recomposed
  <1>8. SideBySide(gadget, f) \in Int
    BY <1>1, Sizes, SideBySideTyped DEF Decomposition
  <1>9. Round(gadget) \in Nat BY Sizes, RoundOf DEF Decomposition
  <1>10. v \in Int BY TorusSize DEF Torus
  <1>11. Within(Recomposed(gadget, digit), v, Round(gadget))
    BY <1>3, <1>7, <1>8, <1>9, <1>10, NearIs
  <1>12. [j \in 0..(l - 1) |-> f[j] * pow2[Shift(gadget, j)]]
           = [j \in 0..(l - 1) |-> Signed(digit[j]) * pow2[Shift(gadget, j)]]
    BY <1>6
  <1>13. Recomposed(gadget, digit)
           = Sum([j \in 0..(l - 1) |-> Signed(digit[j]) * pow2[Shift(gadget, j)]], l)
    BY <1>1, <1>7, <1>12 DEF SideBySide
  <1> QED BY <1>4, <1>5, <1>7, <1>8, <1>9, <1>11, <1>13 DEF digit

SignedPoly(x, j) == [m \in Coefficients |-> Signed(DigitPoly(x, j)[m])]

LEMMA GadgetShift ==
  ASSUME NEW j \in 0..(l - 1)
  PROVE  pow2[Shift(gadget, j)] \in Int
  <1>1. j \in Places(gadget) BY DEF Places, gadget
  <1> QED BY <1>1, Sizes, PlacesOf DEF Decomposition

LEMMA SignedPolyTyped ==
  ASSUME NEW x \in Polys, NEW j \in 0..(l - 1)
  PROVE  /\ SignedPoly(x, j) \in [Coefficients -> (-HalfBase)..HalfBase]
         /\ SignedPoly(x, j) \in [Coefficients -> Int]
         /\ HalfBase \in Nat
         /\ \A m \in Coefficients :
              SignedPoly(x, j)[m] = Signed(DigitsOf(gadget, balanced_decompose, x[m])[j])
  <1>1. HalfBase \in Nat
    <2>1. Bbit - 1 \in Nat BY Sizes
    <2> QED BY <2>1, PowersOfTwo DEF HalfBase
  <1>2. ASSUME NEW m \in Coefficients
        PROVE  /\ Signed(DigitPoly(x, j)[m]) \in (-HalfBase)..HalfBase
               /\ Signed(DigitPoly(x, j)[m])
                    = Signed(DigitsOf(gadget, balanced_decompose, x[m])[j])
    <2>1. PICK v \in Torus : v = x[m] BY DEF Polys
    <2>2. j \in Places(gadget) BY DEF Places, gadget
    <2>3. DigitPoly(x, j)[m] = DigitsOf(gadget, balanced_decompose, v)[j]
      BY <2>1, <2>2 DEF DigitPoly, DigitsOf
    <2>4. Signed(DigitsOf(gadget, balanced_decompose, v)[j]) \in (-HalfBase)..HalfBase
      BY GadgetDigits
    <2> QED BY <2>1, <2>3, <2>4
  <1>3. SignedPoly(x, j) \in [Coefficients -> (-HalfBase)..HalfBase] BY <1>2 DEF SignedPoly
  <1>4. (-HalfBase)..HalfBase \subseteq Int BY <1>1
  <1> QED BY <1>1, <1>2, <1>3, <1>4 DEF SignedPoly

(* What the digits before the k-th stand for. *)
Part(x, k) ==
  [m \in Coefficients |->
     Sum([j \in 0..(k - 1) |-> SignedPoly(x, j)[m] * pow2[Shift(gadget, j)]], k)]

LEMMA PartTyped ==
  ASSUME NEW x \in Polys, NEW k \in 0..l
  PROVE  Part(x, k) \in [Coefficients -> Int]
  <1>1. k \in Nat /\ \A j \in 0..(k - 1) : j \in 0..(l - 1) BY Sizes
  <1>2. ASSUME NEW m \in Coefficients
        PROVE  Sum([j \in 0..(k - 1) |-> SignedPoly(x, j)[m] * pow2[Shift(gadget, j)]], k) \in Int
    <2>1. ASSUME NEW j \in 0..(k - 1)
          PROVE  SignedPoly(x, j)[m] * pow2[Shift(gadget, j)] \in Int
      <3>1. PICK y \in Int, z \in Int : y = SignedPoly(x, j)[m] /\ z = pow2[Shift(gadget, j)]
        <4>1. j \in 0..(l - 1) BY <1>1
        <4>2. SignedPoly(x, j)[m] \in Int BY <4>1, SignedPolyTyped
        <4> QED BY <4>1, <4>2, GadgetShift
      <3>2. y * z \in Int BY SMT
      <3> QED BY <3>1, <3>2
    <2>2. [j \in 0..(k - 1) |-> SignedPoly(x, j)[m] * pow2[Shift(gadget, j)]]
            \in [0..(k - 1) -> Int]
      BY <2>1
    <2> QED BY <1>1, <2>2, SumInt
  <1> QED BY <1>2 DEF Part

LEMMA PartAtFirst ==
  ASSUME NEW x \in Polys
  PROVE  Part(x, 0) = Zero
  <1>1. ASSUME NEW m \in Coefficients
        PROVE  Sum([j \in 0..(0 - 1) |-> SignedPoly(x, j)[m] * pow2[Shift(gadget, j)]], 0) = 0
    <2>1. [j \in 0..(0 - 1) |-> SignedPoly(x, j)[m] * pow2[Shift(gadget, j)]]
            = [j \in 0..(0 - 1) |-> 0]
      <3>1. \A j \in 0..(0 - 1) : SignedPoly(x, j)[m] * pow2[Shift(gadget, j)] = 0 OBVIOUS
      <3> QED BY <3>1
    <2>2. Sum([j \in 0..(0 - 1) |-> 0], 0) = 0
      <3>1. 0 \in Nat OBVIOUS
      <3> QED BY <3>1, SumOfZeros, Zenon
    <2> QED BY <2>1, <2>2
  <1> QED BY <1>1 DEF Part, Zero

LEMMA PartNext ==
  ASSUME NEW x \in Polys, NEW k \in 0..(l - 1)
  PROVE  Adds(Part(x, k + 1), Part(x, k), pow2[Shift(gadget, k)], SignedPoly(x, k))
  <1>1. k \in Nat /\ (k + 1) - 1 = k /\ k \in 0..k /\ \A j \in 0..k : j \in 0..(l - 1)
    BY Sizes
  <1>2. ASSUME NEW m \in Coefficients
        PROVE  Part(x, k + 1)[m] = Part(x, k)[m] + pow2[Shift(gadget, k)] * SignedPoly(x, k)[m]
    <2>1. ASSUME NEW j \in 0..k
          PROVE  /\ SignedPoly(x, j)[m] * pow2[Shift(gadget, j)] \in Int
                 /\ SignedPoly(x, j)[m] * pow2[Shift(gadget, j)]
                      = pow2[Shift(gadget, j)] * SignedPoly(x, j)[m]
      <3>1. PICK y \in Int, z \in Int : y = SignedPoly(x, j)[m] /\ z = pow2[Shift(gadget, j)]
        <4>1. j \in 0..(l - 1) BY <1>1
        <4>2. SignedPoly(x, j)[m] \in Int BY <4>1, SignedPolyTyped
        <4> QED BY <4>1, <4>2, GadgetShift
      <3>2. y * z \in Int /\ y * z = z * y BY SMT
      <3> QED BY <3>1, <3>2
    <2>2. PICK f \in [0..k -> Int] :
            f = [j \in 0..k |-> SignedPoly(x, j)[m] * pow2[Shift(gadget, j)]]
      <3>1. [j \in 0..k |-> SignedPoly(x, j)[m] * pow2[Shift(gadget, j)]] \in [0..k -> Int]
        BY <2>1
      <3> QED BY <3>1
    <2>3. PICK g \in [0..(k - 1) -> Int] :
            g = [j \in 0..(k - 1) |-> SignedPoly(x, j)[m] * pow2[Shift(gadget, j)]]
      <3>1. \A j \in 0..(k - 1) : j \in 0..k BY <1>1
      <3>2. [j \in 0..(k - 1) |-> SignedPoly(x, j)[m] * pow2[Shift(gadget, j)]]
              \in [0..(k - 1) -> Int]
        BY <2>1, <3>1
      <3> QED BY <3>2
    <2>4. \A j \in 0..(k - 1) : g[j] = f[j]
      <3>1. \A j \in 0..(k - 1) : j \in 0..k BY <1>1
      <3> QED BY <2>2, <2>3, <3>1
    <2>5. Sum(f, k + 1) = Sum(g, k) + f[k] BY <1>1, <2>4, SumNext
    <2>6. f[k] = pow2[Shift(gadget, k)] * SignedPoly(x, k)[m] BY <1>1, <2>1, <2>2
    <2>7. Part(x, k + 1)[m] = Sum(f, k + 1) BY <1>1, <2>2 DEF Part
    <2>8. Part(x, k)[m] = Sum(g, k) BY <2>3 DEF Part
    <2> QED BY <2>5, <2>6, <2>7, <2>8
  <1> QED BY <1>2 DEF Adds

LEMMA PartAtLast ==
  ASSUME NEW x \in Polys, NEW m \in Coefficients
  PROVE  Within(Part(x, l)[m], x[m], Round(gadget)) /\ Round(gadget) \in Nat
  <1>1. PICK v \in Torus : v = x[m] BY DEF Polys
  <1>2. PICK digit : digit = DigitsOf(gadget, balanced_decompose, v) OBVIOUS
  <1>3. /\ Recomposed(gadget, digit)
             = Sum([j \in 0..(l - 1) |-> Signed(digit[j]) * pow2[Shift(gadget, j)]], l)
        /\ Within(Recomposed(gadget, digit), v, Round(gadget)) /\ Round(gadget) \in Nat
    BY <1>2, GadgetDigits
  <1>4. \A j \in 0..(l - 1) : SignedPoly(x, j)[m] = Signed(digit[j])
    BY <1>1, <1>2, SignedPolyTyped
  <1>5. [j \in 0..(l - 1) |-> SignedPoly(x, j)[m] * pow2[Shift(gadget, j)]]
          = [j \in 0..(l - 1) |-> Signed(digit[j]) * pow2[Shift(gadget, j)]]
    BY <1>4
  <1>6. Part(x, l)[m] = Recomposed(gadget, digit) BY <1>3, <1>5 DEF Part
  <1> QED BY <1>1, <1>3, <1>6

(* The digits of a level times a row of the key. *)
LEMMA DigitsTimesRow ==
  ASSUME NEW h \in Nat, NEW u \in [Coefficients -> Int], NEW w \in [Coefficients -> (-h)..h],
         NEW y \in [Coefficients -> Int], NEW z \in [Coefficients -> Int], NEW b \in Nat,
         \A j \in Coefficients : Within(u[j], w[j], 0) /\ Within(y[j], z[j], b),
         NEW m \in Coefficients
  PROVE  Within(Product(u, y)[m], Product(w, z)[m], N * (h * b)) /\ N * (h * b) \in Nat
  <1>1. PICK v \in [Coefficients -> Int] : v = w
    <2>1. (-h)..h \subseteq Int OBVIOUS
    <2>2. w \in [Coefficients -> Int] BY <2>1
    <2> QED BY <2>2
  <1>2. Within(Product(u, y)[m], Product(v, y)[m], 0) BY <1>1, ProductSame
  <1>3. \A j \in Coefficients : Within(y[j], z[j], b) OBVIOUS
  <1>4. Within(Product(w, y)[m], Product(w, z)[m], N * (h * b)) /\ N * (h * b) \in Nat
    BY <1>3, ProductWithin
  <1>5. PICK bound \in Nat : bound = N * (h * b) BY <1>4
  <1>6. /\ Product(u, y)[m] \in Int /\ Product(v, y)[m] \in Int /\ Product(v, z)[m] \in Int
        /\ 0 \in Nat /\ 0 + bound = bound
    BY ProductTyped
  <1>7. Within(Product(v, y)[m], Product(v, z)[m], bound) BY <1>1, <1>4, <1>5
  <1>8. Within(Product(u, y)[m], Product(v, z)[m], 0 + bound)
    BY <1>2, <1>6, <1>7, WithinTwo, Zenon
  <1> QED BY <1>1, <1>5, <1>6, <1>8

Multiple(z, c, x) == \A j \in Coefficients : z[j] = c * x[j]

(* A multiple of one polynomial, times another. *)
LEMMA ProductOfMultiple ==
  ASSUME NEW u \in [Coefficients -> Int], NEW x \in [Coefficients -> Int], NEW c \in Int,
         NEW m \in Coefficients
  PROVE  \E z \in [Coefficients -> Int] :
           Multiple(z, c, x) /\ Product(u, z)[m] = c * Product(u, x)[m]
  <1>1. \A j \in Coefficients : c * x[j] \in Int
    <2>1. TAKE j \in Coefficients
    <2>2. PICK y \in Int : y = x[j] OBVIOUS
    <2>3. c * y \in Int BY SMT
    <2> QED BY <2>2, <2>3
  <1>2. PICK z \in [Coefficients -> Int] : z = [j \in Coefficients |-> c * x[j]]
    <2>1. [j \in Coefficients |-> c * x[j]] \in [Coefficients -> Int] BY <1>1
    <2> QED BY <2>1
  <1>3. Product(u, Zero)[m] = 0 /\ Zero \in [Coefficients -> Int] BY NothingTimes
  <1>4. Adds(z, Zero, c, x) BY <1>1, <1>2 DEF Adds, Zero
  <1>5. Product(u, z)[m] = Product(u, Zero)[m] + c * Product(u, x)[m]
    BY <1>3, <1>4, ProductOfSum
  <1>6. PICK y \in Int : y = Product(u, x)[m]
    <2>1. Product(u, x)[m] \in Int BY ProductTyped
    <2> QED BY <2>1
  <1>7. c * y \in Int BY SMT
  <1>8. Product(u, z)[m] = c * Product(u, x)[m] BY <1>3, <1>5, <1>6, <1>7
  <1>9. Multiple(z, c, x) BY <1>2 DEF Multiple
  <1> QED BY <1>8, <1>9

OneProduct == N * (HalfBase * RowNoise)

LevelNoise == 2 * OneProduct

LEMMA LevelPhase ==
  ASSUME RoundInvariant, KeyRows, UIntCoversTorus, MultiplyLevel, NEW m \in Coefficients
  PROVE  LET wa == SignedPoly(Difference.a, i)
             wb == SignedPoly(Difference.b, i)
             g == GadgetValue(bit, i)
         IN  /\ LevelNoise \in Nat
             /\ Within(Phase(secret.r, res')[m],
                       (Phase(secret.r, res)[m] + -(g * Product(secret.r, wa)[m])) + g * wb[m],
                       LevelNoise)
  <1>1. /\ trgsw \in [Rows -> TRLWEs] /\ res \in TRLWEs /\ Difference \in TRLWEs
        /\ i \in 0..(l - 1) /\ secret \in Keys /\ bit \in Int
    <2>1. i \in 0..(l - 1) BY Sizes DEF RoundInvariant, InStep, MultiplyLevel
    <2>2. bit \in Int BY DEF RoundInvariant, Typed
    <2> QED BY <2>1, <2>2, DifferenceTyped DEF RoundInvariant, Typed
  <1>2. PICK s \in [Coefficients -> Int] : s = secret.r BY <1>1, KeysTyped DEF Coefficients
  <1>3. PICK da \in [Coefficients -> Int], db \in [Coefficients -> Int] :
          da = DigitPoly(Difference.a, i) /\ db = DigitPoly(Difference.b, i)
    BY <1>1, DigitPolyTyped, PolysTyped
  <1>4. PICK h \in Nat : h = HalfBase
    <2>1. Difference.a \in Polys BY <1>1, PolysTyped
    <2>2. HalfBase \in Nat BY <1>1, <2>1, SignedPolyTyped
    <2> QED BY <2>2
  <1>5. PICK wa \in [Coefficients -> (-h)..h], wb \in [Coefficients -> (-h)..h] :
          /\ wa = SignedPoly(Difference.a, i) /\ wb = SignedPoly(Difference.b, i)
          /\ wa \in [Coefficients -> Int] /\ wb \in [Coefficients -> Int]
    <2>1. Difference.a \in Polys /\ Difference.b \in Polys BY <1>1, PolysTyped
    <2> QED BY <1>1, <1>4, <2>1, SignedPolyTyped
  <1>6. \A j \in Coefficients : Within(da[j], wa[j], 0) /\ Within(db[j], wb[j], 0)
    BY <1>3, <1>5, SignedSame DEF SignedPoly
  <1>7. PICK c \in TRLWEs, d \in TRLWEs : c = trgsw[i] /\ d = trgsw[l + i]
    <2>1. i \in Rows /\ l + i \in Rows BY <1>1, Sizes DEF Rows
    <2> QED BY <1>1, <2>1
  <1>8. res' = AddProduct(AddProduct(res, da, c), db, d)
    BY <1>3, <1>7 DEF MultiplyLevel, AddProduct
  <1>9. PICK g \in Int : g = GadgetValue(bit, i) BY <1>1, GadgetPlace
  <1>10. PICK one \in [Coefficients -> Int] : one = One BY <1>2, ProductOne
  <1>11. PICK y \in [Coefficients -> Int] :
           Multiple(y, -g, s) /\ Product(wa, y)[m] = (-g) * Product(wa, s)[m]
    <2>1. PICK v \in Int, w \in [Coefficients -> Int] : v = -g /\ w = wa BY <1>5
    <2>2. \E y \in [Coefficients -> Int] :
            Multiple(y, v, s) /\ Product(w, y)[m] = v * Product(w, s)[m]
      BY ProductOfMultiple
    <2> QED BY <2>1, <2>2
  <1>12. Product(wa, s) = Product(s, wa) /\ Product(wb, one) = wb
    BY <1>5, <1>10, ProductSwaps, ProductOne
  <1>13. PICK z \in [Coefficients -> Int] :
           Multiple(z, g, one) /\ Product(wb, z)[m] = g * Product(wb, one)[m]
    <2>1. PICK w \in [Coefficients -> Int] : w = wb BY <1>5
    <2>2. \E z \in [Coefficients -> Int] :
            Multiple(z, g, one) /\ Product(w, z)[m] = g * Product(w, one)[m]
      BY ProductOfMultiple
    <2> QED BY <2>1, <2>2
  <1>14. PICK noise \in Nat : noise = RowNoise BY RowNoiseNat
  <1>15. PICK pc0 \in [Coefficients -> Int], pd \in [Coefficients -> Int],
              pr \in [Coefficients -> Int] :
           pc0 = Phase(s, c) /\ pd = Phase(s, d) /\ pr = Phase(s, res)
    <2>1. c \in Pairs /\ d \in Pairs /\ res \in Pairs BY <1>1, PairsTyped
    <2> QED BY <2>1, PhaseTyped
  <1>16. ASSUME NEW j \in Coefficients
         PROVE  Within(pc0[j], y[j], noise) /\ Within(pd[j], z[j], noise)
    <2>1. /\ Within(Phase(s, c)[j], -(g * s[j]), noise) /\ Within(Phase(s, d)[j], g * one[j], noise)
      BY <1>1, <1>2, <1>7, <1>9, <1>10, <1>14 DEF KeyRows
    <2>2. PICK v \in Int : v = s[j] OBVIOUS
    <2>3. -(g * v) = (-g) * v BY SMT
    <2>4. y[j] = (-g) * s[j] /\ z[j] = g * one[j] BY <1>11, <1>13 DEF Multiple
    <2> QED BY <1>15, <2>1, <2>2, <2>3, <2>4
  <1>17. PICK bound \in Nat : bound = OneProduct
    <2>1. h * noise \in Nat BY SMT
    <2>2. PICK b \in Nat : b = h * noise BY <2>1
    <2>3. N * b \in Nat BY TorusSize, SMT
    <2> QED BY <1>4, <1>14, <2>2, <2>3 DEF OneProduct
  <1>18. Within(Product(da, pc0)[m], Product(wa, y)[m], bound)
    <2>1. \A j \in Coefficients : Within(da[j], wa[j], 0) /\ Within(pc0[j], y[j], noise)
      BY <1>6, <1>16
    <2> QED BY <1>4, <1>14, <1>17, <2>1, DigitsTimesRow DEF OneProduct
  <1>19. Within(Product(db, pd)[m], Product(wb, z)[m], bound)
    <2>1. \A j \in Coefficients : Within(db[j], wb[j], 0) /\ Within(pd[j], z[j], noise)
      BY <1>6, <1>16
    <2> QED BY <1>4, <1>14, <1>17, <2>1, DigitsTimesRow DEF OneProduct
  <1>20. PICK e \in TRLWEs : e = AddProduct(res, da, c) BY <1>1, <1>2, ProductKeepsPhase
  <1>21. Within(Phase(s, e)[m], pr[m] + Product(da, pc0)[m], 0)
    BY <1>1, <1>15, <1>20, ProductKeepsPhase
  <1>22. Within(Phase(s, res')[m], Phase(s, e)[m] + Product(db, pd)[m], 0)
    BY <1>8, <1>15, <1>20, ProductKeepsPhase
  <1>23. res' \in TRLWEs BY LevelTyped
  <1>24. PICK r0 \in Int, r1 \in Int, r2 \in Int, ta \in Int, tb \in Int, xa \in Int, xb \in Int :
           /\ r0 = pr[m] /\ r1 = Phase(s, e)[m] /\ r2 = Phase(s, res')[m]
           /\ ta = Product(da, pc0)[m] /\ tb = Product(db, pd)[m]
           /\ xa = Product(wa, y)[m] /\ xb = Product(wb, z)[m]
    <2>1. pr[m] \in Int OBVIOUS
    <2>2. Phase(s, e)[m] \in Int /\ Phase(s, res')[m] \in Int
      <3>1. e \in Pairs /\ res' \in Pairs BY <1>23, PairsTyped
      <3> QED BY <3>1, PhaseTyped
    <2>3. Product(da, pc0)[m] \in Int /\ Product(db, pd)[m] \in Int BY ProductTyped
    <2>4. Product(wa, y)[m] \in Int /\ Product(wb, z)[m] \in Int BY <1>5, ProductTyped
    <2> QED BY <2>1, <2>2, <2>3, <2>4
  <1>25. /\ Within(ta, xa, bound) /\ Within(tb, xb, bound)
         /\ Within(r1, r0 + ta, 0) /\ Within(r2, r1 + tb, 0)
    BY <1>18, <1>19, <1>21, <1>22, <1>24
  <1>26. /\ r0 + ta \in Int /\ r1 + tb \in Int /\ r0 + xa \in Int /\ (r0 + xa) + xb \in Int
         /\ 0 \in Nat /\ 0 + bound = bound /\ bound + bound = 2 * bound /\ bound + bound \in Nat
         /\ 0 + (bound + bound) = 2 * bound
    OBVIOUS
  <1>27. Within(r0, r0, 0) BY WithinItself
  <1>28. Within(r0 + ta, r0 + xa, 0 + bound) BY <1>25, <1>26, <1>27, WithinSum, Zenon
  <1>29. Within(r0 + ta, r0 + xa, bound) BY <1>26, <1>28
  <1>30. Within(r1, r0 + xa, 0 + bound) BY <1>25, <1>26, <1>29, WithinTwo, Zenon
  <1>31. Within(r1, r0 + xa, bound) BY <1>26, <1>30
  <1>32. Within(r1 + tb, (r0 + xa) + xb, bound + bound)
    BY <1>25, <1>26, <1>31, WithinSum, Zenon
  <1>33. Within(r2, (r0 + xa) + xb, 0 + (bound + bound))
    BY <1>25, <1>26, <1>32, WithinTwo, Zenon
  <1>34. xa = -(g * Product(s, wa)[m]) /\ xb = g * wb[m]
    <2>1. PICK v \in Int : v = Product(s, wa)[m]
      <3>1. Product(s, wa)[m] \in Int BY <1>5, ProductTyped
      <3> QED BY <3>1
    <2>2. (-g) * v = -(g * v) BY SMT
    <2> QED BY <1>11, <1>12, <1>13, <1>24, <2>1, <2>2
  <1>35. LevelNoise = 2 * bound /\ 2 * bound \in Nat BY <1>17 DEF LevelNoise
  <1> QED BY <1>2, <1>5, <1>9, <1>15, <1>24, <1>26, <1>33, <1>34, <1>35

(* What the levels multiplied so far have put into the phase: the bit times *)
(* what their digits stand for.                                             *)
Multiplied ==
  pc = "multiply" =>
    \A m \in Coefficients :
      Within(Phase(secret.r, res)[m],
             bit * (Part(Difference.b, i)[m] - Product(secret.r, Part(Difference.a, i))[m]),
             i * LevelNoise)

LEMMA ZeroPhase ==
  ASSUME NEW s \in [Coefficients -> Int], NEW m \in Coefficients
  PROVE  Phase(s, TRLWEZero)[m] = 0
  <1>1. Product(s, Zero)[m] = 0 BY NothingTimes
  <1> QED BY <1>1 DEF Phase, TRLWEZero, Zero

LEMMA LevelNoiseNat == LevelNoise \in Nat
  <1>1. PICK h \in Nat : h = HalfBase
    <2>1. Bbit - 1 \in Nat BY Sizes
    <2> QED BY <2>1, PowersOfTwo DEF HalfBase
  <1>2. PICK noise \in Nat : noise = h * RowNoise
    <2>1. PICK b \in Nat : b = RowNoise BY RowNoiseNat
    <2>2. h * b \in Nat BY SMT
    <2> QED BY <2>1, <2>2
  <1>3. N * noise \in Nat BY TorusSize, SMT
  <1>4. 2 * (N * noise) \in Nat BY <1>3
  <1> QED BY <1>1, <1>2, <1>4 DEF LevelNoise, OneProduct

LEMMA MultipliedAtFirst ==
  ASSUME RoundInvariant, RoundInvariant', Encrypt
  PROVE  Multiplied'
  <1>1. /\ pc = "encrypt" /\ i' = 0 /\ res' = TRLWEZero /\ bit' \in {0, 1}
        /\ secret' = secret /\ secret \in Keys
    BY DEF RoundInvariant, Typed, InStep, FreshAccumulators, Encrypt
  <1>2. PICK s \in [Coefficients -> Int] : s = secret.r BY <1>1, KeysTyped DEF Coefficients
  <1>3. PICK d \in TRLWEs : d = Difference'
    <2>1. cand0' \in TRLWEs /\ amount' \in Nat BY DEF RoundInvariant, Typed
    <2>2. cand0' \in TRLWEs /\ amount' \in Nat => Difference' \in TRLWEs
      <3>1. cand0' \in TRLWEs /\ amount' \in Nat
              => Rotated(cand0)' \in TRLWEs
        <4>1. HAVE cand0' \in TRLWEs /\ amount' \in Nat
        <4>2. cand0'.a \in Polys /\ cand0'.b \in Polys BY <4>1 DEF TRLWEs
        <4> QED BY <4>1, <4>2, RotateTyped DEF Rotated, TRLWEs
      <3> QED BY <3>1, TRLWEOps DEF Difference
    <2> QED BY <2>1, <2>2
  <1>4. Part(d.a, 0) = Zero /\ Part(d.b, 0) = Zero BY PolysTyped, PartAtFirst
  <1>5. ASSUME NEW m \in Coefficients
        PROVE  Within(Phase(s, TRLWEZero)[m],
                      bit' * (Part(d.b, 0)[m] - Product(s, Part(d.a, 0))[m]), 0 * LevelNoise)
    <2>1. Phase(s, TRLWEZero)[m] = 0 BY ZeroPhase
    <2>2. Product(s, Zero)[m] = 0 /\ Zero[m] = 0 BY NothingTimes DEF Zero
    <2>3. bit' * (0 - 0) = 0
      <3>1. PICK c \in Int : c = bit' BY <1>1
      <3>2. c * (0 - 0) = 0 BY SMT
      <3> QED BY <3>1, <3>2
    <2>4. 0 * LevelNoise = 0 BY LevelNoiseNat
    <2>5. Within(0, 0, 0) BY WithinItself
    <2> QED BY <1>4, <2>1, <2>2, <2>3, <2>4, <2>5
  <1>6. secret'.r = s BY <1>1, <1>2
  <1> QED
    <2>1. LevelNoise' = LevelNoise
      <3>1. maker' = maker BY DEF Encrypt
      <3> QED BY <3>1 DEF LevelNoise, OneProduct, RowNoise, HalfBase
    <2> QED BY <1>1, <1>3, <1>5, <1>6, <2>1 DEF Multiplied

(* The bit times what one more level stands for. *)
LEMMA LevelAdds ==
  ASSUME NEW c \in {0, 1}, NEW place \in Int, NEW g \in Int, g = c * place,
         NEW b \in Int, NEW a \in Int, NEW wb \in Int, NEW pa \in Int
  PROVE  (c * (b - a) + -(g * pa)) + g * wb = c * ((b + place * wb) - (a + place * pa))
  <1>1. PICK x \in Int, y \in Int : x = place * pa /\ y = place * wb
    <2>1. place * pa \in Int /\ place * wb \in Int BY SMT
    <2> QED BY <2>1
  <1>2. CASE c = 0
    <2>1. g = 0 BY <1>2
    <2>2. 0 * pa = 0 /\ 0 * wb = 0 /\ 0 * (b - a) = 0 /\ 0 * ((b + y) - (a + x)) = 0 OBVIOUS
    <2> QED BY <1>1, <1>2, <2>1, <2>2
  <1>3. CASE c = 1
    <2>1. g = place BY <1>3
    <2>2. 1 * (b - a) = b - a /\ 1 * ((b + y) - (a + x)) = (b + y) - (a + x) OBVIOUS
    <2>3. ((b - a) + -x) + y = (b + y) - (a + x) OBVIOUS
    <2> QED BY <1>1, <1>3, <2>1, <2>2, <2>3
  <1> QED BY <1>2, <1>3

LEMMA MultiplyingKeepsPhase ==
  ASSUME RoundInvariant, KeyRows, UIntCoversTorus, Multiplied, MultiplyLevel
  PROVE  Multiplied'
  <1>1. /\ pc = "multiply" /\ i \in 0..(l - 1) /\ i' = i + 1 /\ secret \in Keys
        /\ bit \in {0, 1} /\ Difference \in TRLWEs
        /\ secret' = secret /\ bit' = bit /\ Difference' = Difference /\ LevelNoise' = LevelNoise
    <2>1. i \in 0..(l - 1) BY Sizes DEF RoundInvariant, InStep, MultiplyLevel
    <2>2. Difference' = Difference BY DEF MultiplyLevel, Difference, Rotated
    <2>3. LevelNoise' = LevelNoise
      BY DEF MultiplyLevel, LevelNoise, OneProduct, RowNoise, HalfBase
    <2> QED BY <2>1, <2>2, <2>3, DifferenceTyped DEF RoundInvariant, Typed, MultiplyLevel
  <1>2. PICK s \in [Coefficients -> Int] : s = secret.r BY <1>1, KeysTyped DEF Coefficients
  <1>3. PICK da \in Polys, db \in Polys : da = Difference.a /\ db = Difference.b
    BY <1>1, PolysTyped
  <1>4. PICK wa \in [Coefficients -> Int], wb \in [Coefficients -> Int] :
          wa = SignedPoly(da, i) /\ wb = SignedPoly(db, i)
    BY <1>1, SignedPolyTyped
  <1>5. PICK place \in Int : place = pow2[Shift(gadget, i)] BY <1>1, GadgetShift
  <1>6. PICK g \in Int : g = GadgetValue(bit, i) /\ g = bit * place
    <2>1. GadgetValue(bit, i) = bit * place BY <1>5 DEF GadgetValue, Shift, gadget
    <2>2. bit \in Int BY <1>1
    <2> QED BY <1>1, <2>1, <2>2, GadgetPlace
  <1>7. PICK pa \in [Coefficients -> Int], pb \in [Coefficients -> Int],
             qa \in [Coefficients -> Int], qb \in [Coefficients -> Int] :
          /\ pa = Part(da, i) /\ pb = Part(db, i)
          /\ qa = Part(da, i + 1) /\ qb = Part(db, i + 1)
    <2>1. i \in 0..l /\ i + 1 \in 0..l BY <1>1, Sizes
    <2> QED BY <2>1, PartTyped
  <1>8. Adds(qa, pa, place, wa) /\ Adds(qb, pb, place, wb)
    BY <1>1, <1>4, <1>5, <1>7, PartNext
  <1>9. PICK noise \in Nat : noise = LevelNoise BY LevelNoiseNat
  <1>10. ASSUME NEW m \in Coefficients
         PROVE  Within(Phase(s, res')[m], bit * (qb[m] - Product(s, qa)[m]), (i + 1) * noise)
    <2>1. Product(s, qa)[m] = Product(s, pa)[m] + place * Product(s, wa)[m]
      BY <1>8, ProductOfSum
    <2>2. qb[m] = pb[m] + place * wb[m] BY <1>8 DEF Adds
    <2>3. PICK r0 \in Int, r1 \in Int, b \in Int, a \in Int, v \in Int, w \in Int :
            /\ r0 = Phase(s, res)[m] /\ r1 = Phase(s, res')[m]
            /\ b = pb[m] /\ a = Product(s, pa)[m] /\ v = Product(s, wa)[m] /\ w = wb[m]
      <3>1. Phase(s, res)[m] \in Int /\ Phase(s, res')[m] \in Int
        <4>1. res \in Pairs /\ res' \in Pairs
          BY LevelTyped, PairsTyped DEF RoundInvariant, Typed
        <4> QED BY <4>1, PhaseTyped
      <3>2. Product(s, pa)[m] \in Int /\ Product(s, wa)[m] \in Int BY ProductTyped
      <3>3. pb[m] \in Int /\ wb[m] \in Int OBVIOUS
      <3> QED BY <3>1, <3>2, <3>3
    <2>4. Within(r1, (r0 + -(g * v)) + g * w, noise)
      BY <1>2, <1>3, <1>4, <1>6, <1>9, <2>3, LevelPhase
    <2>5. Within(r0, bit * (b - a), i * noise)
      BY <1>1, <1>2, <1>3, <1>7, <1>9, <2>3 DEF Multiplied
    <2>6. PICK x \in Int, y \in Int, z \in Int, before \in Nat :
            x = -(g * v) /\ y = g * w /\ z = bit * (b - a) /\ before = i * noise
      <3>1. -(g * v) \in Int /\ g * w \in Int BY SMT
      <3>2. PICK c \in Int, e \in Int : c = bit /\ e = b - a BY <1>1
      <3>3. c * e \in Int BY SMT
      <3>4. PICK k \in Nat : k = i BY <1>1
      <3>5. k * noise \in Nat BY SMT
      <3> QED BY <3>1, <3>2, <3>3, <3>4, <3>5
    <2>7. /\ r0 + x \in Int /\ (r0 + x) + y \in Int /\ z + x \in Int /\ (z + x) + y \in Int
          /\ before + 0 = before /\ 0 \in Nat /\ noise + before \in Nat
      OBVIOUS
    <2>8. Within(x, x, 0) /\ Within(y, y, 0) BY WithinItself
    <2>9. Within(r0, z, before) BY <2>5, <2>6
    <2>10. Within(r0 + x, z + x, before + 0) BY <2>7, <2>8, <2>9, WithinSum, Zenon
    <2>11. Within(r0 + x, z + x, before) BY <2>7, <2>10
    <2>12. Within((r0 + x) + y, (z + x) + y, before + 0)
      BY <2>7, <2>8, <2>11, WithinSum, Zenon
    <2>13. Within((r0 + x) + y, (z + x) + y, before) BY <2>7, <2>12
    <2>14. Within(r1, (r0 + x) + y, noise) BY <2>4, <2>6
    <2>15. Within(r1, (z + x) + y, noise + before) BY <2>7, <2>13, <2>14, WithinTwo, Zenon
    <2>16. noise + before = (i + 1) * noise
      <3>1. PICK k \in Nat : k = i BY <1>1
      <3>2. noise + k * noise = (k + 1) * noise BY SMT
      <3> QED BY <2>6, <3>1, <3>2
    <2>17. (z + x) + y = bit * ((b + place * w) - (a + place * v))
      BY <1>1, <1>6, <2>6, LevelAdds
    <2> QED BY <2>1, <2>2, <2>3, <2>15, <2>16, <2>17
  <1> QED BY <1>1, <1>2, <1>3, <1>7, <1>9, <1>10 DEF Multiplied

(* The CMux, on phases. *)
CMuxHolds ==
  pc \in {"extract", "switch", "done"} =>
    \A m \in Coefficients :
      Within(Phase(secret.r, res)[m], Phase(secret.r, Chosen)[m], ProductNoise)

LEMMA ProductNoiseIs ==
  /\ ProductNoise \in Nat /\ Round(gadget) \in Nat
  /\ ProductNoise = l * LevelNoise + 1 * (Round(gadget) + N * (1 * Round(gadget)))
  <1>1. PICK h \in Nat : h = HalfBase
    <2>1. Bbit - 1 \in Nat BY Sizes
    <2> QED BY <2>1, PowersOfTwo DEF HalfBase
  <1>2. PICK b \in Nat, r \in Nat, dim \in Nat, len \in Nat :
          b = RowNoise /\ r = Round(gadget) /\ dim = N /\ len = l
    <2>1. Round(gadget) \in Nat BY Sizes, RoundOf DEF Decomposition
    <2> QED BY <2>1, RowNoiseNat, TorusSize, Sizes
  <1>3. PICK hb \in Nat, dr \in Nat : hb = h * b /\ dr = dim * r
    <2>1. h * b \in Nat /\ dim * r \in Nat BY SMT
    <2> QED BY <2>1
  <1>4. PICK one \in Nat : one = dim * hb
    <2>1. dim * hb \in Nat BY SMT
    <2> QED BY <2>1
  <1>5. PICK many \in Nat : many = len * one
    <2>1. len * one \in Nat BY SMT
    <2> QED BY <2>1
  <1>6. 2 * len * dim * h * b = 2 * many
    <2>1. 2 * len * dim * h * b = (2 * len * dim) * hb
      <3>1. PICK x \in Nat : x = 2 * len * dim
        <4>1. 2 * len * dim \in Nat BY SMT
        <4> QED BY <4>1
      <3>2. x * h * b = x * (h * b) BY SMT
      <3> QED BY <1>3, <3>1, <3>2
    <2>2. (2 * len * dim) * hb = (2 * len) * one
      <3>1. PICK x \in Nat : x = 2 * len OBVIOUS
      <3>2. (x * dim) * hb = x * (dim * hb) BY SMT
      <3> QED BY <1>4, <3>1, <3>2
    <2>3. (2 * len) * one = 2 * (len * one) BY SMT
    <2> QED BY <1>5, <2>1, <2>2, <2>3
  <1>7. len * (2 * one) = 2 * (len * one) BY SMT
  <1>8. (1 + dim) * r = r + dim * r BY SMT
  <1>9. LevelNoise = 2 * one BY <1>1, <1>2, <1>3, <1>4 DEF LevelNoise, OneProduct
  <1>10. ProductNoise = 2 * many + (r + dr)
    BY <1>1, <1>2, <1>3, <1>6, <1>8 DEF ProductNoise
  <1>11. l * LevelNoise = 2 * many BY <1>2, <1>5, <1>7, <1>9
  <1>12. 1 * (Round(gadget) + N * (1 * Round(gadget))) = r + dr
    <2>1. 1 * r = r OBVIOUS
    <2> QED BY <1>2, <1>3, <2>1
  <1> QED BY <1>2, <1>10, <1>11, <1>12

LEMMA ChoiceOf ==
  ASSUME NEW c \in {0, 1}, NEW x \in Int, NEW y \in Int
  PROVE  /\ c * (x - y) \in Int
         /\ c * (x - y) + y = IF c = 1 THEN x ELSE y
  <1>1. CASE c = 0
    <2>1. 0 * (x - y) = 0 OBVIOUS
    <2> QED BY <1>1, <2>1
  <1>2. CASE c = 1
    <2>1. 1 * (x - y) = x - y OBVIOUS
    <2> QED BY <1>2, <2>1
  <1> QED BY <1>1, <1>2

LEMMA AddBackChooses ==
  ASSUME RoundInvariant, Multiplied, AddBack
  PROVE  CMuxHolds'
  <1>1. /\ pc = "multiply" /\ i = l /\ secret \in Keys /\ bit \in {0, 1}
        /\ Difference \in TRLWEs /\ Rotated(cand0) \in TRLWEs /\ cand0 \in TRLWEs
        /\ res \in TRLWEs /\ res' = TRLWEAdd(res, cand0)
        /\ secret' = secret /\ Chosen' = Chosen /\ ProductNoise' = ProductNoise
    <2>1. Chosen' = Chosen BY DEF AddBack, Chosen, Rotated
    <2>2. ProductNoise' = ProductNoise BY DEF AddBack, ProductNoise, RowNoise, HalfBase
    <2> QED BY <2>1, <2>2, DifferenceTyped DEF RoundInvariant, Typed, AddBack
  <1>2. PICK s \in [Coefficients -> (-1)..1] : s = secret.r /\ s \in [Coefficients -> Int]
    <2>1. secret.r \in [Coefficients -> {0, 1}] BY <1>1 DEF Keys
    <2>2. {0, 1} \subseteq (-1)..1 /\ {0, 1} \subseteq Int OBVIOUS
    <2> QED BY <2>1, <2>2
  <1>3. PICK da \in Polys, db \in Polys : da = Difference.a /\ db = Difference.b
    BY <1>1, PolysTyped
  <1>4. PICK r \in Nat, dim \in Nat : r = Round(gadget) /\ dim = N
    BY ProductNoiseIs, TorusSize
  <1>5. PICK pa \in [Coefficients -> Int], pb \in [Coefficients -> Int] :
          pa = Part(da, l) /\ pb = Part(db, l)
    <2>1. l \in 0..l BY Sizes
    <2> QED BY <2>1, PartTyped
  <1>6. \A j \in Coefficients : Within(pa[j], da[j], r) /\ Within(pb[j], db[j], r)
    BY <1>4, <1>5, PartAtLast
  <1>7. PICK x \in [Coefficients -> Int] : x = da BY PolysTyped
  <1>8. ASSUME NEW m \in Coefficients
        PROVE  Within(Phase(s, res')[m], Phase(s, Chosen)[m], ProductNoise)
    <2>1. Within(Product(s, pa)[m], Product(s, x)[m], N * (1 * r)) /\ N * (1 * r) \in Nat
      <3>1. 1 \in Nat /\ \A j \in Coefficients : Within(pa[j], x[j], r) BY <1>6, <1>7
      <3> QED BY <1>2, <3>1, ProductWithin
    <2>2. PICK sum \in Int, dif \in Int, rot \in Int, cand \in Int, all \in Int, a \in Int, b \in Int,
               ea \in Int, eb \in Int, k \in Nat, before \in Nat :
            /\ sum = Phase(s, res)[m] /\ dif = Phase(s, Difference)[m]
            /\ rot = Phase(s, Rotated(cand0))[m] /\ cand = Phase(s, cand0)[m]
            /\ all = Phase(s, res')[m]
            /\ a = Product(s, pa)[m] /\ ea = Product(s, x)[m] /\ b = pb[m] /\ eb = db[m]
            /\ k = N * (1 * r) /\ before = l * LevelNoise
      <3>1. /\ res \in Pairs /\ Difference \in Pairs /\ Rotated(cand0) \in Pairs
            /\ cand0 \in Pairs /\ res' \in Pairs
        BY <1>1, TRLWEOps, PairsTyped
      <3>2. /\ Phase(s, res)[m] \in Int /\ Phase(s, Difference)[m] \in Int
            /\ Phase(s, Rotated(cand0))[m] \in Int /\ Phase(s, cand0)[m] \in Int
            /\ Phase(s, res')[m] \in Int
        BY <1>2, <3>1, PhaseTyped
      <3>3. Product(s, pa)[m] \in Int /\ Product(s, x)[m] \in Int BY <1>2, ProductTyped
      <3>4. pb[m] \in Int /\ db[m] \in Int BY PolysTyped
      <3>5. l * LevelNoise \in Nat
        <4>1. PICK y \in Nat, z \in Nat : y = l /\ z = LevelNoise BY Sizes, LevelNoiseNat
        <4>2. y * z \in Nat BY SMT
        <4> QED BY <4>1, <4>2
      <3> QED BY <2>1, <3>2, <3>3, <3>4, <3>5
    <2>3. Within(b, eb, r) BY <1>6, <2>2
    <2>4. Within(a, ea, k) BY <2>1, <2>2
    <2>5. r + k \in Nat /\ b - a \in Int /\ eb - ea \in Int OBVIOUS
    <2>6. Within(b - a, eb - ea, r + k) BY <2>3, <2>4, WithinSum, Zenon
    <2>7. eb - ea = dif BY <1>3, <1>7, <2>2 DEF Phase
    <2>8. Within(bit * (b - a), bit * dif, 1 * (r + k)) /\ 1 * (r + k) \in Nat
      <3>1. bit \in (-1)..1 /\ 1 \in Nat BY <1>1
      <3> QED BY <2>5, <2>6, <2>7, <3>1, WithinTimes
    <2>9. Within(dif, rot - cand, 0) BY <1>1, <1>2, <2>2, PhaseAdds DEF Difference
    <2>10. Within(bit * dif, bit * (rot - cand), 1 * 0)
      <3>1. bit \in (-1)..1 /\ 1 \in Nat /\ 0 \in Nat /\ rot - cand \in Int BY <1>1
      <3> QED BY <2>9, <3>1, WithinTimes
    <2>11. Within(sum, bit * (b - a), before)
      BY <1>1, <1>2, <1>3, <1>5, <2>2 DEF Multiplied
    <2>12. PICK t0 \in Int, t1 \in Int, t2 \in Int, e \in Nat :
             t0 = bit * (b - a) /\ t1 = bit * dif /\ t2 = bit * (rot - cand) /\ e = 1 * (r + k)
      <3>1. PICK c \in Int : c = bit BY <1>1
      <3>2. c * (b - a) \in Int /\ c * dif \in Int /\ c * (rot - cand) \in Int BY SMT
      <3> QED BY <2>8, <3>1, <3>2
    <2>13. /\ 1 * 0 = 0 /\ before + e \in Nat /\ (before + e) + 0 = before + e /\ 0 \in Nat
           /\ t2 + cand \in Int /\ sum + cand \in Int /\ 0 + (before + e) = before + e
      OBVIOUS
    <2>14. Within(sum, t1, before + e) BY <2>8, <2>11, <2>12, WithinTwo, Zenon
    <2>15. Within(t1, t2, 0) BY <2>10, <2>12, <2>13
    <2>16. Within(sum, t2, (before + e) + 0) BY <2>13, <2>14, <2>15, WithinTwo, Zenon
    <2>17. Within(sum, t2, before + e) BY <2>13, <2>16
    <2>18. Within(cand, cand, 0) BY WithinItself
    <2>19. Within(sum + cand, t2 + cand, (before + e) + 0)
      BY <2>13, <2>17, <2>18, WithinSum, Zenon
    <2>20. Within(sum + cand, t2 + cand, before + e) BY <2>13, <2>19
    <2>21. Within(all, sum + cand, 0) BY <1>1, <1>2, <2>2, PhaseAdds
    <2>22. Within(all, t2 + cand, 0 + (before + e))
      BY <2>13, <2>20, <2>21, WithinTwo, Zenon
    <2>23. t2 + cand = Phase(s, Chosen)[m]
      <3>1. t2 + cand = IF bit = 1 THEN rot ELSE cand BY <1>1, <2>12, ChoiceOf
      <3> QED BY <2>2, <3>1 DEF Chosen
    <2>24. before + e = ProductNoise BY <1>4, <2>2, <2>12, ProductNoiseIs
    <2> QED BY <2>2, <2>13, <2>22, <2>23, <2>24
  <1> QED BY <1>1, <1>2, <1>8 DEF CMuxHolds

(* What the round keeps: the key is one of the bit while it is used, the     *)
(* levels so far stand for their digits, and the CMux has chosen.            *)
RoundKept ==
  /\ pc \in {"encrypt", "multiply"} => KeyRows
  /\ Multiplied
  /\ CMuxHolds

LEMMA RoundKeptHolds ==
  ASSUME UIntCoversTorus
  PROVE  RoundInvariant /\ RoundInvariant' /\ RoundKept /\ [Next]_vars => RoundKept'
  <1> SUFFICES ASSUME RoundInvariant, RoundInvariant', RoundKept, [Next]_vars
               PROVE  RoundKept'
    OBVIOUS
  <1>1. ASSUME secret' = secret, bit' = bit, maker' = maker, trgsw' = trgsw, KeyRows
        PROVE  KeyRows'
    <2>1. RowNoise' = RowNoise BY <1>1 DEF RowNoise
    <2> QED BY <1>1, <2>1 DEF KeyRows
  <1>2. ASSUME secret' = secret, bit' = bit, maker' = maker, amount' = amount, cand0' = cand0,
               res' = res, CMuxHolds,
               pc' \in {"extract", "switch", "done"} => pc \in {"extract", "switch", "done"}
        PROVE  CMuxHolds'
    <2>1. ProductNoise' = ProductNoise BY <1>2 DEF ProductNoise, RowNoise, HalfBase
    <2>2. Chosen' = Chosen BY <1>2 DEF Chosen, Rotated
    <2> QED BY <1>2, <2>1, <2>2 DEF CMuxHolds
  <1>3. ASSUME secret' = secret, bit' = bit, maker' = maker, amount' = amount, cand0' = cand0,
               res' = res, i' = i, Multiplied, pc' = "multiply" => pc = "multiply"
        PROVE  Multiplied'
    <2>1. LevelNoise' = LevelNoise BY <1>3 DEF LevelNoise, OneProduct, RowNoise, HalfBase
    <2>2. Difference' = Difference BY <1>3 DEF Difference, Rotated
    <2> QED BY <1>3, <2>1, <2>2 DEF Multiplied
  <1>4. CASE MakeKey
    <2>1. KeyRows' BY <1>4, KeyMade
    <2>2. pc' = "encrypt" BY <1>4 DEF MakeKey
    <2> QED BY <2>1, <2>2 DEF RoundKept, Multiplied, CMuxHolds
  <1>5. CASE Encrypt
    <2>1. Multiplied' BY <1>5, MultipliedAtFirst
    <2>2. pc' = "multiply" BY <1>5 DEF Encrypt
    <2>3. KeyRows' BY <1>1, <1>5 DEF Encrypt, RoundKept
    <2> QED BY <2>1, <2>2, <2>3 DEF RoundKept, CMuxHolds
  <1>6. CASE MultiplyLevel
    <2>1. pc' = "multiply" /\ KeyRows /\ Multiplied BY <1>6 DEF MultiplyLevel, RoundKept
    <2>2. Multiplied' BY <1>6, <2>1, MultiplyingKeepsPhase
    <2>3. KeyRows' BY <1>1, <1>6, <2>1 DEF MultiplyLevel
    <2> QED BY <2>1, <2>2, <2>3 DEF RoundKept, CMuxHolds
  <1>7. CASE AddBack
    <2>1. pc' = "extract" BY <1>7 DEF AddBack
    <2>2. CMuxHolds' BY <1>7, AddBackChooses DEF RoundKept
    <2> QED BY <2>1, <2>2 DEF RoundKept, Multiplied
  <1>8. CASE Extract
    <2>1. pc' = "switch" BY <1>8 DEF Extract
    <2>2. CMuxHolds' BY <1>2, <1>8 DEF Extract, RoundKept
    <2> QED BY <2>1, <2>2 DEF RoundKept, Multiplied
  <1>9. CASE SwitchCoefficient
    <2>1. pc' = "switch" BY <1>9 DEF SwitchCoefficient
    <2>2. CMuxHolds' BY <1>2, <1>9 DEF SwitchCoefficient, RoundKept
    <2> QED BY <2>1, <2>2 DEF RoundKept, Multiplied
  <1>10. CASE Finish
    <2>1. pc' = "done" BY <1>10 DEF Finish
    <2>2. CMuxHolds' BY <1>2, <1>10 DEF Finish, RoundKept
    <2> QED BY <2>1, <2>2 DEF RoundKept, Multiplied
  <1>11. CASE UNCHANGED vars
    <2>1. pc \in {"encrypt", "multiply"} => KeyRows' BY <1>1, <1>11 DEF vars, RoundKept
    <2>2. CMuxHolds' BY <1>2, <1>11 DEF vars, RoundKept
    <2>3. Multiplied' BY <1>3, <1>11 DEF vars, RoundKept
    <2> QED BY <1>11, <2>1, <2>2, <2>3 DEF vars, RoundKept
  <1>12. CASE Draw \/ Represent
    <2>1. pc' \in {"key", "represented"} BY <1>12 DEF Draw, Represent
    <2> QED BY <2>1 DEF RoundKept, Multiplied, CMuxHolds
  <1>13. CASE Decrypted BY <1>11, <1>13 DEF Decrypted
  <1> QED
    BY <1>4, <1>5, <1>6, <1>7, <1>8, <1>9, <1>10, <1>11, <1>12, <1>13 DEF Next

(* Decrypting both sides of the choice. *)
LEMMA CMuxHoldsSuffices == RoundInvariant /\ CMuxHolds => RoundIsCMux
  <1> SUFFICES ASSUME RoundInvariant, CMuxHolds, pc = "extract", NEW m \in Coefficients
               PROVE  Near(Q, TRLWEDecrypt(secret.r, res)[m], TRLWEDecrypt(secret.r, Chosen)[m],
                           ProductNoise)
    BY DEF RoundIsCMux
  <1>1. /\ secret.r \in [Coefficients -> Int] /\ res \in TRLWEs /\ Chosen \in TRLWEs
    <2>1. secret \in Keys /\ res \in TRLWEs /\ cand0 \in TRLWEs /\ amount \in Nat
      BY DEF RoundInvariant, Typed
    <2>2. Chosen \in TRLWEs BY <2>1, DifferenceTyped DEF Chosen
    <2> QED BY <2>1, <2>2, KeysTyped DEF Coefficients
  <1>2. PICK x \in Int, y \in Int, d \in Int, e \in Int, noise \in Nat :
          /\ x = Phase(secret.r, res)[m] /\ y = Phase(secret.r, Chosen)[m]
          /\ d = TRLWEDecrypt(secret.r, res)[m] /\ e = TRLWEDecrypt(secret.r, Chosen)[m]
          /\ noise = ProductNoise
    <2>1. res \in Pairs /\ Chosen \in Pairs BY <1>1, PairsTyped
    <2>2. Phase(secret.r, res)[m] \in Int /\ Phase(secret.r, Chosen)[m] \in Int
      BY <1>1, <2>1, PhaseTyped
    <2>3. TRLWEDecrypt(secret.r, res)[m] \in Int /\ TRLWEDecrypt(secret.r, Chosen)[m] \in Int
      BY <1>1, PhaseIs, PolysTyped
    <2> QED BY <2>2, <2>3, ProductNoiseIs
  <1>3. Within(d, x, 0) /\ Within(e, y, 0) BY <1>1, <1>2, PhaseIs
  <1>4. Within(x, y, noise) BY <1>2 DEF CMuxHolds
  <1>5. 0 \in Nat /\ 0 + noise = noise /\ noise + 0 = noise OBVIOUS
  <1>6. Within(d, y, 0 + noise) BY <1>3, <1>4, <1>5, WithinTwo, Zenon
  <1>7. Within(y, e, 0) BY <1>3, <1>5, WithinBack
  <1>8. Within(d, y, noise) BY <1>5, <1>6
  <1>9. Within(d, e, noise + 0) BY <1>5, <1>7, <1>8, WithinTwo, Zenon
  <1>10. Within(d, e, noise) BY <1>5, <1>9
  <1> QED BY <1>2, <1>10, NearIs

LEMMA RoundKeptAtFirst == Init => RoundKept
  BY DEF Init, RoundKept, Multiplied, CMuxHolds

(* The CMux chooses between the phases of its candidates and adds no more    *)
(* than ProductNoise, for every secret, bit, input, rotation and error of    *)
(* the rows, every dimension and every gadget: ExternalProduct and CMux,     *)
(* under a TRGSW made in any of the three ways.  A Torus must be no wider    *)
(* than a UInt; where it is wider a digit loses its upper bits.              *)
THEOREM RoundAlwaysIsCMux ==
  ASSUME UIntCoversTorus
  PROVE  Spec => []RoundIsCMux
  <1>1. RoundInvariant /\ RoundInvariant' /\ RoundKept /\ [Next]_vars => RoundKept'
    BY RoundKeptHolds
  <1>2. RoundInvariant /\ RoundKept => RoundIsCMux
    BY CMuxHoldsSuffices DEF RoundKept
  <1> QED
    BY <1>1, <1>2, RoundInvariantHoldsAtFirst, RoundInvariantHolds, RoundKeptAtFirst, PTL
    DEF Spec

-----------------------------------------------------------------------------
(* The rotation.                                                           *)

LEMMA CoefWithin ==
  ASSUME NEW x \in [Coefficients -> Int], NEW y \in [Coefficients -> Int], NEW b \in Nat,
         \A j \in Coefficients : Within(x[j], y[j], b), NEW e \in (-(2 * N))..(N - 1)
  PROVE  Within(Coef(x, e), Coef(y, e), b)
  <1>1. N \in Nat \ {0} BY TorusSize
  <1>2. CASE e >= 0
    <2>1. e \in Coefficients BY <1>1, <1>2 DEF Coefficients
    <2> QED BY <1>2, <2>1 DEF Coef
  <1>3. CASE e < 0 /\ e >= -N
    <2>1. e + N \in Coefficients /\ ~(e >= 0) BY <1>1, <1>3 DEF Coefficients
    <2>2. PICK v \in Int, w \in Int : v = x[e + N] /\ w = y[e + N] BY <2>1
    <2>3. Within(-v, -w, b) BY <2>1, <2>2, WithinMinus
    <2> QED BY <1>3, <2>1, <2>2, <2>3 DEF Coef
  <1>4. CASE e < -N
    <2>1. e + 2 * N \in Coefficients /\ ~(e >= 0) /\ ~(e >= -N)
      BY <1>1, <1>4 DEF Coefficients
    <2> QED BY <2>1 DEF Coef
  <1> QED BY <1>1, <1>2, <1>3, <1>4

(* How far to rotate: a whole turn is 2N. *)
By(turns) == turns % (2 * N)

LEMMA ByTyped ==
  ASSUME NEW turns \in Nat
  PROVE  /\ By(turns) \in 0..(2 * N - 1)
         /\ \A m \in Coefficients : m - By(turns) \in (-(2 * N))..(N - 1)
  <1>1. PICK w \in Nat \ {0} : w = 2 * N BY TorusSize
  <1>2. turns % w \in 0..(w - 1) BY Remainder
  <1>3. By(turns) \in 0..(2 * N - 1) BY <1>1, <1>2 DEF By
  <1>4. \A m \in Coefficients : m - By(turns) \in (-(2 * N))..(N - 1)
    BY <1>3, TorusSize DEF Coefficients
  <1> QED BY <1>3, <1>4

(* rotate moves coefficients along the powers of X. *)
LEMMA RotateIs ==
  ASSUME NEW x \in Polys, NEW turns \in Nat, NEW m \in Coefficients
  PROVE  Within(rotate(x, turns)[m], Coef(x, m - By(turns)), 0)
  <1>0. PICK dim \in Nat \ {0} : dim = N BY TorusSize
  <1>1. PICK by \in 0..(2 * dim - 1) : by = By(turns) BY <1>0, ByTyped
  <1>2. m \in 0..(dim - 1) BY <1>0 DEF Coefficients
  <1>3. PICK source : source = (m + 2 * dim - by) % dim OBVIOUS
  <1>4. rotate(x, turns)[m]
          = IF ((source + by) \div N) % 2 = 1 THEN (-x[source]) % Q ELSE x[source]
    BY <1>0, <1>1, <1>3 DEF rotate, By
  <1>5. PICK e \in Int : e = m - by BY <1>1, <1>2
  <1>6. x \in [Coefficients -> Int] BY PolysTyped
  <1>7. CASE e >= 0
    <2>1. e \in 0..(dim - 1) /\ m + 2 * dim - by = 2 * dim + e BY <1>1, <1>2, <1>5, <1>7
    <2>2. source = e
      <3>1. 2 \in Int /\ e \in 0..(dim - 1) BY <2>1
      <3>2. (2 * dim + e) % dim = e BY <3>1, ModUnique
      <3> QED BY <1>3, <2>1, <3>2
    <2>3. (source + by) \div dim = 0
      <3>1. source + by = 0 * dim + m BY <1>1, <1>2, <1>5, <2>2
      <3> QED BY <1>2, <3>1, ModUnique
    <2>4. 0 % 2 # 1 OBVIOUS
    <2>5. rotate(x, turns)[m] = x[e] BY <1>0, <1>4, <2>2, <2>3, <2>4
    <2>6. Coef(x, m - By(turns)) = x[e] BY <1>1, <1>5, <1>7 DEF Coef
    <2>7. x[e] \in Int BY <1>0, <1>6, <2>1 DEF Coefficients
    <2> QED BY <2>5, <2>6, <2>7, WithinItself
  <1>8. CASE e < 0 /\ e >= -dim
    <2>1. e + dim \in 0..(dim - 1) /\ m + 2 * dim - by = 1 * dim + (e + dim)
      BY <1>1, <1>2, <1>5, <1>8
    <2>2. source = e + dim
      <3>1. PICK r \in 0..(dim - 1) : r = e + dim BY <2>1
      <3>2. (1 * dim + r) % dim = r BY ModUnique
      <3> QED BY <1>3, <2>1, <3>1, <3>2
    <2>3. (source + by) \div dim = 1
      <3>1. source + by = 1 * dim + m BY <1>1, <1>2, <1>5, <2>2
      <3> QED BY <1>2, <3>1, ModUnique
    <2>4. 1 % 2 = 1 OBVIOUS
    <2>5. rotate(x, turns)[m] = (-x[e + dim]) % Q BY <1>0, <1>4, <2>2, <2>3, <2>4
    <2>6. Coef(x, m - By(turns)) = -x[e + dim] BY <1>0, <1>1, <1>5, <1>8 DEF Coef
    <2>7. x[e + dim] \in Int /\ -x[e + dim] \in Int BY <1>0, <1>6, <2>1 DEF Coefficients
    <2> QED BY <2>5, <2>6, <2>7, Reduced
  <1>9. CASE e < -dim
    <2>1. e + 2 * dim \in 0..(dim - 1) /\ m + 2 * dim - by = 0 * dim + (e + 2 * dim)
      BY <1>1, <1>2, <1>5, <1>9
    <2>2. source = e + 2 * dim
      <3>1. PICK r \in 0..(dim - 1) : r = e + 2 * dim BY <2>1
      <3>2. (0 * dim + r) % dim = r BY ModUnique
      <3> QED BY <1>3, <2>1, <3>1, <3>2
    <2>3. (source + by) \div dim = 2
      <3>1. source + by = 2 * dim + m BY <1>1, <1>2, <1>5, <2>2
      <3> QED BY <1>2, <3>1, ModUnique
    <2>4. 2 % 2 # 1 OBVIOUS
    <2>5. rotate(x, turns)[m] = x[e + 2 * dim] BY <1>0, <1>4, <2>2, <2>3, <2>4
    <2>6. Coef(x, m - By(turns)) = x[e + 2 * dim] BY <1>0, <1>1, <1>5, <1>9 DEF Coef
    <2>7. x[e + 2 * dim] \in Int BY <1>0, <1>6, <2>1 DEF Coefficients
    <2> QED BY <2>5, <2>6, <2>7, WithinItself
  <1> QED BY <1>0, <1>5, <1>7, <1>8, <1>9

(* X to the power of by. *)
Monomial(by) == IF by < N THEN Unit(by, 1) ELSE Unit(by - N, -1)

LEMMA MonomialRotates ==
  ASSUME NEW by \in 0..(2 * N - 1), NEW x \in [Coefficients -> Int], NEW m \in Coefficients
  PROVE  /\ Monomial(by) \in [Coefficients -> Int]
         /\ Product(Monomial(by), x)[m] = Coef(x, m - by)
  <1>0. N \in Nat \ {0} BY TorusSize
  <1>1. m - by \in (-(2 * N))..(N - 1) BY <1>0 DEF Coefficients
  <1>2. PICK y \in [Coefficients -> Int] : y = Turned(x, m) BY TurnedTyped DEF Coefficients
  <1>3. 1 \in Int /\ -1 \in Int OBVIOUS
  <1>4. CASE by < N
    <2>1. by \in Coefficients BY <1>0, <1>4 DEF Coefficients
    <2>2. /\ Unit(by, 1) \in [Coefficients -> Int]
          /\ Inner(N, Unit(by, 1), y) = 1 * y[by]
      BY <1>3, <2>1, InnerUnit, Zenon
    <2>3. y[by] = Coef(x, m - by) BY <1>2, <2>1, TurnedIs
    <2>4. y[by] \in Int /\ 1 * y[by] = y[by] BY <2>1
    <2> QED BY <1>2, <1>4, <2>2, <2>3, <2>4 DEF Monomial, Product
  <1>5. CASE ~(by < N)
    <2>1. by - N \in Coefficients /\ m - (by - N) = (m - by) + N /\ m - by < 0
      BY <1>0, <1>5 DEF Coefficients
    <2>2. /\ Unit(by - N, -1) \in [Coefficients -> Int]
          /\ Inner(N, Unit(by - N, -1), y) = (-1) * y[by - N]
      BY <1>3, <2>1, InnerUnit, Zenon
    <2>3. y[by - N] = Coef(x, (m - by) + N) BY <1>2, <2>1, TurnedIs
    <2>4. Coef(x, m - by) = -Coef(x, (m - by) + N) BY <1>1, <2>1, CoefTyped
    <2>5. y[by - N] \in Int BY <2>1
    <2>6. (-1) * y[by - N] = -y[by - N] BY <2>5
    <2> QED BY <1>2, <1>5, <2>2, <2>3, <2>4, <2>6 DEF Monomial, Product
  <1> QED BY <1>4, <1>5

(* Rotating both halves rotates the phase. *)
LEMMA RotatedPhase ==
  ASSUME NEW s \in [Coefficients -> Int], NEW c \in TRLWEs, NEW turns \in Nat,
         NEW m \in Coefficients
  PROVE  Within(Phase(s, [a |-> rotate(c.a, turns), b |-> rotate(c.b, turns)])[m],
                Coef(Phase(s, c), m - By(turns)), 0)
  <1>1. PICK by \in 0..(2 * N - 1) : by = By(turns) BY ByTyped
  <1>2. PICK u \in [Coefficients -> Int] :
          \A x \in [Coefficients -> Int], j \in Coefficients :
            Product(u, x)[j] = Coef(x, j - by)
    <2>1. 0 \in Coefficients /\ \E x : x \in [Coefficients -> Int]
      BY PolysTyped, TorusSize DEF Coefficients
    <2>2. Monomial(by) \in [Coefficients -> Int] BY <2>1, MonomialRotates
    <2> QED BY <2>2, MonomialRotates
  <1>3. c.a \in Polys /\ c.b \in Polys /\ c \in Pairs BY PolysTyped, PairsTyped
  <1>4. PICK f \in Pairs :
          /\ f = [a |-> Product(u, c.a), b |-> Product(u, c.b)]
          /\ \A j \in Coefficients : Phase(s, f)[j] = Product(u, Phase(s, c))[j]
    BY <1>3, PhaseOfProduct
  <1>5. PICK r \in TRLWEs : r = [a |-> rotate(c.a, turns), b |-> rotate(c.b, turns)]
    BY <1>3, RotateTyped DEF TRLWEs
  <1>6. ASSUME NEW x \in Polys, NEW j \in Coefficients
        PROVE  Within(rotate(x, turns)[j], 0 + 1 * Product(u, x)[j], 0)
    <2>1. x \in [Coefficients -> Int] BY PolysTyped
    <2>2. Product(u, x)[j] \in Int BY <2>1, ProductTyped
    <2>3. 0 + 1 * Product(u, x)[j] = Product(u, x)[j] BY <2>2
    <2>4. Within(rotate(x, turns)[j], Coef(x, j - by), 0) BY <1>1, RotateIs
    <2> QED BY <1>2, <2>1, <2>3, <2>4
  <1>7. Combines(r, TRLWEZero, 1, f)
    <2>1. TRLWEZero.a = Zero /\ TRLWEZero.b = Zero BY DEF TRLWEZero
    <2>2. \A j \in Coefficients : Zero[j] = 0 BY DEF Zero
    <2> QED BY <1>3, <1>4, <1>5, <1>6, <2>1, <2>2 DEF Combines
  <1>8. TRLWEZero \in Pairs /\ r \in Pairs /\ 1 \in Int BY PolysTyped, PairsTyped
  <1>9. Within(Phase(s, r)[m], Phase(s, TRLWEZero)[m] + 1 * Phase(s, f)[m], 0)
    BY <1>7, <1>8, PhaseLinear, Zenon
  <1>10. Phase(s, TRLWEZero)[m] = 0 BY ZeroPhase
  <1>11. Phase(s, f)[m] \in Int BY PhaseTyped
  <1>12. Phase(s, f)[m] = Coef(Phase(s, c), m - by)
    <2>1. Phase(s, c) \in [Coefficients -> Int] BY <1>3, PhaseTyped
    <2> QED BY <1>2, <1>4, <2>1
  <1>13. 0 + 1 * Phase(s, f)[m] = Phase(s, f)[m] BY <1>11
  <1> QED BY <1>1, <1>5, <1>9, <1>10, <1>12, <1>13

(* The input stands for the message, within two rows' errors. *)
InputKept ==
  pc \in {"multiply", "extract", "switch", "done"} =>
    \A m \in Coefficients : Within(Phase(secret.r, cand0)[m], message[m], 2)

LEMMA PublicPhase ==
  ASSUME secret \in Keys, NEW x \in TRLWEs, NEW y \in TRLWEs, NEW chosen \in SUBSET {1, 2},
         NEW pt \in Polys,
         \A m \in Coefficients : /\ Within(Phase(secret.r, x)[m], 0, 1)
                                 /\ Within(Phase(secret.r, y)[m], 0, 1),
         NEW m \in Coefficients
  PROVE  Within(Phase(secret.r, PublicEncrypt(<<x, y>>, chosen, pt))[m], pt[m], 2)
  <1>1. PICK s \in [Coefficients -> Int] : s = secret.r BY KeysTyped DEF Coefficients
  <1>2. PICK one : one = IF 1 \in chosen THEN TRLWEAdd(TRLWEZero, x) ELSE TRLWEZero OBVIOUS
  <1>3. PICK two : two = IF 2 \in chosen THEN TRLWEAdd(one, y) ELSE one OBVIOUS
  <1>4. PICK c \in TRLWEs :
          /\ c = PublicEncrypt(<<x, y>>, chosen, pt)
          /\ c = [a |-> two.a, b |-> PolyAdd(two.b, pt)] /\ two \in TRLWEs
    BY <1>2, <1>3, PublicEncryptIs
  <1>5. one \in TRLWEs BY <1>2, PolysTyped, TRLWEOps
  <1>6. ASSUME NEW f \in TRLWEs, NEW g \in TRLWEs, NEW b \in Nat, NEW b2 \in Nat,
               Within(Phase(s, f)[m], 0, b), Within(Phase(s, g)[m], 0, b2)
        PROVE  Within(Phase(s, TRLWEAdd(f, g))[m], 0, b + b2)
    <2>1. PICK u \in Int, v \in Int, w \in Int :
            u = Phase(s, f)[m] /\ v = Phase(s, g)[m] /\ w = Phase(s, TRLWEAdd(f, g))[m]
      <3>1. f \in Pairs /\ g \in Pairs /\ TRLWEAdd(f, g) \in Pairs BY TRLWEOps, PairsTyped
      <3>2. /\ Phase(s, f)[m] \in Int /\ Phase(s, g)[m] \in Int
            /\ Phase(s, TRLWEAdd(f, g))[m] \in Int
        BY <3>1, PhaseTyped
      <3> QED BY <3>2
    <2>2. Within(w, u + v, 0) BY <2>1, PhaseAdds
    <2>3. Within(u, 0, b) /\ Within(v, 0, b2) BY <1>6, <2>1
    <2>4. 0 \in Int /\ 0 \in Nat /\ 0 + 0 = 0 /\ u + v \in Int /\ b + b2 \in Nat
          /\ 0 + (b + b2) = b + b2
      OBVIOUS
    <2>5. Within(u + v, 0 + 0, b + b2) BY <2>3, <2>4, WithinSum, Zenon
    <2>6. Within(u + v, 0, b + b2) BY <2>4, <2>5
    <2>7. Within(w, 0, 0 + (b + b2)) BY <2>2, <2>4, <2>6, WithinTwo, Zenon
    <2> QED BY <2>1, <2>4, <2>7
  <1>7. /\ 0 \in Int /\ 0 \in Nat /\ 1 \in Nat /\ 2 \in Nat
        /\ 0 + 1 = 1 /\ 1 + 1 = 2 /\ 2 + 0 = 2 /\ 0 + 2 = 2 /\ 0 <= 1 /\ 1 <= 2
    OBVIOUS
  <1>8. Within(Phase(s, x)[m], 0, 1) /\ Within(Phase(s, y)[m], 0, 1) BY <1>1
  <1>9. Within(Phase(s, TRLWEZero)[m], 0, 0)
    <2>1. Phase(s, TRLWEZero)[m] = 0 BY ZeroPhase
    <2> QED BY <1>7, <2>1, WithinItself
  <1>10. Within(Phase(s, one)[m], 0, 1)
    <2>1. TRLWEZero \in TRLWEs /\ Phase(s, TRLWEZero)[m] = 0 BY PolysTyped, ZeroPhase
    <2>2. Within(Phase(s, TRLWEAdd(TRLWEZero, x))[m], 0, 0 + 1)
      BY <1>6, <1>7, <1>8, <1>9, <2>1, Zenon
    <2>3. Within(0, 0, 1)
      <3>1. Within(0, 0, 0) BY <1>7, WithinItself
      <3> QED BY <1>7, <3>1, WithinMore, Zenon
    <2> QED BY <1>2, <1>7, <2>1, <2>2, <2>3
  <1>11. Phase(s, one)[m] \in Int BY <1>5, PairsTyped, PhaseTyped
  <1>12. Within(Phase(s, two)[m], 0, 2)
    <2>1. Within(Phase(s, TRLWEAdd(one, y))[m], 0, 1 + 1)
      BY <1>5, <1>6, <1>7, <1>8, <1>10, Zenon
    <2>2. Within(Phase(s, one)[m], 0, 2) BY <1>7, <1>10, <1>11, WithinMore, Zenon
    <2> QED BY <1>3, <1>7, <2>1, <2>2
  <1>13. PICK plain \in Pairs : plain = [a |-> Zero, b |-> pt]
    <2>1. Zero \in [Coefficients -> Int] /\ pt \in [Coefficients -> Int] BY PolysTyped
    <2>2. [a |-> Zero, b |-> pt] \in Pairs BY <2>1 DEF Pairs
    <2> QED BY <2>2
  <1>14. Combines(c, two, 1, plain)
    <2>1. /\ two.a \in [Coefficients -> Int] /\ two.b \in [Coefficients -> Int]
          /\ pt \in [Coefficients -> Int]
      BY <1>4, PolysTyped
    <2>2. c.a = two.a /\ c.b = PolyAdd(two.b, pt) BY <1>4
    <2>3. plain.a = Zero /\ plain.b = pt BY <1>13
    <2>4. ASSUME NEW j \in Coefficients
          PROVE  /\ Within(c.a[j], two.a[j] + 1 * plain.a[j], 0)
                 /\ Within(c.b[j], two.b[j] + 1 * plain.b[j], 0)
      <3>1. Zero[j] = 0 BY DEF Zero
      <3>2. two.a[j] \in Int /\ two.b[j] \in Int /\ pt[j] \in Int BY <2>1
      <3>3. two.a[j] + 1 * 0 = two.a[j] /\ two.b[j] + 1 * pt[j] = two.b[j] + pt[j] BY <3>2
      <3>4. Within(two.a[j], two.a[j], 0) BY <3>2, WithinItself
      <3>5. Within(PolyAdd(two.b, pt)[j], two.b[j] + pt[j], 0) BY <2>1, PolyOps
      <3> QED BY <2>2, <2>3, <3>1, <3>3, <3>4, <3>5
    <2> QED BY <2>4 DEF Combines
  <1>15. Phase(s, plain)[m] = pt[m] /\ pt[m] \in Int
    <2>1. Product(s, Zero)[m] = 0 BY NothingTimes
    <2>2. pt[m] \in Int BY PolysTyped
    <2> QED BY <1>13, <2>1, <2>2 DEF Phase
  <1>16. PICK u \in Int, v \in Int, w \in Int :
           u = Phase(s, two)[m] /\ v = pt[m] /\ w = Phase(s, c)[m]
    <2>1. two \in Pairs /\ c \in Pairs BY <1>4, PairsTyped
    <2>2. Phase(s, two)[m] \in Int /\ Phase(s, c)[m] \in Int BY <2>1, PhaseTyped
    <2> QED BY <1>15, <2>2
  <1>17. Within(w, u + v, 0)
    <2>1. two \in Pairs /\ c \in Pairs /\ 1 \in Int BY <1>4, PairsTyped
    <2>2. Within(Phase(s, c)[m], Phase(s, two)[m] + 1 * Phase(s, plain)[m], 0)
      BY <1>14, <2>1, PhaseLinear, Zenon
    <2>3. u + 1 * v = u + v OBVIOUS
    <2> QED BY <1>15, <1>16, <2>2, <2>3
  <1>18. Within(u, 0, 2) BY <1>12, <1>16
  <1>19. Within(u + v, v, 2)
    <2>1. Within(v, v, 0) /\ 0 + v = v BY WithinItself
    <2>2. Within(u + v, 0 + v, 2 + 0) BY <1>7, <1>18, <2>1, WithinSum, Zenon
    <2> QED BY <1>7, <2>1, <2>2
  <1>20. Within(w, v, 0 + 2)
    <2>1. u + v \in Int OBVIOUS
    <2> QED BY <1>7, <1>17, <1>19, <2>1, WithinTwo, Zenon
  <1> QED BY <1>1, <1>4, <1>7, <1>16, <1>20

LEMMA InputMade ==
  ASSUME RoundInvariant, Encrypt
  PROVE  InputKept'
  <1>1. /\ secret \in Keys /\ message \in Polys /\ secret' = secret /\ message' = message
    BY DEF RoundInvariant, Typed, Encrypt
  <1>2. PICK mask \in Polys, sign \in {-1, 1} :
          \/ cand0' = TRLWEEncrypt(secret.r, mask, message, RowError(sign, 0))
          \/ \E chosen \in SUBSET {1, 2} :
               cand0' = PublicEncrypt(<<TRLWEEncrypt(secret.r, mask, Zero, RowError(sign, 0)),
                                        ZeroRow(sign, 1)>>, chosen, message)
    BY GivenTyped DEF Encrypt
  <1>3. ASSUME NEW m \in Coefficients
        PROVE  Within(Phase(secret.r, cand0')[m], message[m], 2)
    <2>1. CASE cand0' = TRLWEEncrypt(secret.r, mask, message, RowError(sign, 0))
      <3>1. PICK x \in Int, y \in Int :
              x = Phase(secret.r, cand0')[m] /\ y = message[m]
        <4>1. cand0' \in Pairs
          <5>1. RowError(sign, 0) \in [Coefficients -> Int]
            <6>1. 0 \in Int OBVIOUS
            <6> QED BY <6>1, RowTyped, Zenon
          <5> QED BY <1>1, <2>1, <5>1, TRLWEEncryptTyped, PairsTyped
        <4>2. secret.r \in [Coefficients -> Int] BY <1>1, KeysTyped DEF Coefficients
        <4>3. message[m] \in Int BY <1>1, PolysTyped
        <4> QED BY <4>1, <4>2, <4>3, PhaseTyped
      <3>2. Within(x, y, 1) BY <1>1, <2>1, <3>1, EncryptNear
      <3>3. 1 \in Nat /\ 2 \in Nat /\ 1 <= 2 OBVIOUS
      <3> QED BY <3>1, <3>2, <3>3, WithinMore, Zenon
    <2>2. ASSUME NEW chosen \in SUBSET {1, 2},
                 cand0' = PublicEncrypt(<<TRLWEEncrypt(secret.r, mask, Zero, RowError(sign, 0)),
                                          ZeroRow(sign, 1)>>, chosen, message)
          PROVE  Within(Phase(secret.r, cand0')[m], message[m], 2)
      <3>1. PICK x \in TRLWEs, y \in TRLWEs :
              /\ x = TRLWEEncrypt(secret.r, mask, Zero, RowError(sign, 0))
              /\ y = ZeroRow(sign, 1)
        <4>1. RowMask(1) \in Polys /\ Zero \in Polys
              /\ RowError(sign, 0) \in [Coefficients -> Int]
              /\ RowError(sign, 1) \in [Coefficients -> Int]
          <5>1. 0 \in Int /\ 1 \in Int OBVIOUS
          <5> QED BY <5>1, RowTyped, PolysTyped, Zenon
        <4>2. ZeroRow(sign, 1) \in TRLWEs BY <1>1, <4>1, TRLWEEncryptTyped DEF ZeroRow
        <4>3. TRLWEEncrypt(secret.r, mask, Zero, RowError(sign, 0)) \in TRLWEs
          BY <1>1, <4>1, TRLWEEncryptTyped
        <4> QED BY <4>2, <4>3
      <3>2. \A j \in Coefficients : /\ Within(Phase(secret.r, x)[j], 0, 1)
                                    /\ Within(Phase(secret.r, y)[j], 0, 1)
        <4>1. TAKE j \in Coefficients
        <4>2. Zero \in Polys /\ Zero[j] = 0 BY PolysTyped DEF Zero
        <4>3. Within(Phase(secret.r, x)[j], 0, 1) BY <1>1, <3>1, <4>2, EncryptNear
        <4>4. Within(Phase(secret.r, y)[j], 0, 1) BY <1>1, <3>1, ZeroRowPhase
        <4> QED BY <4>3, <4>4
      <3> QED BY <1>1, <2>2, <3>1, <3>2, PublicPhase
    <2> QED BY <1>2, <2>1, <2>2
  <1> QED BY <1>1, <1>3 DEF InputKept

LEMMA InputKeptHolds == RoundInvariant /\ InputKept /\ [Next]_vars => InputKept'
  <1> SUFFICES ASSUME RoundInvariant, InputKept, [Next]_vars PROVE InputKept' OBVIOUS
  <1>1. CASE Encrypt BY <1>1, InputMade
  <1>2. ASSUME secret' = secret, cand0' = cand0, message' = message,
               pc \in {"multiply", "extract", "switch", "done"}
        PROVE  InputKept'
    BY <1>2 DEF InputKept
  <1>3. CASE MultiplyLevel \/ AddBack \/ Extract \/ SwitchCoefficient \/ Finish
    BY <1>2, <1>3 DEF MultiplyLevel, AddBack, Extract, SwitchCoefficient, Finish
  <1>4. CASE UNCHANGED vars BY <1>4 DEF vars, InputKept
  <1>5. CASE Decrypted BY <1>4, <1>5 DEF Decrypted
  <1>6. CASE Draw \/ Represent \/ MakeKey
    <2>1. pc' \in {"key", "represented", "encrypt"} BY <1>6 DEF Draw, Represent, MakeKey
    <2> QED BY <2>1 DEF InputKept
  <1> QED BY <1>1, <1>3, <1>4, <1>5, <1>6 DEF Next

(* What is chosen stands for what is meant. *)
LEMMA ChosenMeans ==
  ASSUME RoundInvariant, InputKept, pc = "done", NEW m \in Coefficients
  PROVE  LET meant == IF bit = 1 THEN rotate(message, amount) ELSE message
         IN  meant \in Polys /\ Within(Phase(secret.r, Chosen)[m], meant[m], 2)
  <1>1. /\ secret.r \in [Coefficients -> Int] /\ cand0 \in TRLWEs /\ amount \in Nat
        /\ message \in Polys /\ rotate(message, amount) \in Polys
    <2>1. /\ secret \in Keys /\ cand0 \in TRLWEs /\ amount \in Nat /\ message \in Polys
      BY DEF RoundInvariant, Typed
    <2> QED BY <2>1, KeysTyped, RotateTyped DEF Coefficients
  <1>2. \A j \in Coefficients : Within(Phase(secret.r, cand0)[j], message[j], 2)
    BY DEF InputKept
  <1>3. Within(Phase(secret.r, Rotated(cand0))[m], rotate(message, amount)[m], 2)
    <2>1. PICK e \in (-(2 * N))..(N - 1) : e = m - By(amount) BY <1>1, ByTyped
    <2>2. PICK x \in [Coefficients -> Int], y \in [Coefficients -> Int] :
            x = Phase(secret.r, cand0) /\ y = message
      <3>1. cand0 \in Pairs BY <1>1, PairsTyped
      <3> QED BY <1>1, <3>1, PhaseTyped, PolysTyped
    <2>3. PICK u \in Int, v \in Int, r \in Int, f \in Int :
            /\ u = Coef(x, e) /\ v = Coef(y, e)
            /\ r = rotate(message, amount)[m] /\ f = Phase(secret.r, Rotated(cand0))[m]
      <3>1. Coef(x, e) \in Int /\ Coef(y, e) \in Int BY CoefTyped
      <3>2. rotate(message, amount)[m] \in Int BY <1>1, PolysTyped
      <3>3. Rotated(cand0) \in Pairs BY <1>1, DifferenceTyped, PairsTyped
      <3>4. Phase(secret.r, Rotated(cand0))[m] \in Int BY <1>1, <3>3, PhaseTyped
      <3> QED BY <3>1, <3>2, <3>4
    <2>4. 0 \in Nat /\ 2 \in Nat /\ 0 + 2 = 2 /\ 2 + 0 = 2 OBVIOUS
    <2>5. Within(f, u, 0)
      BY <1>1, <2>1, <2>2, <2>3, RotatedPhase DEF Rotated
    <2>6. Within(u, v, 2)
      <3>1. \A j \in Coefficients : Within(x[j], y[j], 2) BY <1>2, <2>2
      <3>2. Within(Coef(x, e), Coef(y, e), 2) BY <2>4, <3>1, CoefWithin, Zenon
      <3> QED BY <2>3, <3>2
    <2>7. Within(r, v, 0) BY <1>1, <2>1, <2>2, <2>3, RotateIs
    <2>8. Within(v, r, 0) BY <2>4, <2>7, WithinBack, Zenon
    <2>9. Within(f, v, 0 + 2) BY <2>4, <2>5, <2>6, WithinTwo, Zenon
    <2>10. Within(f, v, 2) BY <2>4, <2>9
    <2>11. Within(f, r, 2 + 0) BY <2>4, <2>8, <2>10, WithinTwo, Zenon
    <2> QED BY <2>3, <2>4, <2>11
  <1> QED BY <1>1, <1>2, <1>3 DEF Chosen

(* The coefficient, the key switch and the input, together. *)
LEMMA KeptSuffices ==
  RoundInvariant /\ CMuxHolds /\ InputKept /\ PhaseKept => DecryptsToChosen
  <1> DEFINE meant == IF bit = 1 THEN rotate(message, amount) ELSE message
  <1> SUFFICES ASSUME RoundInvariant, CMuxHolds, InputKept, PhaseKept, pc = "done"
               PROVE  Near(Q, TLWEDecrypt(secret.l, dst), meant[p],
                           2 + ProductNoise + N * SwitchNoise)
    BY DEF DecryptsToChosen
  <1>1. /\ secret \in Keys /\ res \in TRLWEs /\ p \in Coefficients /\ dst \in TLWEs /\ i = N
        /\ Chosen \in TRLWEs
    <2>1. /\ secret \in Keys /\ res \in TRLWEs /\ p \in Coefficients /\ dst \in TLWEs
          /\ cand0 \in TRLWEs /\ amount \in Nat /\ i = N
      BY DEF RoundInvariant, Typed, InStep
    <2>2. Chosen \in TRLWEs BY <2>1, DifferenceTyped DEF Chosen
    <2> QED BY <2>1, <2>2
  <1>2. secret.l \in [0..(n - 1) -> Int] /\ secret.r \in [Coefficients -> Int]
    BY <1>1, KeysTyped DEF Coefficients
  <1>3. meant \in Polys /\ Within(Phase(secret.r, Chosen)[p], meant[p], 2)
    BY <1>1, ChosenMeans
  <1> HIDE DEF meant
  <1>4. Sum(Still, N) = 0
    <2>1. \A j \in Coefficients : j < i BY <1>1, TorusSize DEF Coefficients
    <2>2. Still = [j \in Coefficients |-> 0] BY <2>1 DEF Still
    <2> QED BY <2>2, SumOfZeros, TorusSize DEF Coefficients
  <1>5. PICK d \in Int, x \in Int, y \in Int, z \in Int, w \in Int :
          /\ d = TLWEDecrypt(secret.l, dst) /\ x = TLWEPhase(secret.l, dst)
          /\ y = Phase(secret.r, res)[p] /\ z = Phase(secret.r, Chosen)[p] /\ w = meant[p]
    <2>1. TLWEDecrypt(secret.l, dst) \in Int /\ TLWEPhase(secret.l, dst) \in Int
      BY <1>1, <1>2, TLWEDecryptIs, TLWETyped, TorusSize DEF Torus
    <2>2. res \in Pairs /\ Chosen \in Pairs BY <1>1, PairsTyped
    <2>3. Phase(secret.r, res)[p] \in Int /\ Phase(secret.r, Chosen)[p] \in Int
      BY <1>1, <1>2, <2>2, PhaseTyped
    <2>4. meant[p] \in Int BY <1>1, <1>3, PolysTyped
    <2> QED BY <2>1, <2>3, <2>4
  <1>6. PICK b \in Nat, c \in Nat : b = ProductNoise /\ c = N * SwitchNoise
    <2>1. PICK noise \in Nat, dim \in Nat : noise = SwitchNoise /\ dim = N
      BY SwitchNoiseNat, TorusSize
    <2>2. dim * noise \in Nat BY SMT
    <2> QED BY <2>1, <2>2, ProductNoiseIs
  <1>7. Within(d, x, 0) BY <1>1, <1>2, <1>5, TLWEDecryptIs
  <1>8. Within(x, y, c)
    <2>1. TRLWEPhase(secret.r, res, p) = y BY <1>1, <1>2, <1>5, PhaseIs
    <2>2. x - 0 = x OBVIOUS
    <2> QED BY <1>1, <1>4, <1>5, <1>6, <2>1, <2>2 DEF PhaseKept
  <1>9. Within(y, z, b) BY <1>1, <1>5, <1>6 DEF CMuxHolds
  <1>10. Within(z, w, 2) BY <1>3, <1>5
  <1>11. /\ 0 \in Nat /\ 2 \in Nat /\ b + 2 \in Nat /\ c + (b + 2) \in Nat
         /\ 0 + (c + (b + 2)) = 2 + b + c
    OBVIOUS
  <1>12. Within(y, w, b + 2) BY <1>9, <1>10, <1>11, WithinTwo, Zenon
  <1>13. Within(x, w, c + (b + 2)) BY <1>8, <1>11, <1>12, WithinTwo, Zenon
  <1>14. Within(d, w, 0 + (c + (b + 2))) BY <1>7, <1>11, <1>13, WithinTwo, Zenon
  <1>15. Within(d, w, 2 + b + c) /\ 2 + b + c \in Nat BY <1>11, <1>14
  <1>16. Near(Q, d, w, 2 + b + c) BY <1>15, NearIs, Zenon
  <1> QED BY <1>5, <1>6, <1>16

(* End to end, for every key, message, rotation and error of the ranges the  *)
(* round draws from and every size: after TRLWE encryption by secret or      *)
(* public key, CMux, SampleExtract and KeySwitch, what is decrypted under    *)
(* the other key is the message, rotated if the bit is set, up to the sum of *)
(* the input's, the product's and the key switch's noise.                    *)
THEOREM AlwaysDecryptsToChosen ==
  ASSUME UIntCoversTorus
  PROVE  Spec => []DecryptsToChosen
  <1>1. RoundInvariant /\ RoundInvariant' /\ RoundKept /\ [Next]_vars => RoundKept'
    BY RoundKeptHolds
  <1>2. RoundInvariant /\ RoundKept /\ InputKept /\ PhaseKept => DecryptsToChosen
    BY KeptSuffices DEF RoundKept
  <1>3. Init => InputKept /\ PhaseKept BY DEF Init, InputKept, PhaseKept
  <1> QED
    BY <1>1, <1>2, <1>3, RoundInvariantHoldsAtFirst, RoundInvariantHolds, RoundKeptAtFirst,
       InputKeptHolds, PhaseKeptHolds, PTL
    DEF Spec

-----------------------------------------------------------------------------
(* Words in bulk: BulkArithmetic, on the same words.                       *)

LEMMA RemaindersAdd ==
  ASSUME NEW c \in Nat \ {0}, NEW x \in Int, NEW y \in Int
  PROVE  /\ x % c \in 0..(c - 1) /\ y % c \in 0..(c - 1)
         /\ ((x % c) + (y % c)) % c = (x + y) % c
         /\ ((x % c) - (y % c)) % c = (x - y) % c
  <1>1. PICK u \in 0..(c - 1) : u = x % c BY Remainder
  <1>2. PICK v \in 0..(c - 1) : v = y % c BY Remainder
  <1>3. PICK a \in Int : x = a * c + u BY <1>1, Remainder
  <1>4. PICK b \in Int : y = b * c + v BY <1>2, Remainder
  <1>5. PICK s \in 0..(c - 1) : s = (u + v) % c BY Remainder, u + v \in Int
  <1>6. PICK d \in 0..(c - 1) : d = (u - v) % c BY Remainder, u - v \in Int
  <1>7. PICK g \in Int : u + v = g * c + s BY <1>5, Remainder, u + v \in Int
  <1>8. PICK h \in Int : u - v = h * c + d BY <1>6, Remainder, u - v \in Int
  <1>9. (x + y) % c = s
    <2>1. PICK z \in Int : z = a + b + g OBVIOUS
    <2>2. PICK w \in Int : w = x + y OBVIOUS
    <2>3. w = z * c + s BY <1>3, <1>4, <1>7, <2>1, <2>2
    <2>4. w % c = s BY <2>3, RemainderIs
    <2> QED BY <2>2, <2>4
  <1>10. (x - y) % c = d
    <2>1. PICK z \in Int : z = a - b + h OBVIOUS
    <2>2. PICK w \in Int : w = x - y OBVIOUS
    <2>3. w = z * c + d BY <1>3, <1>4, <1>8, <2>1, <2>2
    <2>4. w % c = d BY <2>3, RemainderIs
    <2> QED BY <2>2, <2>4
  <1> QED BY <1>1, <1>2, <1>5, <1>6, <1>9, <1>10

LEMMA TorusExact ==
  ASSUME NEW q \in Nat, FitsWord(q), NEW x \in Int, NEW y \in Int
  PROVE  /\ ModTorusAdd(q, ModTorus(q, x), ModTorus(q, y)) = (x + y) % q
         /\ ModTorusSub(q, ModTorus(q, x), ModTorus(q, y)) = (x - y) % q
         /\ Wrap(x + y) % q = (x + y) % q
         /\ Wrap(x - y) % q = (x - y) % q
         /\ (x + y) % q \in Word
         /\ (x - y) % q \in Word
  <1>1. q \in Nat \ {0} BY DEF FitsWord
  <1>2. PICK u \in 0..(q - 1) : u = x % q BY <1>1, RemaindersAdd
  <1>3. PICK v \in 0..(q - 1) : v = y % q BY <1>1, RemaindersAdd
  <1>4. (u + v) % q = (x + y) % q /\ (u - v) % q = (x - y) % q
    BY <1>1, <1>2, <1>3, RemaindersAdd
  <1>5. u + v \in Int /\ u - v \in Int /\ x + y \in Int /\ x - y \in Int BY <1>1
  <1>6. Wrap(u + v) % q = (u + v) % q /\ Wrap(u - v) % q = (u - v) % q
    BY <1>5, WrapKeepsTurn
  <1>7. Wrap(x + y) % q = (x + y) % q /\ Wrap(x - y) % q = (x - y) % q
    BY <1>5, WrapKeepsTurn
  <1>8. q <= Limit
    <2>1. PICK turns \in 1..Limit : Limit = turns * q BY DEF FitsWord
    <2> QED BY <2>1, WordsAssumption, SMT
  <1>9. (x + y) % q \in 0..(q - 1) /\ (x - y) % q \in 0..(q - 1)
    BY <1>1, <1>5, Remainder
  <1>10. (x + y) % q \in Word /\ (x - y) % q \in Word
    BY <1>8, <1>9, WordsAssumption DEF Word
  <1>11. ModTorus(q, x) = u /\ ModTorus(q, y) = v BY <1>2, <1>3 DEF ModTorus
  <1>12. ModTorusAdd(q, u, v) = (x + y) % q /\ ModTorusSub(q, u, v) = (x - y) % q
    BY <1>4, <1>6 DEF ModTorusAdd, ModTorusSub
  <1> QED BY <1>7, <1>10, <1>11, <1>12

(* Up to half a word, one compare and one correction are the residue.      *)
LEMMA ResidueExact ==
  ASSUME NEW c, Addable(c), c # 0, NEW x \in 0..(c - 1), NEW y \in 0..(c - 1)
  PROVE  /\ ModIntAdd(c, ModInt(c, x), ModInt(c, y)) = (x + y) % c
         /\ ModIntSub(c, ModInt(c, x), ModInt(c, y)) = (x - y) % c
         /\ Wrap(Wrap(x + y) - (IF Wrap(x + y) >= c THEN c ELSE 0)) = (x + y) % c
         /\ Wrap(Wrap(x - y) + (IF x < y THEN c ELSE 0)) = (x - y) % c
         /\ (x + y) % c \in Word
         /\ (x - y) % c \in Word
  <1>1. c \in Nat \ {0} /\ 2 * c <= Limit
    BY WordsAssumption DEF Addable, Word
  <1>2. ModInt(c, x) = x /\ ModInt(c, y) = y BY <1>1, RemainderOfSmall DEF ModInt
  <1>3. x + y \in Word /\ Wrap(x + y) = x + y
    <2>1. x + y \in Word BY <1>1, WordsAssumption DEF Word
    <2> QED BY <2>1, WordIsItself
  <1>4. x + y >= c => x + y - c \in 0..(c - 1) /\ x + y - c \in Word
    BY <1>1, WordsAssumption DEF Word
  <1>5. (x + y) % c = IF x + y >= c THEN x + y - c ELSE x + y
    <2>1. x + y >= c => (x + y) % c = x + y - c
      BY <1>1, <1>4, RemainderIs, SMT
    <2>2. ~(x + y >= c) => (x + y) % c = x + y
      BY <1>1, RemainderOfSmall, SMT
    <2> QED BY <2>1, <2>2
  <1>6. Wrap(x - y) = IF x < y THEN x - y + Limit ELSE x - y
    <2>1. CASE x < y
      <3>1. x - y + Limit \in 0..(Limit - 1) BY <1>1, <2>1, WordsAssumption
      <3>2. x - y = -1 * Limit + (x - y + Limit) BY WordsAssumption
      <3> QED BY <2>1, <3>1, <3>2, RemainderIs, WordsAssumption, SMT DEF Wrap
    <2>2. CASE ~(x < y)
      <3>1. x - y \in Word BY <1>1, <2>2, WordsAssumption DEF Word
      <3> QED BY <2>2, <3>1, WordIsItself
    <2> QED BY <2>1, <2>2
  <1>7. (x - y) % c = IF x < y THEN x - y + c ELSE x - y
    <2>1. CASE x < y
      <3>1. x - y + c \in 0..(c - 1) BY <1>1, <2>1
      <3> QED BY <1>1, <2>1, <3>1, RemainderIs, SMT
    <2>2. CASE ~(x < y)
      <3>1. x - y \in 0..(c - 1) BY <1>1, <2>2
      <3> QED BY <1>1, <2>2, <3>1, RemainderOfSmall
    <2> QED BY <2>1, <2>2
  <1>8. x < y => /\ x - y + c \in Word
                 /\ Wrap(x - y + Limit + c) = x - y + c
    <2> SUFFICES ASSUME x < y
                 PROVE  /\ x - y + c \in 0..(Limit - 1)
                        /\ (x - y + Limit + c) % Limit = x - y + c
      BY DEF Word, Wrap
    <2>1. x - y + c \in 0..(Limit - 1) BY <1>1, WordsAssumption
    <2>2. x - y + Limit + c = 1 * Limit + (x - y + c) BY <1>1, WordsAssumption
    <2> QED BY <1>1, <2>1, <2>2, RemainderIs, WordsAssumption, SMT
  <1>9. ~(x < y) => x - y \in Word /\ Wrap(x - y) = x - y
    BY <1>1, WordIsItself, WordsAssumption DEF Word
  <1>10. x + y >= c => Wrap(x + y - c) = x + y - c BY <1>4, WordIsItself
  <1>11. ModIntAdd(c, x, y) = (x + y) % c
    BY <1>1, <1>3, <1>5, <1>10 DEF ModIntAdd
  <1>12. ModIntSub(c, x, y) = (x - y) % c
    BY <1>1, <1>6, <1>7, <1>8, <1>9 DEF ModIntSub
  <1>13. Wrap(Wrap(x + y) - (IF Wrap(x + y) >= c THEN c ELSE 0)) = (x + y) % c
    <2>1. CASE x + y >= c
      <3>1. (x + y) % c = x + y - c BY <1>5, <2>1
      <3>2. Wrap(x + y) - (IF Wrap(x + y) >= c THEN c ELSE 0) = x + y - c
        <4>1. Wrap(x + y) >= c BY <1>3, <2>1
        <4> QED BY <1>1, <1>3, <4>1
      <3> QED BY <1>10, <2>1, <3>1, <3>2
    <2>2. CASE ~(x + y >= c)
      <3>1. x + y - 0 = x + y BY <1>1
      <3>2. (x + y) % c = x + y BY <1>5, <2>2
      <3>3. Wrap(x + y - 0) = x + y BY <1>3, <3>1
      <3> QED BY <1>3, <2>2, <3>2, <3>3
    <2> QED BY <2>1, <2>2
  <1>14. Wrap(Wrap(x - y) + (IF x < y THEN c ELSE 0)) = (x - y) % c
    <2>1. CASE x < y BY <1>6, <1>7, <1>8, <2>1
    <2>2. CASE ~(x < y)
      <3>1. x - y + 0 = x - y BY <1>1
      <3> QED BY <1>7, <1>9, <2>2, <3>1
    <2> QED BY <2>1, <2>2
  <1>15. (x + y) % c \in Word BY <1>3, <1>4, <1>5
  <1>16. (x - y) % c \in Word BY <1>7, <1>8, <1>9
  <1> QED BY <1>2, <1>11, <1>12, <1>13, <1>14, <1>15, <1>16

(* What the operators make of values that are not reduced.                 *)
LEMMA ResidueOfAny ==
  ASSUME NEW c, Addable(c), c # 0, NEW x \in Int, NEW y \in Int
  PROVE  /\ ModIntAdd(c, ModInt(c, x), ModInt(c, y)) = (x + y) % c
         /\ ModIntSub(c, ModInt(c, x), ModInt(c, y)) = (x - y) % c
         /\ (x + y) % c \in Word
         /\ (x - y) % c \in Word
  <1>1. c \in Nat \ {0} BY WordsAssumption DEF Addable, Word
  <1>2. PICK u \in 0..(c - 1) : u = x % c BY <1>1, RemaindersAdd
  <1>3. PICK v \in 0..(c - 1) : v = y % c BY <1>1, RemaindersAdd
  <1>4. (u + v) % c = (x + y) % c /\ (u - v) % c = (x - y) % c
    BY <1>1, <1>2, <1>3, RemaindersAdd
  <1>5. ModInt(c, x) = u /\ ModInt(c, y) = v BY <1>1, <1>2, <1>3 DEF ModInt
  <1>6. ModInt(c, u) = u /\ ModInt(c, v) = v BY <1>1, RemainderOfSmall DEF ModInt
  <1>7. /\ ModIntAdd(c, ModInt(c, u), ModInt(c, v)) = (u + v) % c
        /\ ModIntSub(c, ModInt(c, u), ModInt(c, v)) = (u - v) % c
        /\ (u + v) % c \in Word /\ (u - v) % c \in Word
    BY ResidueExact
  <1> QED BY <1>4, <1>5, <1>6, <1>7

(* A lane that fits ends no later than the whole lanes do.                 *)
LEMMA LaneInside ==
  ASSUME NEW w \in Nat \ {0}, NEW s \in Nat, NEW k \in Nat, k * w + w <= s
  PROVE  k * w + w <= w * (s \div w)
  <1>1. PICK d \in Int : d = s \div w BY ModSplits
  <1>2. PICK r \in 0..(w - 1) : s = d * w + r
    <2>1. s % w \in 0..(w - 1) /\ s = (s \div w) * w + (s % w)
      BY s \in Int, ModSplits
    <2> QED BY <1>1, <2>1, Zenon
  <1>3. k < d
    <2> SUFFICES ASSUME d <= k PROVE FALSE BY <1>1
    <2>1. PICK f \in Nat : k = d + f BY k - d \in Nat
    <2>2. k * w = d * w + f * w /\ f * w \in Nat /\ d * w \in Int BY <2>1
    <2> QED BY <1>2, <2>2
  <1>4. PICK f \in Nat : d = k + 1 + f BY <1>3, d - (k + 1) \in Nat
  <1>5. w * d = k * w + w + f * w /\ f * w \in Nat /\ k * w \in Nat BY <1>4
  <1> QED BY <1>1, <1>5

-----------------------------------------------------------------------------
(* One element.                                                            *)

(* Every modulus leaves room for the sum of two residues. *)
AllAddable == \A e \in Element : e.type = "ModInt" => Addable(e.mod)

(* Lanes start at multiples of their width. *)
AtLane == HasLane /\ done + width <= Size => \E k \in Nat : done = k * width

BulkTyped ==
  /\ elem \in Element
  /\ op \in {"add", "sub"}
  /\ alias \in BOOLEAN
  /\ hardware \in BOOLEAN
  /\ src \in [Index -> Word]
  /\ left \in [Index -> Word]
  /\ AtLane
  /\ done \in Nat
  /\ loop \in {"run", "done", "threw"}

LEMMA ElementKinds ==
  ASSUME AllAddable, elem \in Element
  PROVE  \/ elem.type = "UInt"
         \/ elem.type = "ModInt" /\ Addable(elem.mod)
         \/ elem.type = "ModTorus" /\ FitsWord(elem.mod)
  BY BulkAssumption DEF BulkAssumption, AllAddable

LEMMA ScalarExact ==
  ASSUME AllAddable, elem \in Element, op \in {"add", "sub"},
         NEW x \in Word, NEW y \in Word, ~Throws(x, y)
  PROVE  Scalar(x, y) = Exact(x, y) /\ Exact(x, y) \in Word
  <1>1. CASE elem.type = "UInt"
    <2>1. op = "add" => x + y \in Word
      BY <1>1, WordsAssumption DEF Throws, UIntOverflows, Word
    <2>2. op = "sub" => x - y \in Word
      BY <1>1, WordsAssumption DEF Throws, UIntUnderflows, Word
    <2> QED BY <1>1, <2>1, <2>2 DEF Scalar, Exact
  <1>2. CASE elem.type = "ModInt" /\ Addable(elem.mod) /\ elem.mod = 0
    <2>1. \A r \in Int : Wrap(r) \in Word
      BY Remainder, WordsAssumption DEF Wrap, Word
    <2>2. x + y \in Int /\ x - y \in Int BY WordsAssumption DEF Word
    <2>3. Exact(x, y) = IF op = "add" THEN Wrap(x + y) ELSE Wrap(x - y)
      BY <1>2 DEF Exact, Wrap
    <2>4. Scalar(x, y) = IF op = "add" THEN Wrap(x + y) ELSE Wrap(x - y)
      BY <1>2 DEF Scalar, ModInt, ModIntAdd, ModIntSub
    <2> QED BY <2>1, <2>2, <2>3, <2>4
  <1>3. CASE elem.type = "ModInt" /\ Addable(elem.mod) /\ elem.mod # 0
    <2>1. x \in Int /\ y \in Int BY WordsAssumption DEF Word
    <2>2. Exact(x, y) = IF op = "add" THEN (x + y) % elem.mod ELSE (x - y) % elem.mod
      BY <1>3 DEF Exact
    <2>3. Scalar(x, y) =
            IF op = "add" THEN ModIntAdd(elem.mod, ModInt(elem.mod, x), ModInt(elem.mod, y))
            ELSE ModIntSub(elem.mod, ModInt(elem.mod, x), ModInt(elem.mod, y))
      BY <1>3 DEF Scalar
    <2> QED BY <1>3, <2>1, <2>2, <2>3, ResidueOfAny
  <1>4. CASE elem.type = "ModTorus" /\ FitsWord(elem.mod)
    <2>1. x \in Int /\ y \in Int BY WordsAssumption DEF Word
    <2>2. Exact(x, y) = IF op = "add" THEN (x + y) % elem.mod ELSE (x - y) % elem.mod
      BY <1>4 DEF Exact
    <2>3. Scalar(x, y) =
            IF op = "add" THEN ModTorusAdd(elem.mod, ModTorus(elem.mod, x), ModTorus(elem.mod, y))
            ELSE ModTorusSub(elem.mod, ModTorus(elem.mod, x), ModTorus(elem.mod, y))
      BY <1>4 DEF Scalar
    <2>4. elem.mod \in Nat BY <1>4 DEF FitsWord
    <2> QED BY <1>4, <2>1, <2>2, <2>3, <2>4, TorusExact
  <1> QED BY <1>1, <1>2, <1>3, <1>4, ElementKinds

LEMMA LaneExact ==
  ASSUME AllAddable, elem \in Element, op \in {"add", "sub"}, HasLane,
         NEW x \in Word, NEW y \in Word, FitsLane(x), FitsLane(y)
  PROVE  Lane(x, y) = Exact(x, y) /\ Exact(x, y) \in Word
  <1>1. CASE elem.type = "ModInt" /\ Addable(elem.mod) /\ elem.mod = 0
    <2>1. \A r \in Int : Wrap(r) \in Word /\ Wrap(Wrap(r) - 0) = Wrap(r)
                         /\ Wrap(Wrap(r) + 0) = Wrap(r)
      <3> SUFFICES ASSUME NEW r \in Int
                   PROVE  /\ Wrap(r) \in Word
                          /\ Wrap(Wrap(r) - 0) = Wrap(r)
                          /\ Wrap(Wrap(r) + 0) = Wrap(r)
        OBVIOUS
      <3>1. Wrap(r) \in Word BY Remainder, WordsAssumption DEF Wrap, Word
      <3>2. Wrap(r) - 0 = Wrap(r) /\ Wrap(r) + 0 = Wrap(r)
        BY <3>1, WordsAssumption DEF Word
      <3> QED BY <3>1, <3>2, WordIsItself
    <2>2. x + y \in Int /\ x - y \in Int BY WordsAssumption DEF Word
    <2>3. Exact(x, y) = IF op = "add" THEN Wrap(x + y) ELSE Wrap(x - y)
      BY <1>1 DEF Exact, Wrap
    <2>4. Lane(x, y) = IF op = "add" THEN Wrap(Wrap(x + y) - 0) ELSE Wrap(Wrap(x - y) + 0)
      BY <1>1 DEF Lane
    <2> QED BY <2>1, <2>2, <2>3, <2>4
  <1>2. CASE elem.type = "ModInt" /\ Addable(elem.mod) /\ elem.mod # 0
    <2>1. x \in 0..(elem.mod - 1) /\ y \in 0..(elem.mod - 1)
      BY <1>2, WordsAssumption DEF FitsLane, Word, Addable
    <2>2. Exact(x, y) = IF op = "add" THEN (x + y) % elem.mod ELSE (x - y) % elem.mod
      BY <1>2 DEF Exact
    <2>3. Lane(x, y) =
            IF op = "add"
            THEN Wrap(Wrap(x + y) - (IF Wrap(x + y) >= elem.mod THEN elem.mod ELSE 0))
            ELSE Wrap(Wrap(x - y) + (IF x < y THEN elem.mod ELSE 0))
      BY <1>2 DEF Lane
    <2> QED BY <1>2, <2>1, <2>2, <2>3, ResidueExact
  <1>3. CASE elem.type = "ModTorus" /\ FitsWord(elem.mod)
    <2>1. x \in Int /\ y \in Int BY WordsAssumption DEF Word
    <2>2. Exact(x, y) = IF op = "add" THEN (x + y) % elem.mod ELSE (x - y) % elem.mod
      BY <1>3 DEF Exact
    <2>3. Lane(x, y) = IF op = "add" THEN Wrap(x + y) % elem.mod ELSE Wrap(x - y) % elem.mod
      BY <1>3 DEF Lane
    <2>4. elem.mod \in Nat BY <1>3 DEF FitsWord
    <2> QED BY <1>3, <2>1, <2>2, <2>3, <2>4, TorusExact
  <1> QED BY <1>1, <1>2, <1>3, ElementKinds DEF HasLane

(* Whatever it takes, a lane leaves words. *)
LEMMA LaneInWord ==
  ASSUME AllAddable, elem \in Element, op \in {"add", "sub"}, HasLane,
         NEW x \in Word, NEW y \in Word
  PROVE  Lane(x, y) \in Word
  <1>1. \A r \in Int : Wrap(r) \in Word
    BY Remainder, WordsAssumption DEF Wrap, Word
  <1>2. x \in Int /\ y \in Int /\ x + y \in Int /\ x - y \in Int
    BY WordsAssumption DEF Word
  <1>3. CASE elem.type = "ModInt" /\ Addable(elem.mod)
    <2>1. elem.mod \in Int BY <1>3, WordsAssumption DEF Addable, Word
    <2>2. PICK s \in Int : s = Wrap(x + y) BY <1>1, <1>2, WordsAssumption DEF Word
    <2>3. PICK d \in Int : d = Wrap(x - y) BY <1>1, <1>2, WordsAssumption DEF Word
    <2>4. s - (IF s >= elem.mod THEN elem.mod ELSE 0) \in Int BY <2>1
    <2>5. d + (IF x < y THEN elem.mod ELSE 0) \in Int BY <2>1
    <2>6. Lane(x, y) = IF op = "add"
                       THEN Wrap(s - (IF s >= elem.mod THEN elem.mod ELSE 0))
                       ELSE Wrap(d + (IF x < y THEN elem.mod ELSE 0))
      BY <1>3, <2>2, <2>3 DEF Lane
    <2> QED BY <1>1, <2>4, <2>5, <2>6
  <1>4. CASE elem.type = "ModTorus" /\ FitsWord(elem.mod)
    <2>1. elem.mod \in Nat BY <1>4 DEF FitsWord
    <2>2. Lane(x, y) = IF op = "add" THEN Wrap(x + y) % elem.mod ELSE Wrap(x - y) % elem.mod
      BY <1>4 DEF Lane
    <2>3. PICK q \in Nat : q = elem.mod BY <2>1
    <2>4. /\ Wrap(x + y) % q = (x + y) % q /\ (x + y) % q \in Word
          /\ Wrap(x - y) % q = (x - y) % q /\ (x - y) % q \in Word
      BY <1>2, <1>4, <2>3, TorusExact
    <2> QED BY <2>2, <2>3, <2>4
  <1> QED BY <1>3, <1>4, ElementKinds DEF HasLane

-----------------------------------------------------------------------------
(* The loop.                                                               *)

(* What one operation must do to the elements from at up to m for the       *)
(* picture to stay the same.                                               *)
LEMMA Advances ==
  ASSUME BulkTyped, ExactSoFar, NEW m \in 0..Size, done <= m, loop = "run",
         UNCHANGED <<elem, op, alias, hardware, src, left>>,
         done' = m, loop' = "run", AtLane',
         into' \in [Index -> Word],
         \A j \in Index : j \in done..(m - 1) =>
           ((InLane(j) => FitsLane(into[j]) /\ FitsLane(Right(j)))
              => into'[j] = Exact(into[j], Right(j))),
         \A j \in Index : j \notin done..(m - 1) => into'[j] = into[j]
  PROVE  BulkTyped' /\ ExactSoFar'
  <1>1. Size \in Nat /\ done \in 0..Size BY BulkAssumption DEF ExactSoFar, BulkAssumption
  <1>2. BulkTyped'
    BY <1>1 DEF BulkTyped, Index
  <1> DEFINE Kept(j) == (InLane(j) => FitsLane(left[j]) /\ FitsLane(OldRight(j)))
  <1>3. \A j \in Index :
          IF j < m THEN Kept(j) => into'[j] = Exact(left[j], OldRight(j)) ELSE into'[j] = left[j]
    <2> SUFFICES ASSUME NEW j \in Index
                 PROVE  IF j < m THEN Kept(j) => into'[j] = Exact(left[j], OldRight(j))
                        ELSE into'[j] = left[j]
      OBVIOUS
    <2>1. j \in Nat BY <1>1 DEF Index
    <2>2. CASE j < done
      <3>1. j \notin done..(m - 1) /\ j < m BY <1>1, <2>1, <2>2
      <3>2. Kept(j) => into[j] = Exact(left[j], OldRight(j)) BY <2>2 DEF ExactSoFar
      <3> HIDE DEF Kept
      <3> QED BY <3>1, <3>2
    <2>3. CASE done <= j /\ j < m
      <3>1. j \in done..(m - 1) /\ ~(j < done) BY <1>1, <2>1, <2>3
      <3>2. into[j] = left[j] BY <3>1 DEF ExactSoFar
      <3>3. Right(j) = OldRight(j) BY <3>2 DEF Right, OldRight
      <3>4. Kept(j) => into'[j] = Exact(left[j], OldRight(j)) BY <3>1, <3>2, <3>3
      <3> HIDE DEF Kept
      <3> QED BY <2>3, <3>4
    <2>4. CASE m <= j
      <3>1. j \notin done..(m - 1) /\ ~(j < done) /\ ~(j < m) BY <1>1, <2>1, <2>4
      <3>2. into'[j] = left[j] BY <3>1 DEF ExactSoFar
      <3> HIDE DEF Kept
      <3> QED BY <3>1, <3>2
    <2> QED BY <1>1, <2>1, <2>2, <2>3, <2>4
  <1>4. \A j \in Index :
          IF j < done' THEN Kept(j)' => into'[j] = Exact(left[j], OldRight(j))'
          ELSE into'[j] = left'[j]
    BY <1>3 DEF InLane, HasLane, FitsLane, Exact, OldRight
  <1> QED BY <1>1, <1>2, <1>4 DEF ExactSoFar, Index

(* What the loop reads is what the call found. *)
LEMMA ReadsWords ==
  ASSUME BulkTyped, ExactSoFar, NEW j \in Index
  PROVE  into[j] \in Word /\ Right(j) \in Word
  BY DEF BulkTyped, ExactSoFar, Right

(* Each step keeps the picture. *)
LEMMA BulkInductive ==
  ASSUME AllAddable
  PROVE  BulkTyped /\ ExactSoFar /\ [BulkNext]_bulkVars => BulkTyped' /\ ExactSoFar'
  <1> SUFFICES ASSUME BulkTyped, ExactSoFar, [BulkNext]_bulkVars
               PROVE  BulkTyped' /\ ExactSoFar'
    OBVIOUS
  <1> USE BulkAssumption DEF BulkAssumption
  <1>0. /\ elem \in Element /\ op \in {"add", "sub"}
        /\ done \in 0..Size /\ into \in [Index -> Word]
    BY DEF BulkTyped, ExactSoFar
  <1>1. CASE LaneStep
    <2>1. /\ loop = "run" /\ HasLane
          /\ done + width \in 0..Size /\ done <= done + width
      BY <1>0, <1>1 DEF LaneStep, LaneFits
    <2>2. PICK k \in Nat : done = k * width
      BY <1>0, <2>1 DEF BulkTyped, AtLane
    <2>3. done + width <= width * (Size \div width)
      BY <1>0, <2>1, <2>2, LaneInside
    <2>4. \A j \in Index : j \in done..(done + width - 1) =>
            /\ Lane(into[j], Right(j)) \in Word
            /\ (InLane(j) => FitsLane(into[j]) /\ FitsLane(Right(j)))
                 => Lane(into[j], Right(j)) = Exact(into[j], Right(j))
      <3> SUFFICES ASSUME NEW j \in Index, j \in done..(done + width - 1)
                   PROVE  /\ Lane(into[j], Right(j)) \in Word
                          /\ (InLane(j) => FitsLane(into[j]) /\ FitsLane(Right(j)))
                               => Lane(into[j], Right(j)) = Exact(into[j], Right(j))
        OBVIOUS
      <3>1. into[j] \in Word /\ Right(j) \in Word BY ReadsWords
      <3>2. j < width * (Size \div width)
        <4>1. PICK d \in Int : d = Size \div width BY Size \in Int, ModSplits
        <4>2. width * d \in Int BY <4>1
        <4>3. done + width <= width * d BY <2>3, <4>1, Zenon
        <4>4. j < width * d BY <1>0, <4>2, <4>3
        <4> QED BY <4>1, <4>4
      <3>3. InLane(j) BY <2>1, <3>2 DEF InLane
      <3>4. Lane(into[j], Right(j)) \in Word BY <1>0, <2>1, <3>1, LaneInWord
      <3>5. FitsLane(into[j]) /\ FitsLane(Right(j))
              => Lane(into[j], Right(j)) = Exact(into[j], Right(j))
        BY <1>0, <2>1, <3>1, LaneExact
      <3> QED BY <3>3, <3>4, <3>5
    <2>5. into' = [j \in Index |->
                    IF j \in done..(done + width - 1) THEN Lane(into[j], Right(j)) ELSE into[j]]
      BY <1>1 DEF LaneStep
    <2>6. into' \in [Index -> Word] BY <1>0, <2>4, <2>5
    <2>7. /\ UNCHANGED <<elem, op, alias, hardware, src, left>>
          /\ done' = done + width /\ loop' = "run"
      BY <1>1 DEF LaneStep
    <2>8. AtLane'
      <3>1. done + width = (k + 1) * width /\ k + 1 \in Nat BY <2>2
      <3> QED BY <2>7, <3>1 DEF AtLane
    <2> DEFINE m == done + width
    <2>9. /\ m \in 0..Size /\ done <= m /\ done' = m
          /\ \A j \in Index : j \in done..(m - 1) =>
               ((InLane(j) => FitsLane(into[j]) /\ FitsLane(Right(j)))
                  => into'[j] = Exact(into[j], Right(j)))
          /\ \A j \in Index : j \notin done..(m - 1) => into'[j] = into[j]
      <3>1. m \in 0..Size /\ done <= m BY <2>1
      <3>2. done' = m BY <2>7
      <3>3. done..(m - 1) = done..(done + width - 1) BY <1>0
      <3> HIDE DEF m
      <3>4. \A j \in Index : j \in done..(m - 1) =>
              ((InLane(j) => FitsLane(into[j]) /\ FitsLane(Right(j)))
                 => into'[j] = Exact(into[j], Right(j)))
        BY <2>4, <2>5, <3>3
      <3>5. \A j \in Index : j \notin done..(m - 1) => into'[j] = into[j] BY <2>5, <3>3
      <3> QED BY <3>1, <3>2, <3>4, <3>5
    <2> HIDE DEF m
    <2> QED BY <2>1, <2>6, <2>7, <2>8, <2>9, Advances
  <1>2. CASE ScalarStep
    <2>1. loop = "run" /\ done \in Index /\ done + 1 \in 0..Size /\ done <= done + 1
      BY <1>0, <1>2 DEF ScalarStep, Index
    <2>2. /\ Scalar(into[done], Right(done)) = Exact(into[done], Right(done))
          /\ Exact(into[done], Right(done)) \in Word
      <3>1. into[done] \in Word /\ Right(done) \in Word BY <2>1, ReadsWords
      <3> QED BY <1>0, <1>2, <3>1, ScalarExact DEF ScalarStep
    <2>3. into' = [into EXCEPT ![done] = Scalar(into[done], Right(done))] BY <1>2 DEF ScalarStep
    <2>4. into' \in [Index -> Word] BY <1>0, <2>1, <2>2, <2>3
    <2>5. \A j \in Index : j \in done..(done + 1 - 1) <=> j = done BY <1>0, <2>1 DEF Index
    <2>6. /\ \A j \in Index : j \in done..(done + 1 - 1) => into'[j] = Exact(into[j], Right(j))
          /\ \A j \in Index : j \notin done..(done + 1 - 1) => into'[j] = into[j]
      BY <1>0, <2>1, <2>2, <2>3, <2>5
    <2>7. /\ UNCHANGED <<elem, op, alias, hardware, src, left>>
          /\ done' = done + 1 /\ loop' = "run"
      BY <1>2 DEF ScalarStep
    <2>8. AtLane'
      <3>1. ~(HasLane /\ done + width <= Size) BY <1>2 DEF ScalarStep, NoLane, LaneFits
      <3>2. ~(HasLane' /\ done' + width <= Size)
        BY <1>0, <2>7, <3>1 DEF HasLane
      <3> QED BY <3>2 DEF AtLane
    <2> DEFINE m == done + 1
    <2>9. /\ m \in 0..Size /\ done <= m /\ done' = m
          /\ \A j \in Index : j \in done..(m - 1) => into'[j] = Exact(into[j], Right(j))
          /\ \A j \in Index : j \notin done..(m - 1) => into'[j] = into[j]
      <3>1. m \in 0..Size /\ done <= m BY <2>1
      <3>2. done' = m BY <2>7
      <3>3. done..(m - 1) = done..(done + 1 - 1) BY <1>0
      <3> HIDE DEF m
      <3> QED BY <2>6, <3>1, <3>2, <3>3
    <2> HIDE DEF m
    <2> QED BY <2>1, <2>4, <2>7, <2>8, <2>9, Advances
  <1>3. CASE UNCHANGED <<elem, op, alias, hardware, into, src, left, done>>
             /\ loop' \in {"run", "done", "threw"}
             /\ (loop' = "done" => done = Size)
    <2>1. BulkTyped' BY <1>0, <1>3 DEF BulkTyped, AtLane, HasLane, Index
    <2>2. ExactSoFar'
      BY <1>0, <1>3 DEF ExactSoFar, InLane, HasLane, FitsLane, Exact, OldRight, Index
    <2> QED BY <2>1, <2>2
  <1>4. CASE Throw
    BY <1>3, <1>4 DEF Throw
  <1>5. CASE Return
    <2>1. done = Size BY <1>0, <1>5 DEF Return
    <2> QED BY <1>3, <1>5, <2>1 DEF Return
  <1>6. CASE UNCHANGED bulkVars
    <2>1. loop' \in {"run", "done", "threw"} /\ (loop' = "done" => done = Size)
      BY <1>6 DEF bulkVars, BulkTyped, ExactSoFar
    <2> QED BY <1>3, <1>6, <2>1 DEF bulkVars
  <1> QED BY <1>1, <1>2, <1>4, <1>5, <1>6 DEF BulkNext, Returned

(* += and -= of a Poly or a Vector: whatever the element type, the lanes,  *)
(* the aliasing and the contents, what has been done is exact and fits the *)
(* word, what has not is untouched, and only a throw leaves any undone, if *)
(* every modulus leaves room for one addition, which is more than the      *)
(* assertion in ModInt's operator+= sees to.                               *)
THEOREM BulkIsExact ==
  ASSUME AllAddable
  PROVE  BulkSpec => []ExactSoFar
  <1>1. BulkInit => BulkTyped /\ ExactSoFar
    <2> SUFFICES ASSUME BulkInit PROVE BulkTyped /\ ExactSoFar OBVIOUS
    <2>1. into \in [Index -> Word] /\ src \in [Index -> Word]
      BY BulkAssumption DEF BulkInit, BulkAssumption
    <2>2. AtLane
      <3>1. done = 0 * width /\ 0 \in Nat BY BulkAssumption DEF BulkInit, BulkAssumption
      <3> QED BY <3>1 DEF AtLane
    <2>3. BulkTyped BY <2>1, <2>2 DEF BulkInit, BulkTyped
    <2>4. done = 0 /\ \A j \in Index : ~(j < done) BY DEF BulkInit, Index
    <2> QED BY <2>1, <2>3, <2>4, BulkAssumption DEF BulkInit, ExactSoFar, BulkAssumption
  <1>2. BulkTyped /\ ExactSoFar /\ [BulkNext]_bulkVars =>
           BulkTyped' /\ ExactSoFar' BY BulkInductive
  <1> QED BY <1>1, <1>2, PTL DEF BulkSpec
================================================================================
