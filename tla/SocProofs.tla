----------------------------- MODULE SocProofs -----------------------------
(***************************************************************************)
(* Lemmas about words and the ALU, for every byte radix that is a multiple *)
(* of 16 and every word width: each computation of the execute stage       *)
(* yields a word, and the mstatus bits are independent.  Lemmas about the  *)
(* two bus accesses, for every slot table: what they return and leave, and *)
(* that an access that fails changes no device.                            *)
(***************************************************************************)
EXTENDS Soc, WellFoundedInduction, TLAPS

(* The word size is a multiple of 2^16. *)
LEMMA WordSizeFacts ==
    /\ WordSize \in Nat /\ WordSize >= 65536 /\ WordSize % 65536 = 0
    /\ \E Q \in Nat : WordSize = 65536 * Q
    /\ Byte \in Nat /\ Byte >= 16
    /\ Byte * Byte \in Nat /\ Byte < Byte * Byte
    /\ Byte * Byte * Byte \in Nat /\ Byte * Byte < Byte * Byte * Byte
    /\ Byte * Byte * Byte < WordSize
<1>1. PICK k \in Nat : Byte = 16 * k /\ k >= 1
  <2>1. Byte \div 16 \in Nat /\ Byte = 16 * (Byte \div 16) /\ Byte \div 16 >= 1
    BY ByteAssumption
  <2>2. QED
    BY <2>1
<1>2. PICK k2 \in Nat : Byte * Byte = 256 * k2 /\ k2 >= 1
  <2>1. Byte * Byte = 256 * (k * k) /\ k * k >= 1 /\ k * k \in Nat
    BY <1>1
  <2>2. QED
    BY <2>1
<1>3. PICK k4 \in Nat : WordSize = 65536 * k4 /\ k4 >= 1
  <2>1. WordSize = (Byte * Byte) * (Byte * Byte)
    BY ByteAssumption DEF WordSize
  <2>2. WordSize = 65536 * (k2 * k2) /\ k2 * k2 >= 1 /\ k2 * k2 \in Nat
    BY <1>2, <2>1
  <2>3. QED
    BY <2>2
<1>4. \A x \in Nat : x >= 1 => x < Byte * x /\ x < x * Byte /\ x * Byte \in Nat
  BY ByteAssumption
<1>5. Byte < Byte * Byte /\ Byte * Byte \in Nat
  BY <1>4, ByteAssumption
<1>6. Byte * Byte < Byte * Byte * Byte /\ Byte * Byte * Byte \in Nat
  BY <1>4, <1>5, ByteAssumption
<1>7. Byte * Byte * Byte < WordSize
  BY <1>4, <1>5, <1>6, ByteAssumption DEF WordSize
<1>8. QED
  BY <1>3, <1>5, <1>6, <1>7, ByteAssumption

LEMMA ModIsWord == ASSUME NEW x \in Int PROVE x % WordSize \in Word
  BY WordSizeFacts DEF Word

LEMMA WordIsNat == ASSUME NEW w \in Word PROVE w \in Nat /\ w < WordSize
  BY WordSizeFacts DEF Word

LEMMA AddIsWord == ASSUME NEW a \in Word, NEW b \in Word
                   PROVE  Add(a, b) \in Word /\ Sub(a, b) \in Word
  BY ModIsWord, WordIsNat DEF Add, Sub

(* Addition of words keeps them aligned. *)
LEMMA AddAligned ==
    ASSUME NEW a \in Word, NEW b \in Word, a % 4 = 0, b % 4 = 0
    PROVE  Add(a, b) % 4 = 0
<1>1. PICK Q \in Nat : WordSize = 65536 * Q
  BY WordSizeFacts
<1>2. a \in Nat /\ b \in Nat /\ a < WordSize /\ b < WordSize
  BY WordIsNat
<1>3. Add(a, b) = a + b \/ Add(a, b) = a + b - WordSize
  BY <1>2, WordSizeFacts DEF Add
<1>4. QED
  BY <1>1, <1>2, <1>3

LEMMA SignedIsInt ==
    ASSUME NEW w \in Word
    PROVE  Signed(w) \in Int /\ (w # 0 => Signed(w) # 0)
  BY WordIsNat, WordSizeFacts DEF Signed

LEMMA SmallIsWord == ASSUME NEW x \in Nat, x <= 255 PROVE x \in Word
<1>1. WordSize \in Nat /\ WordSize >= 65536
  BY WordSizeFacts
<1>2. x <= WordSize - 1
  BY <1>1
<1>3. x \in 0 .. WordSize - 1
  BY <1>1, <1>2
<1>4. QED
  BY <1>3 DEF Word

----------------------------------------------------------------------------
(* The bits of mstatus the trap unit uses. *)
StatusBit == {8, 128, 2048, 4096}

LEMMA FlagIsBit == ASSUME NEW w \in Word, NEW m \in StatusBit
                   PROVE  Flag(w, m) \in {0, 1}
  BY WordIsNat DEF Flag, StatusBit

LEMMA PutFlagIsWord ==
    ASSUME NEW w \in Word, NEW m \in StatusBit, NEW v \in {0, 1}
    PROVE  PutFlag(w, m, v) \in Word
<1>1. PICK Q \in Nat : WordSize = 65536 * Q
  BY WordSizeFacts
<1>2. w \in Nat /\ w < 65536 * Q
  BY <1>1, WordIsNat
<1>3. CASE m = 8
  BY <1>1, <1>2, <1>3 DEF PutFlag, Flag, Word
<1>4. CASE m = 128
  BY <1>1, <1>2, <1>4 DEF PutFlag, Flag, Word
<1>5. CASE m = 2048
  BY <1>1, <1>2, <1>5 DEF PutFlag, Flag, Word
<1>6. CASE m = 4096
  BY <1>1, <1>2, <1>6 DEF PutFlag, Flag, Word
<1>7. QED
  BY <1>3, <1>4, <1>5, <1>6 DEF StatusBit

(* A bit reads as it was written and no write disturbs another bit. *)
LEMMA FlagOfPutFlag ==
    ASSUME NEW w \in Word, NEW m \in StatusBit, NEW v \in {0, 1}
    PROVE  /\ Flag(PutFlag(w, m, v), m) = v
           /\ \A n \in StatusBit \ {m} : Flag(PutFlag(w, m, v), n) = Flag(w, n)
<1>1. w \in Nat
  BY WordIsNat
<1>2. CASE m = 8
  BY <1>1, <1>2 DEF PutFlag, Flag, StatusBit
<1>3. CASE m = 128
  BY <1>1, <1>3 DEF PutFlag, Flag, StatusBit
<1>4. CASE m = 2048
  BY <1>1, <1>4 DEF PutFlag, Flag, StatusBit
<1>5. CASE m = 4096
  BY <1>1, <1>5 DEF PutFlag, Flag, StatusBit
<1>6. QED
  BY <1>2, <1>3, <1>4, <1>5 DEF StatusBit

----------------------------------------------------------------------------
LEMMA SpanFacts ==
    ASSUME NEW n \in AccessSize
    PROVE  Span(n) \in Nat /\ Byte <= Span(n) /\ Span(n) <= WordSize
  BY WordSizeFacts DEF AccessSize, Span

LEMMA ByteOfIsByte ==
    ASSUME NEW w \in Word, NEW i \in 0 .. 3
    PROVE  ByteOf(w, i) \in ByteVal
<1>1. Span(i) \in Nat /\ Span(i) > 0
  BY WordSizeFacts DEF Span
<1>2. w \div Span(i) \in Int
  BY <1>1, WordIsNat
<1>3. \A x \in Int : x % Byte \in ByteVal
  BY WordSizeFacts DEF ByteVal
<1>4. QED
  BY <1>2, <1>3 DEF ByteOf

(* One Horner step: a byte below a number of at most N values. *)
LEMMA Horner ==
    ASSUME NEW N \in Nat, NEW c \in ByteVal, NEW x \in 0 .. N - 1
    PROVE  c + Byte * x \in 0 .. N * Byte - 1
<1>1. Byte \in Nat /\ c \in Nat /\ c <= Byte - 1 /\ x \in Nat /\ x <= N - 1
  BY WordSizeFacts DEF ByteVal
<1>2. Byte * x \in Nat /\ N * Byte \in Nat
  BY <1>1
<1>3. Byte * x <= N * Byte - Byte
  BY <1>1
<1>4. QED
  BY <1>1, <1>2, <1>3

(* The word of n bytes is one of Span(n) values. *)
LEMMA FromBytesSpan ==
    ASSUME NEW b \in [0 .. 3 -> ByteVal], NEW n \in AccessSize,
           \A k \in 0 .. 3 : k >= n => b[k] = 0
    PROVE  FromBytes(b) \in 0 .. Span(n) - 1
<1> DEFINE x3 == b[3]
           x2 == b[2] + Byte * x3
           x1 == b[1] + Byte * x2
<1>1. b[0] \in ByteVal /\ b[1] \in ByteVal /\ b[2] \in ByteVal /\ b[3] \in ByteVal
  OBVIOUS
<1>2. FromBytes(b) = b[0] + Byte * x1
  BY DEF FromBytes
<1>3. Byte * 0 = 0
  BY WordSizeFacts
<1>4. Byte \in Nat /\ Byte * Byte \in Nat /\ Byte * Byte * Byte \in Nat
  BY WordSizeFacts
<1>5. CASE n = 1
  <2>1. b[1] = 0 /\ b[2] = 0 /\ b[3] = 0
    BY <1>5
  <2>2. x1 = 0
    BY <1>3, <2>1
  <2>3. FromBytes(b) = b[0]
    BY <1>1, <1>2, <1>3, <2>2, WordSizeFacts DEF ByteVal
  <2>4. QED
    BY <1>1, <1>5, <2>3 DEF Span, ByteVal
<1>6. CASE n = 2
  <2>1. b[2] = 0 /\ b[3] = 0
    BY <1>6
  <2>2. x1 = b[1] + 0
    BY <1>3, <2>1
  <2>3. x1 \in 0 .. Byte - 1
    BY <1>1, <2>2, WordSizeFacts DEF ByteVal
  <2>4. FromBytes(b) \in 0 .. Byte * Byte - 1
    BY <1>1, <1>2, <1>4, <2>3, Horner, Zenon
  <2>5. QED
    BY <1>6, <2>4 DEF Span
<1>7. CASE n = 4
  <2>1. x3 \in 0 .. Byte - 1
    BY <1>1 DEF ByteVal
  <2>2. x2 \in 0 .. Byte * Byte - 1
    BY <1>1, <1>4, <2>1, Horner, Zenon
  <2>3. x1 \in 0 .. Byte * Byte * Byte - 1
    BY <1>1, <1>4, <2>2, Horner, Zenon
  <2>4. FromBytes(b) \in 0 .. Byte * Byte * Byte * Byte - 1
    BY <1>1, <1>2, <1>4, <2>3, Horner, Zenon
  <2>5. QED
    BY <1>7, <2>4 DEF Span, WordSize
<1>8. QED
  BY <1>5, <1>6, <1>7 DEF AccessSize

LEMMA FromBytesIsWord ==
    ASSUME NEW b \in [0 .. 3 -> ByteVal]
    PROVE  FromBytes(b) \in Word
<1>1. FromBytes(b) \in 0 .. Span(4) - 1
  <2>1. 4 \in AccessSize /\ \A k \in 0 .. 3 : k >= 4 => b[k] = 0
    BY DEF AccessSize
  <2>2. QED
    BY <2>1, FromBytesSpan
<1>2. QED
  BY <1>1 DEF Span, Word

LEMMA SextIsWord ==
    ASSUME NEW n \in AccessSize, NEW v \in 0 .. Span(n) - 1
    PROVE  Sext(v, n) \in Word /\ v \in Word
<1>1. Span(n) \in Nat /\ Span(n) <= WordSize /\ v \in Nat /\ v < Span(n)
  BY SpanFacts
<1>2. QED
  BY <1>1, WordSizeFacts DEF Sext, Word

(* The quotient and the remainder of a number with a known remainder. *)
LEMMA SplitNumber ==
    ASSUME NEW m \in Nat, NEW q \in Nat, NEW r \in Nat, r < m
    PROVE  (r + m * q) \div m = q /\ (r + m * q) % m = r
<1> DEFINE x == r + m * q
           d == x \div m
<1>1. x \in Nat /\ m > 0 /\ m * q \in Nat
  OBVIOUS
<1>2. d \in Nat /\ m * d <= x /\ x < m * d + m /\ x % m = x - m * d
  BY <1>1
<1> HIDE DEF d
<1>3. ~(q < d)
  <2> SUFFICES ASSUME q < d PROVE FALSE
    OBVIOUS
  <2>1. q + 1 <= d
    BY <1>2
  <2>2. m * (q + 1) <= m * d
    BY <1>1, <1>2, <2>1
  <2>3. m * (q + 1) = m * q + m
    OBVIOUS
  <2>4. QED
    BY <1>1, <1>2, <2>2, <2>3
<1>4. ~(d < q)
  <2> SUFFICES ASSUME d < q PROVE FALSE
    OBVIOUS
  <2>1. d + 1 <= q
    BY <1>2
  <2>2. m * (d + 1) <= m * q
    BY <1>1, <1>2, <2>1
  <2>3. m * (d + 1) = m * d + m
    BY <1>2
  <2>4. QED
    BY <1>1, <1>2, <2>2, <2>3
<1>5. d = q
  BY <1>2, <1>3, <1>4
<1>6. QED
  BY <1>1, <1>2, <1>5 DEF d

(* The bytes of a word are those it was made of. *)
LEMMA ByteOfFromBytes ==
    ASSUME NEW b \in [0 .. 3 -> ByteVal], NEW k \in 0 .. 3
    PROVE  ByteOf(FromBytes(b), k) = b[k]
<1> DEFINE x2 == b[2] + Byte * b[3]
           x1 == b[1] + Byte * x2
           x0 == b[0] + Byte * x1
<1>1. /\ b[0] \in Nat /\ b[0] < Byte /\ b[1] \in Nat /\ b[1] < Byte
      /\ b[2] \in Nat /\ b[2] < Byte /\ b[3] \in Nat /\ b[3] < Byte
      /\ Byte \in Nat /\ Byte > 0
  BY WordSizeFacts DEF ByteVal
<1>2. x2 \in Nat /\ x1 \in Nat /\ x0 \in Nat
  BY <1>1
<1>3. FromBytes(b) = x0
  BY DEF FromBytes
<1>4. x0 \div Byte = x1 /\ x0 % Byte = b[0]
  BY <1>1, <1>2, SplitNumber
<1>5. x1 \div Byte = x2 /\ x1 % Byte = b[1]
  BY <1>1, <1>2, SplitNumber
<1>6. x2 \div Byte = b[3] /\ x2 % Byte = b[2]
  BY <1>1, <1>2, SplitNumber
<1>7. b[3] % Byte = b[3]
  BY <1>1
<1>8. x0 \div (Byte * Byte) = x2
  <2>1. b[0] + Byte * b[1] \in Nat /\ Byte * Byte \in Nat /\ b[0] + Byte * b[1] < Byte * Byte
    <3>1. Byte * b[1] <= Byte * (Byte - 1)
      BY <1>1
    <3>2. QED
      BY <1>1, <3>1
  <2>2. x0 = (b[0] + Byte * b[1]) + (Byte * Byte) * x2
    BY <1>1, <1>2
  <2> HIDE DEF x0, x2
  <2>3. QED
    BY <1>2, <2>1, <2>2, SplitNumber
<1>9. x0 \div (Byte * Byte * Byte) = b[3]
  <2> DEFINE low == b[0] + Byte * (b[1] + Byte * b[2])
             m == Byte * Byte * Byte
  <2>1. low \in Nat /\ m \in Nat /\ low < m
    <3>1. b[1] + Byte * b[2] <= Byte * Byte - 1 /\ b[1] + Byte * b[2] \in Nat
      <4>1. Byte * b[2] <= Byte * (Byte - 1)
        BY <1>1
      <4>2. QED
        BY <1>1, <4>1
    <3>2. Byte * (b[1] + Byte * b[2]) <= Byte * (Byte * Byte - 1)
      BY <1>1, <3>1
    <3>3. QED
      BY <1>1, <3>1, <3>2
  <2>2. x0 = low + m * b[3]
    BY <1>1, <1>2
  <2> HIDE DEF x0, low, m
  <2>3. x0 \div m = b[3]
    BY <1>1, <2>1, <2>2, SplitNumber
  <2>4. QED
    BY <2>3 DEF m
<1>10. x0 \div 1 = x0
  BY <1>2
<1> HIDE DEF x0, x1, x2
<1>11. QED
  BY <1>3, <1>4, <1>5, <1>6, <1>7, <1>8, <1>9, <1>10 DEF ByteOf, Span

(* Sign extension fills the upper bytes with the sign. *)
LEMMA SextIsBytes ==
    ASSUME NEW b \in [0 .. 3 -> ByteVal], NEW n \in {1, 2},
           \A k \in 0 .. 3 : k >= n => b[k] = 0, NEW k \in 0 .. 3
    PROVE  ByteOf(Sext(FromBytes(b), n), k) =
             IF k < n THEN b[k] ELSE IF b[n - 1] >= Byte \div 2 THEN Byte - 1 ELSE 0
<1> DEFINE e == IF b[n - 1] >= Byte \div 2 THEN Byte - 1 ELSE 0
           c == [j \in 0 .. 3 |-> IF j < n THEN b[j] ELSE e]
<1>1. /\ b[0] \in Nat /\ b[0] < Byte /\ b[1] \in Nat /\ b[1] < Byte
      /\ Byte \in Nat /\ Byte > 0 /\ n - 1 \in 0 .. 3
  BY WordSizeFacts DEF ByteVal
<1>2. PICK h \in Nat : Byte = 2 * h /\ h > 0
  <2>1. Byte = 2 * (Byte \div 2) /\ Byte \div 2 \in Nat /\ Byte \div 2 > 0
    BY ByteAssumption
  <2>2. QED
    BY <2>1
<1>3. Byte \div 2 = h
  BY <1>1, <1>2
<1>4. e \in ByteVal
  BY <1>1 DEF ByteVal
<1>5. c \in [0 .. 3 -> ByteVal]
  BY <1>4
<1>6. FromBytes(c) = Sext(FromBytes(b), n)
  <2>1. CASE n = 1
    <3>1. /\ c[0] = b[0] /\ c[1] = e /\ c[2] = e /\ c[3] = e
          /\ b[1] = 0 /\ b[2] = 0 /\ b[3] = 0
      BY <2>1
    <3>2. FromBytes(b) = b[0]
      BY <1>1, <3>1 DEF FromBytes
    <3>3. Span(n) = Byte /\ Span(n) \div 2 = h
      BY <1>3, <2>1 DEF Span
    <3>4. b[n - 1] = b[0]
      BY <2>1
    <3>5. CASE b[0] >= h
      <4>1. e = Byte - 1
        BY <1>3, <3>4, <3>5
      <4>2. FromBytes(c) = b[0] + Byte * ((Byte - 1) + Byte * ((Byte - 1) + Byte * (Byte - 1)))
        BY <3>1, <4>1 DEF FromBytes
      <4>3. Sext(FromBytes(b), n) = b[0] + (WordSize - Byte)
        BY <3>2, <3>3, <3>5 DEF Sext
      <4>4. QED
        BY <1>1, <4>2, <4>3 DEF WordSize
    <3>6. CASE ~(b[0] >= h)
      <4>1. e = 0
        BY <1>3, <3>4, <3>6
      <4>2. FromBytes(c) = b[0]
        BY <1>1, <3>1, <4>1 DEF FromBytes
      <4>3. QED
        BY <3>2, <3>3, <3>6, <4>2 DEF Sext
    <3>7. QED
      BY <3>5, <3>6
  <2>2. CASE n = 2
    <3>1. /\ c[0] = b[0] /\ c[1] = b[1] /\ c[2] = e /\ c[3] = e
          /\ b[2] = 0 /\ b[3] = 0
      BY <2>2
    <3>2. FromBytes(b) = b[0] + Byte * b[1]
      BY <1>1, <3>1 DEF FromBytes
    <3>3. Span(n) = Byte * Byte /\ Span(n) \div 2 = Byte * h
      <4>1. Byte * Byte = 2 * (Byte * h) /\ Byte * h \in Nat
        BY <1>2
      <4>2. QED
        BY <2>2, <4>1 DEF Span
    <3>4. b[n - 1] = b[1]
      BY <2>2
    <3>5. CASE b[1] >= h
      <4>1. e = Byte - 1
        BY <1>3, <3>4, <3>5
      <4>2. FromBytes(c) = b[0] + Byte * (b[1] + Byte * ((Byte - 1) + Byte * (Byte - 1)))
        BY <3>1, <4>1 DEF FromBytes
      <4>3. FromBytes(b) >= Byte * h
        <5>1. Byte * b[1] >= Byte * h
          BY <1>1, <3>5
        <5>2. QED
          BY <1>1, <3>2, <5>1
      <4>4. Sext(FromBytes(b), n) = b[0] + Byte * b[1] + (WordSize - Byte * Byte)
        BY <3>2, <3>3, <4>3 DEF Sext
      <4>5. QED
        BY <1>1, <4>2, <4>4 DEF WordSize
    <3>6. CASE ~(b[1] >= h)
      <4>1. e = 0
        BY <1>3, <3>4, <3>6
      <4>2. FromBytes(c) = b[0] + Byte * b[1]
        BY <1>1, <3>1, <4>1 DEF FromBytes
      <4>3. ~(FromBytes(b) >= Byte * h)
        <5>1. b[1] + 1 <= h
          BY <1>1, <3>6
        <5>2. Byte * (b[1] + 1) <= Byte * h
          BY <1>1, <5>1
        <5>3. Byte * (b[1] + 1) = Byte * b[1] + Byte
          BY <1>1
        <5>4. QED
          BY <1>1, <3>2, <5>2, <5>3
      <4>4. QED
        BY <3>2, <3>3, <4>2, <4>3 DEF Sext
    <3>7. QED
      BY <3>5, <3>6
  <2>3. QED
    BY <2>1, <2>2
<1>7. ByteOf(FromBytes(c), k) = c[k]
  BY <1>5, ByteOfFromBytes
<1> HIDE DEF e
<1>8. c[k] = IF k < n THEN b[k] ELSE e
  OBVIOUS
<1>9. QED
  BY <1>6, <1>7, <1>8 DEF e

----------------------------------------------------------------------------
LEMMA BytewiseIsWord ==
    ASSUME NEW t \in [ByteVal \X ByteVal -> ByteVal], NEW a \in Word, NEW b \in Word
    PROVE  Bytewise(t, a, b) \in Word
<1>1. \A i \in 0 .. 3 : t[<<ByteOf(a, i), ByteOf(b, i)>>] \in ByteVal
  BY ByteOfIsByte
<1>2. [i \in 0 .. 3 |-> t[<<ByteOf(a, i), ByteOf(b, i)>>]] \in [0 .. 3 -> ByteVal]
  BY <1>1
<1>3. QED
  BY <1>2, FromBytesIsWord DEF Bytewise

LEMMA BitopsAreWords ==
    ASSUME NEW a \in Word, NEW b \in Word
    PROVE  /\ BitAnd(a, b) \in Word /\ BitOr(a, b) \in Word /\ BitXor(a, b) \in Word
           /\ BitClear(a, b) \in Word
<1>1. WordSize - 1 - b \in Word
  BY WordSizeFacts, WordIsNat DEF Word
<1>2. QED
  BY <1>1, BytewiseIsWord, ByteTables DEF BitAnd, BitOr, BitXor, BitClear

(* Induction over the numbers, as a fact about a set of them: the least number *)
(* outside the set would have its predecessor in it.                          *)
LEMMA LeastNatural ==
    ASSUME NEW T, T \subseteq Nat, T # {}
    PROVE  \E m \in T : \A k \in T : m <= k
<1> DEFINE R == OpToRel(<, Nat)
<1>1. \A x, y \in Nat : <<x, y>> \in R <=> x < y  BY DEF OpToRel
<1>2. \E m \in T : \A k \in T : ~(<<k, m>> \in R)
  BY NatLessThanWellFounded, WFMin, Zenon
<1> HIDE DEF R
<1>3. PICK m \in T : \A k \in T : ~(<<k, m>> \in R)  BY <1>2
<1>4. \A k \in T : ~(k < m) BY <1>1, <1>3
<1>5. QED BY <1>4

LEMMA SetInduction ==
    ASSUME NEW S, 0 \in S, \A n \in Nat : n \in S => n + 1 \in S
    PROVE  Nat \subseteq S
<1> SUFFICES ASSUME NEW n \in Nat, n \notin S PROVE FALSE OBVIOUS
<1>1. PICK m \in Nat \ S : \A k \in Nat \ S : m <= k
  BY LeastNatural
<1>2. m - 1 \in Nat /\ m - 1 \in S BY <1>1
<1>3. QED BY <1>1, <1>2

(* The powers of two up to n. *)
Powers(g, n) ==
    /\ g \in [0 .. n -> Nat \ {0}]
    /\ g[0] = 1
    /\ \A k \in 1 .. n : g[k] = 2 * g[k - 1]

(* The recursive equation of Pow2 has a solution: the table up to n extends to *)
(* n + 1, two tables agree where both are defined, and the function that takes *)
(* each value from its own table satisfies the equation.                       *)
LEMMA PowersExist == \A n \in Nat : \E g : Powers(g, n)
<1> DEFINE S == {n \in Nat : \E g : Powers(g, n)}
<1>1. 0 \in S
  <2>1. Powers([k \in 0 .. 0 |-> 1], 0)  BY DEF Powers
  <2>2. QED  BY <2>1
<1>2. ASSUME NEW n \in Nat, n \in S PROVE n + 1 \in S
  <2>1. PICK g : Powers(g, n)  BY <1>2
  <2> DEFINE h == [k \in 0 .. n + 1 |-> IF k = n + 1 THEN 2 * g[n] ELSE g[k]]
  <2>2. \A k \in 0 .. n : g[k] \in Nat \ {0}  BY <2>1 DEF Powers
  <2>3. g[n] \in Nat \ {0}  BY <2>2
  <2>4. h \in [0 .. n + 1 -> Nat \ {0}]
    <3>1. \A k \in 0 .. n + 1 : k # n + 1 => k \in 0 .. n  OBVIOUS
    <3>2. 2 * g[n] \in Nat \ {0}  BY <2>3
    <3>3. QED  BY <2>2, <3>1, <3>2
  <2>5. h[0] = 1  BY <2>1 DEF Powers
  <2>6. ASSUME NEW k \in 1 .. n + 1 PROVE h[k] = 2 * h[k - 1]
    <3>1. k - 1 \in 0 .. n + 1 /\ k - 1 # n + 1 /\ k \in 0 .. n + 1  OBVIOUS
    <3>2. h[k - 1] = g[k - 1]  BY <3>1
    <3>3. CASE k = n + 1  BY <3>1, <3>2, <3>3
    <3>4. CASE k # n + 1
      <4>1. k \in 1 .. n  BY <3>4
      <4>2. g[k] = 2 * g[k - 1]  BY <2>1, <4>1 DEF Powers
      <4>3. QED  BY <3>1, <3>2, <3>4, <4>2
    <3>5. QED  BY <3>3, <3>4
  <2> HIDE DEF h
  <2>7. Powers(h, n + 1)  BY <2>4, <2>5, <2>6 DEF Powers
  <2>8. QED  BY <2>7
<1> HIDE DEF S
<1>3. Nat \subseteq S  BY <1>1, <1>2, SetInduction
<1>4. QED  BY <1>3 DEF S

LEMMA PowersAgree ==
    ASSUME NEW n \in Nat, NEW m \in Nat, NEW g, NEW h,
           Powers(g, n), Powers(h, m)
    PROVE  \A k \in Nat : k <= n /\ k <= m => g[k] = h[k]
<1> DEFINE S == {k \in Nat : k <= n /\ k <= m => g[k] = h[k]}
<1>1. 0 \in S  BY DEF Powers
<1>2. ASSUME NEW k \in Nat, k \in S PROVE k + 1 \in S
  <2>1. SUFFICES ASSUME k + 1 <= n, k + 1 <= m PROVE g[k + 1] = h[k + 1]
    OBVIOUS
  <2>2. g[k] = h[k]  BY <1>2, <2>1
  <2>3. k + 1 \in 1 .. n /\ k + 1 \in 1 .. m /\ (k + 1) - 1 = k  BY <2>1
  <2>4. g[k + 1] = 2 * g[(k + 1) - 1] /\ h[k + 1] = 2 * h[(k + 1) - 1]  BY <2>3 DEF Powers
  <2>5. QED  BY <2>2, <2>3, <2>4
<1> HIDE DEF S
<1>3. Nat \subseteq S  BY <1>1, <1>2, SetInduction
<1>4. QED  BY <1>3 DEF S

LEMMA Pow2Def ==
    Pow2 = [k \in Nat |-> IF k = 0 THEN 1 ELSE 2 * Pow2[k - 1]]
<1> DEFINE G(n) == CHOOSE g : Powers(g, n)
           F == [k \in Nat |-> G(k)[k]]
<1>1. \A n \in Nat : Powers(G(n), n)  BY PowersExist
<1> HIDE DEF G
<1>2. \A k \in Nat : F[k] = IF k = 0 THEN 1 ELSE 2 * F[k - 1]
  <2> SUFFICES ASSUME NEW k \in Nat PROVE F[k] = IF k = 0 THEN 1 ELSE 2 * F[k - 1]
    OBVIOUS
  <2>1. CASE k = 0  BY <1>1, <2>1 DEF Powers
  <2>2. CASE k # 0
    <3>1. k - 1 \in Nat /\ k \in 1 .. k  BY <2>2
    <3>2. G(k)[k] = 2 * G(k)[k - 1]  BY <1>1, <3>1 DEF Powers
    <3>3. G(k)[k - 1] = G(k - 1)[k - 1]  BY <1>1, <3>1, PowersAgree
    <3>4. QED  BY <2>2, <3>1, <3>2, <3>3
  <2>3. QED  BY <2>1, <2>2
<1>3. F = [k \in Nat |-> IF k = 0 THEN 1 ELSE 2 * F[k - 1]]
  <2>1. F = [k \in Nat |-> F[k]]  OBVIOUS
  <2> HIDE DEF F
  <2>2. QED  BY <1>2, <2>1
<1> HIDE DEF F
<1>4. \E f : f = [k \in Nat |-> IF k = 0 THEN 1 ELSE 2 * f[k - 1]]  BY <1>3
<1>5. QED  BY <1>4, Zenon DEF Pow2

LEMMA Pow2Positive == \A k \in Nat : Pow2[k] \in Nat \ {0}
<1> DEFINE S == {k \in Nat : Pow2[k] \in Nat \ {0}}
<1>1. 0 \in S  BY Pow2Def
<1>2. ASSUME NEW k \in Nat, k \in S PROVE k + 1 \in S
  <2>1. Pow2[k + 1] = 2 * Pow2[k]
    <3>1. k + 1 \in Nat /\ k + 1 # 0 /\ (k + 1) - 1 = k  OBVIOUS
    <3>2. Pow2[k + 1] = IF k + 1 = 0 THEN 1 ELSE 2 * Pow2[(k + 1) - 1]  BY <3>1, Pow2Def
    <3>3. QED  BY <3>1, <3>2
  <2>2. QED  BY <1>2, <2>1
<1> HIDE DEF S
<1>3. Nat \subseteq S  BY <1>1, <1>2, SetInduction
<1>4. QED  BY <1>3 DEF S

LEMMA ShiftIsPositive == ASSUME NEW b \in Word PROVE Shift(b) \in Nat \ {0}
<1>1. b % XLEN \in Nat
  BY WordIsNat, XlenAssumption
<1>2. QED
  BY <1>1, Pow2Positive DEF Shift

LEMMA QuotIsInt ==
    ASSUME NEW x \in Int, NEW y \in Int, y # 0
    PROVE  Quot(x, y) \in Int /\ Rem(x, y) \in Int
<1>1. Abs(x) \in Nat /\ Abs(y) \in Nat /\ Abs(y) > 0
  BY DEF Abs
<1>2. Abs(x) \div Abs(y) \in Int
  BY <1>1
<1>3. Quot(x, y) \in Int
  BY <1>2 DEF Quot
<1>4. QED
  BY <1>3 DEF Rem

LEMMA DivIsWord ==
    ASSUME NEW a \in Word, NEW b \in Word
    PROVE  Div(a, b) \in Word /\ Remw(a, b) \in Word
<1>1. WordSize - 1 \in Word /\ WordSize \div 2 \in Word /\ 0 \in Word
  BY WordSizeFacts DEF Word
<1>2. CASE b = 0
  BY <1>1, <1>2 DEF Div, Remw
<1>3. CASE b # 0
  <2>1. Quot(Signed(a), Signed(b)) \in Int /\ Rem(Signed(a), Signed(b)) \in Int
    BY <1>3, SignedIsInt, QuotIsInt
  <2>2. QED
    BY <1>1, <1>3, <2>1, ModIsWord DEF Div, Remw
<1>4. QED
  BY <1>2, <1>3

(* The arms of Alu that are not comparisons. *)
LEMMA AluArms ==
    ASSUME NEW a, NEW b
    PROVE  /\ Alu("ADD", a, b)    = Add(a, b)
           /\ Alu("SUB", a, b)    = Sub(a, b)
           /\ Alu("SLL", a, b)    = (a * Shift(b)) % WordSize
           /\ Alu("XOR", a, b)    = BitXor(a, b)
           /\ Alu("SRL", a, b)    = (a \div Shift(b)) % WordSize
           /\ Alu("SRA", a, b)    = (Signed(a) \div Shift(b)) % WordSize
           /\ Alu("OR", a, b)     = BitOr(a, b)
           /\ Alu("AND", a, b)    = BitAnd(a, b)
           /\ Alu("MUL", a, b)    = (Signed(a) * Signed(b)) % WordSize
           /\ Alu("MULH", a, b)   = ((Signed(a) * Signed(b)) \div WordSize) % WordSize
           /\ Alu("MULHSU", a, b) = ((Signed(a) * b) \div WordSize) % WordSize
           /\ Alu("MULHU", a, b)  = ((a * b) \div WordSize) % WordSize
           /\ Alu("DIV", a, b)    = Div(a, b)
           /\ Alu("DIVU", a, b)   = IF b = 0 THEN WordSize - 1 ELSE (a \div b) % WordSize
           /\ Alu("REM", a, b)    = Remw(a, b)
           /\ Alu("REMU", a, b)   = IF b = 0 THEN a ELSE a % b
  BY Zenon DEF Alu

(* Every computation of the execute stage yields a word. *)
LEMMA AluIsWord ==
    ASSUME NEW op \in AluOps, NEW a \in Word, NEW b \in Word
    PROVE  Alu(op, a, b) \in Word
<1>1. a \in Nat /\ b \in Nat /\ a < WordSize /\ b < WordSize /\ WordSize \in Nat
  BY WordIsNat, WordSizeFacts
<1>2. Signed(a) \in Int /\ Signed(b) \in Int
  BY SignedIsInt
<1>3. Shift(b) \in Nat /\ Shift(b) > 0
  BY ShiftIsPositive
<1>4. CASE op \in {"ADD", "SUB"}
  BY <1>4, AluArms, AddIsWord
<1>5. CASE op \in {"XOR", "OR", "AND"}
  BY <1>5, AluArms, BitopsAreWords
<1>6. CASE op \in {"SLT", "SLTU"}
  <2>1. 0 \in Word /\ 1 \in Word
    BY SmallIsWord
  <2>2. Truth(Signed(a) < Signed(b)) \in Word /\ Truth(a < b) \in Word
    BY <2>1 DEF Truth
  <2>3. CASE op = "SLT"
    <3>1. Alu(op, a, b) = Truth(Signed(a) < Signed(b))
      BY <2>3, Zenon DEF Alu
    <3>2. QED
      BY <2>2, <3>1, Zenon
  <2>4. CASE op = "SLTU"
    <3>1. Alu(op, a, b) = Truth(a < b)
      BY <2>4, Zenon DEF Alu
    <3>2. QED
      BY <2>2, <3>1, Zenon
  <2>5. QED
    BY <1>6, <2>3, <2>4
<1>7. CASE op \in {"SLL", "SRL", "SRA"}
  <2>1. /\ a * Shift(b) \in Int
        /\ a \div Shift(b) \in Int
        /\ Signed(a) \div Shift(b) \in Int
    BY <1>1, <1>2, <1>3
  <2>2. QED
    BY <1>7, <2>1, AluArms, ModIsWord
<1>8. CASE op \in {"MUL", "MULH", "MULHSU", "MULHU"}
  <2>1. /\ Signed(a) * Signed(b) \in Int
        /\ Signed(a) * b \in Int
        /\ a * b \in Int
    BY <1>1, <1>2
  <2>2. \A x \in Int : x \div WordSize \in Int
    BY WordSizeFacts
  <2>3. QED
    BY <1>8, <2>1, <2>2, AluArms, ModIsWord
<1>9. CASE op \in {"DIV", "REM"}
  BY <1>9, AluArms, DivIsWord
<1>10. CASE op \in {"DIVU", "REMU"}
  <2>1. WordSize - 1 \in Word
    BY WordSizeFacts DEF Word
  <2>2. b # 0 => a \div b \in Int /\ a % b \in 0 .. b - 1
    BY <1>1
  <2>3. b # 0 => a % b \in Word
    <3>1. ASSUME NEW r \in 0 .. b - 1 PROVE r \in Word
      BY <1>1 DEF Word
    <3>2. QED
      BY <2>2, <3>1
  <2>4. QED
    BY <1>10, <2>1, <2>2, <2>3, AluArms, ModIsWord
<1>11. QED
  BY <1>4, <1>5, <1>6, <1>7, <1>8, <1>9, <1>10 DEF AluOps

----------------------------------------------------------------------------
(* Slots and their devices. *)
LEMMA OwnerIsSlot ==
    ASSUME NEW a
    PROVE  Owner(Map, a) = NoSlot \/ (Owner(Map, a) \in Slot /\ Covers(Map[Owner(Map, a)], a))
  BY DEF Owner, Owns

LEMMA KindOfSlot ==
    ASSUME NEW s \in Slot
    PROVE  /\ Map[s].kind \in {"ram", "tohost", "uart"}
           /\ Map[s].start \in Word /\ Map[s].size \in Nat
  BY MapAssumption

LEMMA NoSlotIsNone == NoSlot \notin Slot
  BY NumSlotsAssumption DEF NoSlot, Slot

----------------------------------------------------------------------------
(* A RAM access that the region holds touches cells of that region only. *)
LEMMA CellInRam ==
    ASSUME NEW s \in RamSlot, NEW a \in Word, NEW n \in AccessSize,
           RamHolds(s, a, n), NEW k \in 0 .. n - 1
    PROVE  Cell(s, a, k) \in RamCell
<1>1. /\ Map[s].start \in Nat /\ Map[s].size \in Nat /\ a \in Nat /\ n \in Nat /\ k \in Nat
      /\ k <= n - 1
  BY KindOfSlot, WordIsNat DEF RamSlot, AccessSize
<1>2. a - Map[s].start + k \in 0 .. Map[s].size - 1
  BY <1>1 DEF RamHolds
<1>3. QED
  BY <1>2 DEF Cell, RamCell

LEMMA RamReadIsByteString ==
    ASSUME NEW ram \in [RamCell -> ByteVal], NEW s \in RamSlot, NEW a \in Word,
           NEW n \in AccessSize, RamHolds(s, a, n)
    PROVE  RamRead(ram, s, a, n) \in 0 .. Span(n) - 1
<1> DEFINE b == [k \in 0 .. 3 |-> IF k < n THEN ram[Cell(s, a, k)] ELSE 0]
<1>1. 0 \in ByteVal /\ n \in Nat /\ n <= 4
  BY WordSizeFacts DEF ByteVal, AccessSize
<1>2. ASSUME NEW k \in 0 .. 3 PROVE b[k] \in ByteVal /\ (k >= n => b[k] = 0)
  <2>1. CASE k < n
    <3>1. Cell(s, a, k) \in RamCell
      <4>1. k \in 0 .. n - 1
        BY <1>1, <2>1
      <4>2. QED
        BY <4>1, CellInRam
    <3>2. QED
      BY <1>1, <2>1, <3>1
  <2>2. CASE ~(k < n)
    BY <1>1, <2>2
  <2>3. QED
    BY <2>1, <2>2
<1>3. b \in [0 .. 3 -> ByteVal]
  BY <1>2
<1> HIDE DEF b
<1>4. FromBytes(b) \in 0 .. Span(n) - 1
  BY <1>2, <1>3, FromBytesSpan
<1>5. QED
  BY <1>4 DEF b, RamRead

LEMMA RamWriteIsRam ==
    ASSUME NEW ram \in [RamCell -> ByteVal], NEW s, NEW a \in Word,
           NEW v \in Word, NEW n \in AccessSize
    PROVE  RamWrite(ram, s, a, v, n) \in [RamCell -> ByteVal]
<1>1. n \in Nat /\ n <= 4
  BY DEF AccessSize
<1>2. \A i \in 0 .. n - 1 : ByteOf(v, i) \in ByteVal
  BY <1>1, ByteOfIsByte
<1>3. QED
  BY <1>2 DEF RamWrite

LEMMA ByteAlone ==
    ASSUME NEW b \in ByteVal
    PROVE  FromBytes([k \in 0 .. 3 |-> IF k < 1 THEN b ELSE 0]) = b
<1>1. Byte \in Nat /\ b \in Nat
  BY ByteAssumption DEF ByteVal
<1>2. QED
  BY <1>1 DEF FromBytes

(* A byte of RAM, and where it is. *)
LEMMA ReadByte ==
    ASSUME NEW ram \in [RamCell -> ByteVal], NEW s \in RamSlot, NEW a \in Word,
           RamHolds(s, a, 1)
    PROVE  /\ RamRead(ram, s, a, 1) = ram[<<s, a - Map[s].start>>]
           /\ <<s, a - Map[s].start>> \in RamCell
<1>1. /\ Map[s].start \in Nat /\ Map[s].size \in Nat /\ a \in Nat
      /\ Map[s].start <= a /\ a - Map[s].start + 1 <= Map[s].size
  BY MapAssumption, WordIsNat DEF RamHolds, RamSlot
<1>2. a - Map[s].start \in 0 .. Map[s].size - 1
  BY <1>1
<1>3. <<s, a - Map[s].start>> \in RamCell
  BY <1>2 DEF RamCell
<1> DEFINE b == ram[<<s, a - Map[s].start>>]
<1>4. b \in ByteVal
  BY <1>3
<1>5. [k \in 0 .. 3 |-> IF k < 1 THEN ram[Cell(s, a, k)] ELSE 0] =
         [k \in 0 .. 3 |-> IF k < 1 THEN b ELSE 0]
  <2>1. Cell(s, a, 0) = <<s, a - Map[s].start>>
    BY <1>1 DEF Cell
  <2>2. ASSUME NEW k \in 0 .. 3
        PROVE  (IF k < 1 THEN ram[Cell(s, a, k)] ELSE 0) = (IF k < 1 THEN b ELSE 0)
    <3>1. CASE k = 0
      BY <2>1, <3>1
    <3>2. CASE k # 0
      BY <3>2
    <3>3. QED
      BY <3>1, <3>2
  <2>3. QED
    BY <2>2
<1>6. QED
  BY <1>3, <1>4, <1>5, ByteAlone DEF RamRead

----------------------------------------------------------------------------
LEMMA ByteIsAnyRead ==
    ASSUME NEW n \in AccessSize, NEW b \in ByteVal
    PROVE  b \in 0 .. Span(n) - 1
<1>1. Span(n) \in Nat /\ Byte <= Span(n) /\ b \in Nat /\ b <= Byte - 1
  BY SpanFacts, WordSizeFacts DEF ByteVal
<1>2. QED
  BY <1>1, WordSizeFacts

LEMMA UartReadIsByte ==
    ASSUME NEW u \in UartRegs, NEW off \in 0 .. 7
    PROVE  UartRead(u, off) \in ByteVal
<1>1. 0 \in ByteVal /\ 1 \in ByteVal
  BY WordSizeFacts DEF ByteVal
<1>2. LsrIdle \in ByteVal
  BY ByteAssumption DEF LsrIdle, ByteVal
<1>3. /\ u.ier \in ByteVal /\ u.lcr \in ByteVal /\ u.mcr \in ByteVal /\ u.scr \in ByteVal
      /\ u.dll \in ByteVal /\ u.dlh \in ByteVal
  BY DEF UartRegs
<1>4. off \in {0, 1, 2, 3, 4, 5, 6, 7}
  OBVIOUS
<1>5. QED
  BY <1>1, <1>2, <1>3, <1>4 DEF UartRead

LEMMA UartWriteIsUart ==
    ASSUME NEW u \in UartRegs, NEW off, NEW b \in ByteVal
    PROVE  UartWrite(u, off, b) \in UartRegs
  BY DEF UartWrite, UartRegs

LEMMA ResetIsUart == UartReset \in UartRegs
<1>1. 0 \in ByteVal /\ 1 \in ByteVal
  BY WordSizeFacts DEF ByteVal
<1>2. QED
  BY <1>1 DEF UartReset, UartRegs

----------------------------------------------------------------------------
(* The outcomes of the two accesses, by the kind of the owner. *)
LEMMA BusReadArms ==
    ASSUME NEW d, NEW a, NEW n
    PROVE  /\ Owner(Map, a) = NoSlot => BusRead(d, a, n) = Fault
           /\ Owner(Map, a) # NoSlot =>
                /\ Map[Owner(Map, a)].kind = "tohost" => BusRead(d, a, n) = Fault
                /\ Map[Owner(Map, a)].kind = "uart" =>
                     BusRead(d, a, n) = Value(UartRead(d.uart, a % 8))
                /\ Map[Owner(Map, a)].kind = "ram" =>
                     BusRead(d, a, n) = IF RamHolds(Owner(Map, a), a, n)
                                        THEN Value(RamRead(d.ram, Owner(Map, a), a, n))
                                        ELSE Fault
  BY Zenon DEF BusRead

LEMMA BusWriteArms ==
    ASSUME NEW d, NEW a, NEW v, NEW n
    PROVE  /\ Owner(Map, a) = NoSlot => BusWrite(d, a, v, n) = Refused(d)
           /\ Owner(Map, a) # NoSlot =>
                /\ Map[Owner(Map, a)].kind = "tohost" =>
                     BusWrite(d, a, v, n) = Accepted(TohostWrite(d, v))
                /\ Map[Owner(Map, a)].kind = "uart" =>
                     BusWrite(d, a, v, n) = Accepted(UartStore(d, a % 8, v % Byte))
                /\ Map[Owner(Map, a)].kind = "ram" =>
                     BusWrite(d, a, v, n) =
                       IF RamHolds(Owner(Map, a), a, n)
                       THEN Accepted([d EXCEPT !.ram = RamWrite(d.ram, Owner(Map, a), a, v, n)])
                       ELSE Refused(d)
  BY Zenon DEF BusWrite

(* bus_read yields a number of n bytes or fails. *)
LEMMA BusReadIsWord ==
    ASSUME NEW d \in Devices, NEW a \in Word, NEW n \in AccessSize
    PROVE  /\ BusRead(d, a, n).ok \in BOOLEAN
           /\ BusRead(d, a, n).val \in 0 .. Span(n) - 1
           /\ BusRead(d, a, n).val \in Word
<1>1. d.ram \in [RamCell -> ByteVal] /\ d.uart \in UartRegs
  BY DEF Devices
<1>2. 0 \in 0 .. Span(n) - 1
  BY SpanFacts, WordSizeFacts
<1>3. Fault.ok \in BOOLEAN /\ Fault.val \in 0 .. Span(n) - 1
  BY <1>2 DEF Fault
<1>4. \A v \in 0 .. Span(n) - 1 : Value(v).ok \in BOOLEAN /\ Value(v).val \in 0 .. Span(n) - 1
  BY DEF Value
<1>5. /\ BusRead(d, a, n).ok \in BOOLEAN
      /\ BusRead(d, a, n).val \in 0 .. Span(n) - 1
  <2> DEFINE s == Owner(Map, a)
  <2>1. CASE s = NoSlot
    BY <1>3, <2>1, BusReadArms
  <2>2. CASE s # NoSlot
    <3>1. s \in Slot
      BY <2>2, OwnerIsSlot
    <3>2. CASE Map[s].kind = "tohost"
      BY <1>3, <2>2, <3>2, BusReadArms
    <3>3. CASE Map[s].kind = "uart"
      <4>1. a % 8 \in 0 .. 7
        BY WordIsNat
      <4>2. UartRead(d.uart, a % 8) \in 0 .. Span(n) - 1
        BY <1>1, <4>1, UartReadIsByte, ByteIsAnyRead
      <4>3. QED
        BY <1>4, <2>2, <3>3, <4>2, BusReadArms
    <3>4. CASE Map[s].kind = "ram"
      <4>1. s \in RamSlot
        BY <3>1, <3>4 DEF RamSlot
      <4>2. RamHolds(s, a, n) => RamRead(d.ram, s, a, n) \in 0 .. Span(n) - 1
        BY <1>1, <4>1, RamReadIsByteString
      <4>3. QED
        BY <1>3, <1>4, <2>2, <3>4, <4>2, BusReadArms
    <3>5. QED
      BY <3>1, <3>2, <3>3, <3>4, KindOfSlot
  <2>3. QED
    BY <2>1, <2>2
<1>6. QED
  BY <1>5, SextIsWord

(* bus_write leaves devices, and the devices it found when it fails. *)
LEMMA BusWriteIsDevices ==
    ASSUME NEW d \in Devices, NEW a \in Word, NEW v \in Word, NEW n \in AccessSize
    PROVE  /\ BusWrite(d, a, v, n).ok \in BOOLEAN
           /\ BusWrite(d, a, v, n).dev \in Devices
           /\ ~BusWrite(d, a, v, n).ok => BusWrite(d, a, v, n).dev = d
<1>1. /\ d.ram \in [RamCell -> ByteVal] /\ d.uart \in UartRegs
      /\ d.stdout \in Seq(ByteVal)
  BY DEF Devices
<1>2. v % Byte \in ByteVal
  BY WordIsNat, WordSizeFacts DEF ByteVal
<1>3. TohostExit(v) \in Word
  <2>1. 0 \in Word
    BY SmallIsWord
  <2>2. v \div 2 \in 0 .. v
    BY WordIsNat
  <2>3. v \div 2 \in Word
    BY <2>2, WordIsNat, WordSizeFacts DEF Word
  <2>4. QED
    BY <2>1, <2>3 DEF TohostExit
<1> DEFINE s == Owner(Map, a)
<1>4. CASE s = NoSlot
  <2>1. BusWrite(d, a, v, n) = Refused(d)
    BY <1>4, BusWriteArms, Zenon
  <2>2. QED
    BY <2>1 DEF Refused
<1>5. CASE s # NoSlot
  <2>1. s \in Slot
    BY <1>5, OwnerIsSlot
  <2>2. CASE Map[s].kind = "tohost"
    <3>1. TohostWrite(d, v) \in Devices
      BY <1>3 DEF Devices, TohostWrite
    <3>2. BusWrite(d, a, v, n) = Accepted(TohostWrite(d, v))
      BY <1>5, <2>2, BusWriteArms, Zenon
    <3>3. QED
      BY <3>1, <3>2 DEF Accepted
  <2>3. CASE Map[s].kind = "uart"
    <3>1. UartStore(d, a % 8, v % Byte) \in Devices
      <4> DEFINE u   == UartWrite(d.uart, a % 8, v % Byte)
                 out == IF UartTransmits(d.uart, a % 8)
                        THEN Append(d.stdout, v % Byte) ELSE d.stdout
      <4>1. u \in UartRegs
        BY <1>1, <1>2, UartWriteIsUart
      <4>2. out \in Seq(ByteVal)
        BY <1>1, <1>2
      <4>3. UartStore(d, a % 8, v % Byte) = [d EXCEPT !.uart = u, !.stdout = out]
        BY DEF UartStore
      <4> HIDE DEF u, out
      <4>4. QED
        BY <4>1, <4>2, <4>3 DEF Devices
    <3>2. BusWrite(d, a, v, n) = Accepted(UartStore(d, a % 8, v % Byte))
      BY <1>5, <2>3, BusWriteArms, Zenon
    <3>3. QED
      BY <3>1, <3>2 DEF Accepted
  <2>4. CASE Map[s].kind = "ram"
    <3>1. RamWrite(d.ram, s, a, v, n) \in [RamCell -> ByteVal]
      BY <1>1, RamWriteIsRam
    <3>2. [d EXCEPT !.ram = RamWrite(d.ram, s, a, v, n)] \in Devices
      BY <3>1 DEF Devices
    <3>3. BusWrite(d, a, v, n) =
            IF RamHolds(s, a, n)
            THEN Accepted([d EXCEPT !.ram = RamWrite(d.ram, s, a, v, n)])
            ELSE Refused(d)
      BY <1>5, <2>4, BusWriteArms, Zenon
    <3>4. QED
      BY <3>2, <3>3 DEF Accepted, Refused
  <2>5. QED
    BY <2>1, <2>2, <2>3, <2>4, KindOfSlot
<1>6. QED
  BY <1>4, <1>5
=============================================================================
