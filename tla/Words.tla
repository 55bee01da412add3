------------------------------- MODULE Words -------------------------------
(***************************************************************************)
(* Machine words of the emulator (include/rve/types.h: word, s_word, u8)   *)
(* and the conversions the execute stage and the memory peripheral apply   *)
(* to them.                                                                *)
(*                                                                         *)
(* A word is four bytes.  The radix of a byte is a parameter: 256 in the   *)
(* code, 16 in the model-checked instances, so that every access size (1,  *)
(* 2 and 4 bytes), every wrap-around and the mstatus bits 3, 7, 11 and 12  *)
(* keep their meaning while a word fits TLC's integers.                    *)
(***************************************************************************)
EXTENDS Integers

CONSTANTS
    Byte,    \* number of values of a byte: 256 in the code
    XLEN     \* bits of a word: 32 in the code

WordSize == Byte * Byte * Byte * Byte
Word     == 0 .. WordSize - 1
ByteVal  == 0 .. Byte - 1

(* Two to the power k. *)
Pow2[k \in Nat] == IF k = 0 THEN 1 ELSE 2 * Pow2[k - 1]

(* A byte has at least four bits and a word has XLEN bits. *)
ASSUME ByteAssumption == Byte \in Nat /\ Byte >= 16 /\ Byte % 16 = 0
ASSUME XlenAssumption == XLEN \in Nat /\ XLEN >= 16 /\ Pow2[XLEN] = WordSize

----------------------------------------------------------------------------
(* Mutant of Add: the sum keeps its carry, as 64-bit arithmetic would. *)
AddWide(a, b) == a + b

(* Unsigned arithmetic wraps at the word size. *)
Add(a, b) == (a + b) % WordSize
Sub(a, b) == (a - b) % WordSize

(* The s_word reading of a word. *)
Signed(w) == IF w >= WordSize \div 2 THEN w - WordSize ELSE w

(* The bit of weight m (m a power of two), and w with that bit set, cleared *)
(* or copied from a value that is 0 or 1.                                   *)
Flag(w, m)       == (w \div m) % 2
PutFlag(w, m, v) == w - m * Flag(w, m) + m * v

----------------------------------------------------------------------------
(* Access sizes in bytes, and the number of values k bytes carry, which is *)
(* also the weight of byte k.                                              *)
AccessSize == {1, 2, 4}
Span(k)    == IF k = 0 THEN 1
              ELSE IF k = 1 THEN Byte
              ELSE IF k = 2 THEN Byte * Byte
              ELSE IF k = 3 THEN Byte * Byte * Byte
              ELSE WordSize

(* Little-endian: byte 0 is the least significant. *)
ByteOf(w, i) == (w \div Span(i)) % Byte

(* The word whose bytes are b[0..3], most significant last. *)
FromBytes(b) == b[0] + Byte * (b[1] + Byte * (b[2] + Byte * b[3]))

(* sext(): the word with the value of the n-byte number v. *)
Sext(v, n) == IF v >= Span(n) \div 2 THEN v + (WordSize - Span(n)) ELSE v
=============================================================================
