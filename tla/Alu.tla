-------------------------------- MODULE Alu --------------------------------
(***************************************************************************)
(* The register-register computations of hart_step (src/hart.c 467-528):   *)
(* the OP and OP-IMM groups and the M extension.  The bitwise operations   *)
(* work byte by byte from the tables of a single byte, so that a word's    *)
(* result is a word whatever its width.                                    *)
(***************************************************************************)
EXTENDS Words

CONSTANTS ByteAnd, ByteOr, ByteXor    \* the operators &, | and ^ on bytes

ASSUME ByteTables == /\ ByteAnd \in [ByteVal \X ByteVal -> ByteVal]
                     /\ ByteOr  \in [ByteVal \X ByteVal -> ByteVal]
                     /\ ByteXor \in [ByteVal \X ByteVal -> ByteVal]

Bytewise(t, a, b) == FromBytes([i \in 0 .. 3 |-> t[<<ByteOf(a, i), ByteOf(b, i)>>]])

BitAnd(a, b)   == Bytewise(ByteAnd, a, b)
BitOr(a, b)    == Bytewise(ByteOr, a, b)
BitXor(a, b)   == Bytewise(ByteXor, a, b)
BitClear(a, b) == BitAnd(a, WordSize - 1 - b)

----------------------------------------------------------------------------
Truth(p) == IF p THEN 1 ELSE 0

(* Shift amounts use the low bits of the operand. *)
Shift(b) == Pow2[b % XLEN]

(* C division truncates towards zero; the remainder has the dividend's sign. *)
Abs(x) == IF x < 0 THEN -x ELSE x

(* Mutant of Quot: the quotient is rounded down. *)
QuotFloors(x, y) == IF y < 0 THEN (-x) \div (-y) ELSE x \div y

Quot(x, y) == IF (x < 0) = (y < 0) THEN Abs(x) \div Abs(y) ELSE -(Abs(x) \div Abs(y))
Rem(x, y)  == x - y * Quot(x, y)

(* Signed overflow of DIV and REM: the most negative word divided by -1. *)
Overflows(a, b) == a = WordSize \div 2 /\ Signed(b) = -1

Div(a, b)  == IF b = 0 THEN WordSize - 1
              ELSE IF Overflows(a, b) THEN WordSize \div 2
              ELSE Quot(Signed(a), Signed(b)) % WordSize
Remw(a, b) == IF b = 0 THEN a
              ELSE IF Overflows(a, b) THEN 0
              ELSE Rem(Signed(a), Signed(b)) % WordSize

AluOps == {"ADD", "SUB", "SLL", "SLT", "SLTU", "XOR", "SRL", "SRA", "OR", "AND",
           "MUL", "MULH", "MULHSU", "MULHU", "DIV", "DIVU", "REM", "REMU"}

Alu(op, a, b) ==
    CASE op = "ADD"    -> Add(a, b)
      [] op = "SUB"    -> Sub(a, b)
      [] op = "SLL"    -> (a * Shift(b)) % WordSize
      [] op = "SLT"    -> Truth(Signed(a) < Signed(b))
      [] op = "SLTU"   -> Truth(a < b)
      [] op = "XOR"    -> BitXor(a, b)
      [] op = "SRL"    -> (a \div Shift(b)) % WordSize
      [] op = "SRA"    -> (Signed(a) \div Shift(b)) % WordSize
      [] op = "OR"     -> BitOr(a, b)
      [] op = "AND"    -> BitAnd(a, b)
      [] op = "MUL"    -> (Signed(a) * Signed(b)) % WordSize
      [] op = "MULH"   -> ((Signed(a) * Signed(b)) \div WordSize) % WordSize
      [] op = "MULHSU" -> ((Signed(a) * b) \div WordSize) % WordSize
      [] op = "MULHU"  -> ((a * b) \div WordSize) % WordSize
      [] op = "DIV"    -> Div(a, b)
      [] op = "DIVU"   -> IF b = 0 THEN WordSize - 1 ELSE (a \div b) % WordSize
      [] op = "REM"    -> Remw(a, b)
      [] op = "REMU"   -> IF b = 0 THEN a ELSE a % b
=============================================================================
