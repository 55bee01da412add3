--------------------------- MODULE DecoderProofs ---------------------------
(***************************************************************************)
(* Proofs about the decoder and its disassembler, for every instruction    *)
(* word: the immediates have the width of their format, the decoded        *)
(* operands encode the word again, the operation is the manual's, and the  *)
(* line printed for it reads back as the same operation and operands.  The *)
(* lemmas are about one immediate each (its range, and the fields that are *)
(* read back from it, digit by digit), about one opcode each (its rows in  *)
(* the manual), and about one group of the disassembler's switch each (its *)
(* tokens, and what they read back to).                                    *)
(***************************************************************************)
EXTENDS Disassembler, TLAPS

(* The immediates are integers.                                              *)
LEMMA ImmsAreIntegers ==
    ASSUME NEW f \in Instruction
    PROVE  ImmI(f) \in Int /\ ImmS(f) \in Int /\ ImmB(f) \in Int /\ ImmJ(f) \in Int
<1> DEFINE a == f.funct7
           b == f.rs2
           c == f.rd
           d == f.rs1
           e == f.funct3
           s == a \div 64
           h == a % 64
<1>1. a \in Int /\ b \in Int /\ c \in Int /\ d \in Int /\ e \in Int  BY SMT DEF Instruction
<1>2. s \in Int /\ h \in Int /\ b % 2 \in Int /\ b \div 2 \in Int /\ c % 2 \in Int /\ c \div 2 \in Int
  BY <1>1, SMT
<1>3. \A v, w \in Int : SignExtend(v, w) \in Int  BY SMT DEF SignExtend
<1> HIDE DEF s, h
<1>4. ImmI(f) \in Int
  <2>1. 32 * a + b \in Int  BY <1>1, SMT
  <2>2. QED  BY <1>3, <2>1, SMT DEF ImmI
<1>5. ImmS(f) \in Int
  <2>1. 32 * a + c \in Int  BY <1>1, SMT
  <2>2. QED  BY <1>3, <2>1, SMT DEF ImmS
<1>6. ImmB(f) \in Int
  <2>1. 4096 * s + 2048 * (c % 2) + 32 * h + 2 * (c \div 2) \in Int  BY <1>2, SMT
  <2>2. QED  BY <1>3, <2>1, SMT DEF ImmB, s, h
<1>7. ImmJ(f) \in Int
  <2> DEFINE v == SignExtend(256 * s + 8 * d + e, 256)
  <2>1. 256 * s + 8 * d + e \in Int  BY <1>1, <1>2, SMT
  <2>2. v \in Int  BY <1>3, <2>1, SMT
  <2>3. ImmJ(f) = 4096 * v + 2048 * (b % 2) + 32 * h + 2 * (b \div 2)
    BY Zenon DEF ImmJ, s, h
  <2> HIDE DEF v
  <2>4. QED  BY <1>2, <2>2, <2>3, SMT
<1>8. QED  BY <1>4, <1>5, <1>6, <1>7

LEMMA ImmIFields ==
    ASSUME NEW f \in Instruction
    PROVE  /\ ImmI(f) \in Int /\ ImmI(f) >= -2048 /\ ImmI(f) <= 2047
           /\ ImmI(f) \in -2048 .. 2047
           /\ f.rs2 = Bits(ImmI(f), 1, 32) /\ f.funct7 = Bits(ImmI(f), 32, 128)
<1> DEFINE a == f.funct7
           b == f.rs2
           s == a \div 64
           imm == ImmI(f)
<1>1. a \in 0 .. 127 /\ b \in 0 .. 31  BY SMT DEF Instruction
<1>2. a \in 0 .. 127 /\ b \in 0 .. 31 /\ s \in 0 .. 1 /\ (s = 1 <=> a >= 64)  BY SMT, <1>1
<1>3. imm = SignExtend(32 * a + b, 2048)  BY SMT DEF ImmI
<1> HIDE DEF a, b, s, imm
<1>4. imm \in Int /\ imm = 32 * a + b - 4096 * s  BY SMT, <1>2, <1>3 DEF SignExtend
<1>5. imm >= -2048 /\ imm <= 2047 /\ imm \in -2048 .. 2047  BY SMT, <1>2, <1>4
<1>6. Bits(imm, 1, 32) = b
  <2> DEFINE q == a - 128 * s
  <2>1. q \in Int /\ imm \in Int /\ imm = 32 * q + b  BY SMT, <1>2, <1>4
  <2> HIDE DEF q
  <2>2. imm % 32 = b  BY SMT, <2>1, <1>2
  <2>3. imm \div 1 = imm  BY SMT, <2>1
  <2>4. QED  BY SMT, <2>2, <2>3 DEF Bits
<1>7. Bits(imm, 32, 128) = a
  <2> DEFINE q == -s
             r == b
             c == 128 * q + a
  <2>1. q \in Int /\ c \in Int /\ r \in 0 .. 31 /\ imm = 32 * c + r  BY SMT, <1>2, <1>4
  <2>2. c = 128 * q + a  OBVIOUS
  <2> HIDE DEF q, r, c
  <2>3. imm \div 32 = c  BY SMT, <2>1
  <2>4. c % 128 = a  BY SMT, <2>1, <2>2, <1>2
  <2>5. QED  BY SMT, <2>3, <2>4 DEF Bits
<1>8. QED  BY SMT, <1>4, <1>5, <1>6, <1>7 DEF a, b, imm

LEMMA ImmSFields ==
    ASSUME NEW f \in Instruction
    PROVE  /\ ImmS(f) \in -2048 .. 2047
           /\ f.rd = Bits(ImmS(f), 1, 32) /\ f.funct7 = Bits(ImmS(f), 32, 128)
<1> DEFINE a == f.funct7
           b == f.rd
           s == a \div 64
           imm == ImmS(f)
<1>1. a \in 0 .. 127 /\ b \in 0 .. 31  BY SMT DEF Instruction
<1>2. a \in 0 .. 127 /\ b \in 0 .. 31 /\ s \in 0 .. 1 /\ (s = 1 <=> a >= 64)  BY SMT, <1>1
<1>3. imm = SignExtend(32 * a + b, 2048)  BY SMT DEF ImmS
<1> HIDE DEF a, b, s, imm
<1>4. imm \in Int /\ imm = 32 * a + b - 4096 * s  BY SMT, <1>2, <1>3 DEF SignExtend
<1>5. imm \in -2048 .. 2047  BY SMT, <1>2, <1>4
<1>6. Bits(imm, 1, 32) = b
  <2> DEFINE q == a - 128 * s
  <2>1. q \in Int /\ imm \in Int /\ imm = 32 * q + b  BY SMT, <1>2, <1>4
  <2> HIDE DEF q
  <2>2. imm % 32 = b  BY SMT, <2>1, <1>2
  <2>3. imm \div 1 = imm  BY SMT, <2>1
  <2>4. QED  BY SMT, <2>2, <2>3 DEF Bits
<1>7. Bits(imm, 32, 128) = a
  <2> DEFINE q == -s
             r == b
             c == 128 * q + a
  <2>1. q \in Int /\ c \in Int /\ r \in 0 .. 31 /\ imm = 32 * c + r  BY SMT, <1>2, <1>4
  <2>2. c = 128 * q + a  OBVIOUS
  <2> HIDE DEF q, r, c
  <2>3. imm \div 32 = c  BY SMT, <2>1
  <2>4. c % 128 = a  BY SMT, <2>1, <2>2, <1>2
  <2>5. QED  BY SMT, <2>3, <2>4 DEF Bits
<1>8. QED  BY SMT, <1>4, <1>5, <1>6, <1>7 DEF a, b, imm

LEMMA ImmBFields ==
    ASSUME NEW f \in Instruction
    PROVE  /\ ImmB(f) \in -4096 .. 4095 /\ ImmB(f) % 2 = 0
           /\ f.rd = 2 * Bits(ImmB(f), 2, 16) + Bits(ImmB(f), 2048, 2)
           /\ f.funct7 = 64 * Bits(ImmB(f), 4096, 2) + Bits(ImmB(f), 32, 64)
<1> DEFINE s == f.funct7 \div 64
           h == f.funct7 % 64
           l == f.rd \div 2
           b == f.rd % 2
           imm == ImmB(f)
<1>1. f.rd \in 0 .. 31 /\ f.funct7 \in 0 .. 127  BY SMT DEF Instruction
<1>2. s \in 0 .. 1 /\ b \in 0 .. 1 /\ h \in 0 .. 63 /\ l \in 0 .. 15  BY SMT, <1>1
<1>3. f.funct7 = 64 * s + h /\ f.rd = 2 * l + b  BY SMT, <1>1
<1>a. imm = SignExtend(4096 * s + 2048 * b + 32 * h + 2 * l, 4096)  BY DEF ImmB
<1> HIDE DEF s, h, l, b, imm
<1>4. imm \in Int /\ imm = 2048 * b + 32 * h + 2 * l - 4096 * s
  BY SMT, <1>2, <1>a DEF SignExtend
<1>5. imm \in -4096 .. 4095  BY SMT, <1>2, <1>4
<1>6. imm % 2 = 0
  <2> DEFINE q == 1024 * b + 16 * h + l - 2048 * s
  <2>1. q \in Int /\ imm = 2 * q  BY SMT, <1>2, <1>4
  <2> HIDE DEF q
  <2>2. QED  BY SMT, <2>1
<1>7. Bits(imm, 2, 16) = l
  <2> DEFINE q == 64 * b + h - 128 * s
             c == 16 * q + l
  <2>1. q \in Int /\ c \in Int /\ imm = 2 * c  BY SMT, <1>2, <1>4
  <2>2. c = 16 * q + l  OBVIOUS
  <2> HIDE DEF q, c
  <2>3. imm \div 2 = c  BY SMT, <2>1
  <2>4. c % 16 = l  BY SMT, <2>1, <2>2, <1>2
  <2>5. QED  BY SMT, <2>3, <2>4 DEF Bits
<1>8. Bits(imm, 2048, 2) = b
  <2> DEFINE q == -s
             r == 32 * h + 2 * l
             c == 2 * q + b
  <2>1. q \in Int /\ c \in Int /\ r \in 0 .. 2047 /\ imm = 2048 * c + r  BY SMT, <1>2, <1>4
  <2>2. c = 2 * q + b  OBVIOUS
  <2> HIDE DEF q, r, c
  <2>3. imm \div 2048 = c  BY SMT, <2>1
  <2>4. c % 2 = b  BY SMT, <2>1, <2>2, <1>2
  <2>5. QED  BY SMT, <2>3, <2>4 DEF Bits
<1>9. Bits(imm, 4096, 2) = s
  <2> DEFINE q == -s
             r == 2048 * b + 32 * h + 2 * l
             c == 2 * q + s
  <2>1. q \in Int /\ c \in Int /\ r \in 0 .. 4095 /\ imm = 4096 * c + r  BY SMT, <1>2, <1>4
  <2>2. c = 2 * q + s  OBVIOUS
  <2> HIDE DEF q, r, c
  <2>3. imm \div 4096 = c  BY SMT, <2>1
  <2>4. c % 2 = s  BY SMT, <2>1, <2>2, <1>2
  <2>5. QED  BY SMT, <2>3, <2>4 DEF Bits
<1>10. Bits(imm, 32, 64) = h
  <2> DEFINE q == b - 2 * s
             r == 2 * l
             c == 64 * q + h
  <2>1. q \in Int /\ c \in Int /\ r \in 0 .. 31 /\ imm = 32 * c + r  BY SMT, <1>2, <1>4
  <2>2. c = 64 * q + h  OBVIOUS
  <2> HIDE DEF q, r, c
  <2>3. imm \div 32 = c  BY SMT, <2>1
  <2>4. c % 64 = h  BY SMT, <2>1, <2>2, <1>2
  <2>5. QED  BY SMT, <2>3, <2>4 DEF Bits
<1>11. /\ f.rd = 2 * Bits(imm, 2, 16) + Bits(imm, 2048, 2)
       /\ f.funct7 = 64 * Bits(imm, 4096, 2) + Bits(imm, 32, 64)
  BY SMT, <1>3, <1>7, <1>8, <1>9, <1>10
<1>12. QED  BY SMT, <1>4, <1>5, <1>6, <1>11 DEF imm

LEMMA ImmUFields ==
    ASSUME NEW f \in Instruction
    PROVE  /\ ImmU(f) \in Int /\ ImmU(f) % 4096 = 0
           /\ ImmU(f) \div 4096 >= -524288 /\ ImmU(f) \div 4096 <= 524287
           /\ f.funct3 = Bits(ImmU(f) \div 4096, 1, 8)
           /\ f.rs1 = Bits(ImmU(f) \div 4096, 8, 32)
           /\ f.rs2 = Bits(ImmU(f) \div 4096, 256, 32)
           /\ f.funct7 = Bits(ImmU(f) \div 4096, 8192, 128)
<1> DEFINE a == f.funct7
           s == a \div 64
           d == f.rs2
           b == f.rs1
           t == f.funct3
           v == 8192 * SignExtend(a, 64) + 256 * d + 8 * b + t
           imm == ImmU(f)
<1>1. a \in 0 .. 127 /\ d \in 0 .. 31 /\ b \in 0 .. 31 /\ t \in 0 .. 7  BY SMT DEF Instruction
<1>2. /\ a \in 0 .. 127 /\ d \in 0 .. 31 /\ b \in 0 .. 31 /\ t \in 0 .. 7
      /\ s \in 0 .. 1 /\ (s = 1 <=> a >= 64)
  BY SMT, <1>1
<1>3. imm = 4096 * v  BY DEF ImmU
<1>4. v \in Int /\ v = 8192 * (a - 128 * s) + 256 * d + 8 * b + t
  <2>1. SignExtend(a, 64) = a - 128 * s  BY SMT, <1>2 DEF SignExtend
  <2> HIDE DEF a, s, d, b, t
  <2>2. QED  BY SMT, <1>2, <2>1
<1> HIDE DEF a, s, d, b, t, v, imm
<1>l. v >= -524288  BY SMT, <1>2, <1>4
<1>h. v <= 524287  BY SMT, <1>2, <1>4
<1>5. imm \in Int /\ imm % 4096 = 0 /\ imm \div 4096 = v
  <2>1. v \in Int  BY <1>4
  <2>2. imm \div 4096 = v  BY SMT, <1>3, <2>1
  <2>3. imm % 4096 = 0  BY SMT, <1>3, <2>1
  <2>4. imm \in Int  BY SMT, <1>3, <2>1
  <2>5. QED  BY <2>2, <2>3, <2>4
<1>6. Bits(v, 1, 8) = t
  <2> DEFINE q == 1024 * (a - 128 * s) + 32 * d + b
  <2>1. q \in Int /\ v \in Int /\ v = 8 * q + t  BY SMT, <1>2, <1>4
  <2> HIDE DEF q
  <2>2. v % 8 = t  BY SMT, <2>1, <1>2
  <2>3. v \div 1 = v  BY SMT, <2>1
  <2>4. QED  BY SMT, <2>2, <2>3 DEF Bits
<1>7. Bits(v, 8, 32) = b
  <2> DEFINE q == 32 * (a - 128 * s) + d
             r == t
             c == 32 * q + b
  <2>1. q \in Int /\ c \in Int /\ r \in 0 .. 7 /\ v = 8 * c + r  BY SMT, <1>2, <1>4
  <2>2. c = 32 * q + b  OBVIOUS
  <2> HIDE DEF q, r, c
  <2>3. v \div 8 = c  BY SMT, <2>1
  <2>4. c % 32 = b  BY SMT, <2>1, <2>2, <1>2
  <2>5. QED  BY SMT, <2>3, <2>4 DEF Bits
<1>8. Bits(v, 256, 32) = d
  <2> DEFINE q == a - 128 * s
             r == 8 * b + t
             c == 32 * q + d
  <2>1. q \in Int /\ c \in Int /\ r \in 0 .. 255 /\ v = 256 * c + r  BY SMT, <1>2, <1>4
  <2>2. c = 32 * q + d  OBVIOUS
  <2> HIDE DEF q, r, c
  <2>3. v \div 256 = c  BY SMT, <2>1
  <2>4. c % 32 = d  BY SMT, <2>1, <2>2, <1>2
  <2>5. QED  BY SMT, <2>3, <2>4 DEF Bits
<1>9. Bits(v, 8192, 128) = a
  <2> DEFINE q == -s
             r == 256 * d + 8 * b + t
             c == 128 * q + a
  <2>1. q \in Int /\ c \in Int /\ r \in 0 .. 8191 /\ v = 8192 * c + r  BY SMT, <1>2, <1>4
  <2>2. c = 128 * q + a  OBVIOUS
  <2> HIDE DEF q, r, c
  <2>3. v \div 8192 = c  BY SMT, <2>1
  <2>4. c % 128 = a  BY SMT, <2>1, <2>2, <1>2
  <2>5. QED  BY SMT, <2>3, <2>4 DEF Bits
<1>10. QED  BY SMT, <1>l, <1>h, <1>5, <1>6, <1>7, <1>8, <1>9 DEF imm, a, d, b, t

LEMMA ImmJFields ==
    ASSUME NEW f \in Instruction
    PROVE  /\ ImmJ(f) \div 4096 \in -256 .. 255 /\ ImmJ(f) % 2 = 0
           /\ f.funct3 = Bits(ImmJ(f) \div 4096, 1, 8)
           /\ f.rs1 = Bits(ImmJ(f) \div 4096, 8, 32)
           /\ f.rs2 = 2 * Bits(ImmJ(f), 2, 16) + Bits(ImmJ(f), 2048, 2)
           /\ f.funct7 = 64 * Bits(ImmJ(f) \div 4096, 256, 2) + Bits(ImmJ(f), 32, 64)
<1> DEFINE s == f.funct7 \div 64
           h == f.funct7 % 64
           l == f.rs2 \div 2
           b == f.rs2 % 2
           e == f.rs1
           t == f.funct3
           v == SignExtend(256 * s + 8 * e + t, 256)
           imm == ImmJ(f)
<1>1. /\ f.rs1 \in 0 .. 31 /\ f.funct3 \in 0 .. 7
      /\ f.rs2 \in 0 .. 31 /\ f.funct7 \in 0 .. 127  BY SMT DEF Instruction
<1>2. /\ s \in 0 .. 1 /\ b \in 0 .. 1 /\ h \in 0 .. 63 /\ l \in 0 .. 15
      /\ e \in 0 .. 31 /\ t \in 0 .. 7
  BY SMT, <1>1
<1>3. f.funct7 = 64 * s + h /\ f.rs2 = 2 * l + b  BY SMT, <1>1
<1>4. v \in Int /\ v = 8 * e + t - 256 * s  BY SMT, <1>2 DEF SignExtend
<1>5. imm = 4096 * v + 2048 * b + 32 * h + 2 * l  BY DEF ImmJ
<1> HIDE DEF s, h, l, b, e, t, v, imm
<1>6. imm \in Int /\ imm \div 4096 = v /\ v \in -256 .. 255
  <2> DEFINE r == 2048 * b + 32 * h + 2 * l
  <2>1. r \in 0 .. 4095 /\ imm = 4096 * v + r  BY SMT, <1>2, <1>4, <1>5
  <2> HIDE DEF r
  <2>2. QED  BY SMT, <2>1, <1>2, <1>4
<1>7. imm % 2 = 0
  <2> DEFINE q == 2048 * v + 1024 * b + 16 * h + l
  <2>1. q \in Int /\ imm = 2 * q  BY SMT, <1>2, <1>4, <1>5
  <2> HIDE DEF q
  <2>2. QED  BY SMT, <2>1
<1>8. Bits(v, 1, 8) = t
  <2> DEFINE q == e - 32 * s
  <2>1. q \in Int /\ v \in Int /\ v = 8 * q + t  BY SMT, <1>2, <1>4
  <2> HIDE DEF q
  <2>2. v % 8 = t  BY SMT, <2>1, <1>2
  <2>3. v \div 1 = v  BY SMT, <2>1
  <2>4. QED  BY SMT, <2>2, <2>3 DEF Bits
<1>9. Bits(v, 8, 32) = e
  <2> DEFINE q == -s
             r == t
             c == 32 * q + e
  <2>1. q \in Int /\ c \in Int /\ r \in 0 .. 7 /\ v = 8 * c + r  BY SMT, <1>2, <1>4
  <2>2. c = 32 * q + e  OBVIOUS
  <2> HIDE DEF q, r, c
  <2>3. v \div 8 = c  BY SMT, <2>1
  <2>4. c % 32 = e  BY SMT, <2>1, <2>2, <1>2
  <2>5. QED  BY SMT, <2>3, <2>4 DEF Bits
<1>10. Bits(v, 256, 2) = s
  <2> DEFINE q == -s
             r == 8 * e + t
             c == 2 * q + s
  <2>1. q \in Int /\ c \in Int /\ r \in 0 .. 255 /\ v = 256 * c + r  BY SMT, <1>2, <1>4
  <2>2. c = 2 * q + s  OBVIOUS
  <2> HIDE DEF q, r, c
  <2>3. v \div 256 = c  BY SMT, <2>1
  <2>4. c % 2 = s  BY SMT, <2>1, <2>2, <1>2
  <2>5. QED  BY SMT, <2>3, <2>4 DEF Bits
<1>11. Bits(imm, 2, 16) = l
  <2> DEFINE q == 128 * v + 64 * b + h
             c == 16 * q + l
  <2>1. q \in Int /\ c \in Int /\ imm = 2 * c  BY SMT, <1>2, <1>4, <1>5
  <2>2. c = 16 * q + l  OBVIOUS
  <2> HIDE DEF q, c
  <2>3. imm \div 2 = c  BY SMT, <2>1
  <2>4. c % 16 = l  BY SMT, <2>1, <2>2, <1>2
  <2>5. QED  BY SMT, <2>3, <2>4 DEF Bits
<1>12. Bits(imm, 2048, 2) = b
  <2> DEFINE q == v
             r == 32 * h + 2 * l
             c == 2 * q + b
  <2>1. q \in Int /\ c \in Int /\ r \in 0 .. 2047 /\ imm = 2048 * c + r  BY SMT, <1>2, <1>4, <1>5
  <2>2. c = 2 * q + b  OBVIOUS
  <2> HIDE DEF q, r, c
  <2>3. imm \div 2048 = c  BY SMT, <2>1
  <2>4. c % 2 = b  BY SMT, <2>1, <2>2, <1>2
  <2>5. QED  BY SMT, <2>3, <2>4 DEF Bits
<1>13. Bits(imm, 32, 64) = h
  <2> DEFINE q == 2 * v + b
             r == 2 * l
             c == 64 * q + h
  <2>1. q \in Int /\ c \in Int /\ r \in 0 .. 31 /\ imm = 32 * c + r  BY SMT, <1>2, <1>4, <1>5
  <2>2. c = 64 * q + h  OBVIOUS
  <2> HIDE DEF q, r, c
  <2>3. imm \div 32 = c  BY SMT, <2>1
  <2>4. c % 64 = h  BY SMT, <2>1, <2>2, <1>2
  <2>5. QED  BY SMT, <2>3, <2>4 DEF Bits
<1>14. /\ f.rs2 = 2 * Bits(imm, 2, 16) + Bits(imm, 2048, 2)
       /\ f.funct7 = 64 * Bits(v, 256, 2) + Bits(imm, 32, 64)
  BY SMT, <1>3, <1>10, <1>11, <1>12, <1>13
<1>15. QED  BY SMT, <1>6, <1>7, <1>8, <1>9, <1>14 DEF imm, e, t

----------------------------------------------------------------------------
(* Every table holds operations. *)
LEMMA TablesHoldOps ==
    ASSUME NEW t \in {Loads, Stores, Branches, OpImms, Adds, Subs, MulDivs, Fences, Csrs},
           NEW n \in 0 .. 7
    PROVE  t[n + 1] \in Ops
<1> DEFINE Tables == {Loads, Stores, Branches, OpImms, Adds, Subs, MulDivs, Fences, Csrs}
           Rows == {{r[k] : k \in 1 .. 8} : r \in Tables}
           row == {t[k] : k \in 1 .. 8}
<1>1. n + 1 \in 1 .. 8  OBVIOUS
<1>2. t[n + 1] \in row  BY <1>1
<1>3. t \in Tables  OBVIOUS
<1>4. UNION Rows \subseteq Ops  BY Zenon DEF Ops
<1> HIDE DEF Tables
<1>5. row \in Rows  BY <1>3, Zenon
<1> HIDE DEF Rows, row
<1>6. t[n + 1] \in UNION Rows  BY <1>2, <1>5, Zenon
<1>7. QED  BY <1>4, <1>6, Zenon

LEMMA OpsOfInstruction ==
    ASSUME NEW f \in Instruction
    PROVE  OpImm(f) \in Ops /\ OpReg(f) \in Ops /\ Priv(f) \in Ops /\ U \in Ops
<1>1. f.funct3 \in 0 .. 7  BY DEF Instruction
<1>2. U \in Ops
  <2>1. Loads[3 + 1] \in Ops  BY TablesHoldOps
  <2>2. QED  BY <2>1 DEF Loads, U
<1>3. OpImms[f.funct3 + 1] \in Ops /\ Adds[f.funct3 + 1] \in Ops
      /\ Subs[f.funct3 + 1] \in Ops /\ MulDivs[f.funct3 + 1] \in Ops
  BY <1>1, TablesHoldOps, Zenon
<1>4. {"SRAI", "ECALL", "EBREAK", "MRET"} \subseteq Ops  BY Zenon DEF Ops
<1>5. QED  BY <1>2, <1>3, <1>4 DEF OpImm, OpReg, Priv

----------------------------------------------------------------------------
Inv == TypeOK /\ RoundTrip

LEMMA InitInv == Init => Inv
<1> SUFFICES ASSUME Init PROVE Inv  OBVIOUS
<1>1. U \in Ops
  <2>1. Loads[3 + 1] \in Ops  BY TablesHoldOps
  <2>2. QED  BY <2>1 DEF Loads, U
<1>2. TypeOK
  <2>1. ImmOf("UNKNOWN", 0)  BY DEF ImmOf
  <2>2. /\ di.valid = FALSE /\ di.op = U /\ di.format = "UNKNOWN" /\ di.imm = 0
        /\ di.rd = 0 /\ di.rs1 = 0 /\ di.rs2 = 0
    BY DEF Init, Zeroed
  <2>3. 0 \in 0 .. 31  OBVIOUS
  <2>4. QED
    BY <1>1, <2>1, <2>2, <2>3, InstructionsAssumption, Zenon DEF Init, TypeOK, Formats
<1>3. RoundTrip  BY DEF Init, Zeroed, RoundTrip
<1>4. QED  BY <1>2, <1>3 DEF Inv

(* What a return must satisfy for the type invariant to hold after it. *)
Sound(valid, op, format, imm, rd, rs1, rs2) ==
    /\ valid \in BOOLEAN /\ op \in Ops /\ format \in Formats /\ ImmOf(format, imm)
    /\ rd \in 0 .. 31 /\ rs1 \in 0 .. 31 /\ rs2 \in 0 .. 31

LEMMA GiveKeepsInv ==
    ASSUME TypeOK, NEW valid, NEW op, NEW format, NEW imm, NEW rd, NEW rs1, NEW rs2,
           Give(valid, op, format, imm, rd, rs1, rs2),
           Sound(valid, op, format, imm, rd, rs1, rs2), RoundTrip'
    PROVE  Inv'
<1>1. /\ instruction' = instruction /\ returned' = TRUE
      /\ di'.valid = valid /\ di'.op = op /\ di'.format = format /\ di'.imm = imm
      /\ di'.rd = rd /\ di'.rs1 = rs1 /\ di'.rs2 = rs2
  BY Zenon DEF Give
<1>2. TypeOK'  BY <1>1, Zenon DEF TypeOK, Sound
<1>3. QED  BY <1>2 DEF Inv

(* The I format with its plain immediate keeps the word, whatever the op. *)
LEMMA GiveIKeepsInv ==
    ASSUME TypeOK, NEW valid \in BOOLEAN, NEW op \in Ops,
           Give(valid, op, "I", ImmI(instruction), instruction.rd, instruction.rs1, 0)
    PROVE  Inv'
<1> DEFINE f == instruction
<1>1. f \in Instruction /\ f' = f  BY DEF TypeOK, Give
<1>2. f.rd \in 0 .. 31 /\ f.rs1 \in 0 .. 31  BY <1>1 DEF Instruction
<1>3. /\ ImmI(f) \in -2048 .. 2047
      /\ f.rs2 = Bits(ImmI(f), 1, 32) /\ f.funct7 = Bits(ImmI(f), 32, 128)
  BY <1>1, ImmIFields
<1> DEFINE imm == ImmI(f)
<1>4. imm \in -2048 .. 2047 /\ f.rs2 = Bits(imm, 1, 32) /\ f.funct7 = Bits(imm, 32, 128)
  BY <1>3
<1>5. di' = [valid |-> valid, op |-> op, format |-> "I", imm |-> imm,
             rd |-> f.rd, rs1 |-> f.rs1, rs2 |-> 0]
  BY DEF Give
<1>6. Give(valid, op, "I", imm, f.rd, f.rs1, 0)  OBVIOUS
<1> HIDE DEF imm
<1>7. RoundTrip'  BY <1>1, <1>4, <1>5 DEF RoundTrip, Encodes
<1>8. Sound(valid, op, "I", imm, f.rd, f.rs1, 0)  BY <1>2, <1>4 DEF Sound, ImmOf, Formats
<1>9. QED  BY <1>6, <1>7, <1>8, GiveKeepsInv, Zenon

LEMMA NextInv == Inv /\ [Next]_vars => Inv'
<1> SUFFICES ASSUME Inv, [Next]_vars PROVE Inv'  OBVIOUS
<1> DEFINE f == instruction
<1> USE DEF Opcode
<1>1. TypeOK /\ f \in Instruction  BY SMT DEF Inv, TypeOK
<1>2. /\ f.rd \in 0 .. 31 /\ f.rs1 \in 0 .. 31 /\ f.rs2 \in 0 .. 31
      /\ f.funct3 \in 0 .. 7 /\ f.funct7 \in 0 .. 127
  BY SMT, <1>1 DEF Instruction
<1>3. OpImm(f) \in Ops /\ OpReg(f) \in Ops /\ Priv(f) \in Ops /\ U \in Ops
  BY SMT, <1>1, OpsOfInstruction
<1>4. {"LUI", "AUIPC", "JAL", "JALR"} \subseteq Ops  BY Zenon DEF Ops
<1>5. CASE DecodeU
  <2> DEFINE imm == ImmU(f)
             op == IF f.opcode = 55 THEN "LUI" ELSE "AUIPC"
  <2>1. Give(TRUE, op, "U", imm, f.rd, 0, 0)  BY <1>5, Zenon DEF DecodeU
  <2>2. di' = [valid |-> TRUE, op |-> op, format |-> "U", imm |-> imm,
               rd |-> f.rd, rs1 |-> 0, rs2 |-> 0] /\ f' = f
    BY SMT, <2>1 DEF Give
  <2>3. op \in Ops  BY SMT, <1>4
  <2>4. /\ imm % 4096 = 0
        /\ f.funct3 = Bits(imm \div 4096, 1, 8) /\ f.rs1 = Bits(imm \div 4096, 8, 32)
        /\ f.rs2 = Bits(imm \div 4096, 256, 32) /\ f.funct7 = Bits(imm \div 4096, 8192, 128)
    BY SMT, <1>1, ImmUFields
  <2> HIDE DEF imm, op
  <2>5. RoundTrip'  BY SMT, <2>2, <2>4 DEF RoundTrip, Encodes
  <2>6. Sound(TRUE, op, "U", imm, f.rd, 0, 0)
    BY <1>2, <2>3, SMT, <2>4 DEF Sound, ImmOf, Formats
  <2>7. QED  BY <1>1, <2>1, <2>5, <2>6, GiveKeepsInv, Zenon
<1>6. CASE DecodeJ
  <2> DEFINE imm == ImmJ(f)
  <2>1. Give(TRUE, "JAL", "J", imm, f.rd, 0, 0)  BY <1>6, Zenon DEF DecodeJ
  <2>2. di' = [valid |-> TRUE, op |-> "JAL", format |-> "J", imm |-> imm,
               rd |-> f.rd, rs1 |-> 0, rs2 |-> 0] /\ f' = f
    BY SMT, <2>1 DEF Give
  <2>3. /\ imm \div 4096 \in -256 .. 255 /\ imm % 2 = 0
        /\ f.funct3 = Bits(imm \div 4096, 1, 8) /\ f.rs1 = Bits(imm \div 4096, 8, 32)
        /\ f.rs2 = 2 * Bits(imm, 2, 16) + Bits(imm, 2048, 2)
        /\ f.funct7 = 64 * Bits(imm \div 4096, 256, 2) + Bits(imm, 32, 64)
    BY SMT, <1>1, ImmJFields
  <2> HIDE DEF imm
  <2>4. RoundTrip'  BY SMT, <2>2, <2>3 DEF RoundTrip, Encodes
  <2>5. Sound(TRUE, "JAL", "J", imm, f.rd, 0, 0)
    BY <1>2, <1>4, SMT, <2>3 DEF Sound, ImmOf, Formats
  <2>6. QED  BY <1>1, <2>1, <2>4, <2>5, GiveKeepsInv, Zenon
<1>7. CASE DecodeJalr
  <2> DEFINE op == IF f.funct3 = 0 THEN "JALR" ELSE U
  <2>1. Give(op # U, op, "I", ImmI(f), f.rd, f.rs1, 0)  BY <1>7 DEF DecodeJalr, GiveI
  <2>2. op \in Ops  BY <1>3, <1>4
  <2>3. QED  BY <1>1, <2>1, <2>2, GiveIKeepsInv
<1>8. CASE DecodeLoad
  <2> DEFINE op == Loads[f.funct3 + 1]
  <2>1. Give(op # U, op, "I", ImmI(f), f.rd, f.rs1, 0)  BY <1>8 DEF DecodeLoad, GiveI
  <2>2. op \in Ops  BY <1>2, TablesHoldOps
  <2>3. QED  BY <1>1, <2>1, <2>2, GiveIKeepsInv
<1>9. CASE DecodeOpImm
  <2> DEFINE op == OpImm(f)
  <2>1. CASE op \in {"SRLI", "SRAI"}
    <3>1. Give(op # U, op, "I", f.rs2, f.rd, f.rs1, 0)
      BY <1>9, <2>1 DEF DecodeOpImm, GiveI
    <3>2. di' = [valid |-> op # U, op |-> op, format |-> "I", imm |-> f.rs2,
                 rd |-> f.rd, rs1 |-> f.rs1, rs2 |-> 0] /\ f' = f
      BY <3>1 DEF Give
    <3>3. f.rs2 = Bits(f.rs2, 1, 32)  BY <1>2 DEF Bits
    <3>4. op \in Ops  BY <1>3
    <3> HIDE DEF op
    <3>5. RoundTrip'  BY <2>1, <3>2, <3>3 DEF RoundTrip, Encodes
    <3>6. Sound(op # U, op, "I", f.rs2, f.rd, f.rs1, 0)
      BY <1>2, <3>4 DEF Sound, ImmOf, Formats
    <3>7. QED  BY <1>1, <3>1, <3>5, <3>6, GiveKeepsInv, Zenon
  <2>2. CASE op \notin {"SRLI", "SRAI"}
    <3>1. Give(op # U, op, "I", ImmI(f), f.rd, f.rs1, 0)
      BY <1>9, <2>2 DEF DecodeOpImm, GiveI
    <3>2. QED  BY <1>1, <1>3, <3>1, GiveIKeepsInv
  <2>3. QED  BY <2>1, <2>2
<1>10. CASE DecodeMiscMem
  <2> DEFINE op == Fences[f.funct3 + 1]
  <2>1. Give(op # U, op, "I", 0, f.rd, f.rs1, 0)  BY <1>10 DEF DecodeMiscMem, GiveI
  <2>2. di' = [valid |-> op # U, op |-> op, format |-> "I", imm |-> 0,
               rd |-> f.rd, rs1 |-> f.rs1, rs2 |-> 0] /\ f' = f
    BY <2>1 DEF Give
  <2>3. op \in Ops  BY <1>2, TablesHoldOps
  <2>4. op \in {U, "FENCE", "FENCE_I"}  BY <1>2 DEF Fences
  <2> HIDE DEF op
  <2>5. RoundTrip'  BY <2>2, <2>4 DEF RoundTrip
  <2>6. Sound(op # U, op, "I", 0, f.rd, f.rs1, 0)
    BY <1>2, <2>3 DEF Sound, ImmOf, Formats
  <2>7. QED  BY <1>1, <2>1, <2>5, <2>6, GiveKeepsInv, Zenon
<1>11. CASE DecodeSystem
  <2> DEFINE op == IF f.funct3 = 0 THEN Priv(f) ELSE Csrs[f.funct3 + 1]
  <2>1. Give(TRUE, op, "I", ImmI(f), f.rd, f.rs1, 0)  BY <1>11 DEF DecodeSystem
  <2>2. Csrs[f.funct3 + 1] \in Ops  BY <1>2, TablesHoldOps
  <2>3. op \in Ops  BY <1>3, <2>2
  <2>4. QED  BY <1>1, <2>1, <2>3, GiveIKeepsInv
<1>12. CASE DecodeB
  <2> DEFINE imm == ImmB(f)
             op == Branches[f.funct3 + 1]
  <2>1. Give(TRUE, op, "B", imm, 0, f.rs1, f.rs2)  BY <1>12 DEF DecodeB
  <2>2. di' = [valid |-> TRUE, op |-> op, format |-> "B", imm |-> imm,
               rd |-> 0, rs1 |-> f.rs1, rs2 |-> f.rs2] /\ f' = f
    BY <2>1 DEF Give
  <2>3. op \in Ops  BY <1>2, TablesHoldOps
  <2>4. /\ imm \in -4096 .. 4095 /\ imm % 2 = 0
        /\ f.rd = 2 * Bits(imm, 2, 16) + Bits(imm, 2048, 2)
        /\ f.funct7 = 64 * Bits(imm, 4096, 2) + Bits(imm, 32, 64)
    BY <1>1, ImmBFields
  <2> HIDE DEF imm, op
  <2>5. RoundTrip'  BY <2>2, <2>4 DEF RoundTrip, Encodes
  <2>6. Sound(TRUE, op, "B", imm, 0, f.rs1, f.rs2)
    BY <1>2, <2>3, <2>4 DEF Sound, ImmOf, Formats
  <2>7. QED  BY <1>1, <2>1, <2>5, <2>6, GiveKeepsInv, Zenon
<1>13. CASE DecodeS
  <2> DEFINE imm == ImmS(f)
             op == Stores[f.funct3 + 1]
  <2>1. Give(TRUE, op, "S", imm, f.rd, f.rs1, f.rs2)  BY <1>13 DEF DecodeS
  <2>2. di' = [valid |-> TRUE, op |-> op, format |-> "S", imm |-> imm,
               rd |-> f.rd, rs1 |-> f.rs1, rs2 |-> f.rs2] /\ f' = f
    BY <2>1 DEF Give
  <2>3. op \in Ops  BY <1>2, TablesHoldOps
  <2>4. /\ imm \in -2048 .. 2047
        /\ f.rd = Bits(imm, 1, 32) /\ f.funct7 = Bits(imm, 32, 128)
    BY <1>1, ImmSFields
  <2> HIDE DEF imm, op
  <2>5. RoundTrip'  BY <2>2, <2>4 DEF RoundTrip, Encodes
  <2>6. Sound(TRUE, op, "S", imm, f.rd, f.rs1, f.rs2)
    BY <1>2, <2>3, <2>4 DEF Sound, ImmOf, Formats
  <2>7. QED  BY <1>1, <2>1, <2>5, <2>6, GiveKeepsInv, Zenon
<1>14. CASE DecodeR
  <2> DEFINE op == OpReg(f)
  <2>1. Give(op # U, op, "R", 0, f.rd, f.rs1, f.rs2)  BY <1>14 DEF DecodeR
  <2>2. di' = [valid |-> op # U, op |-> op, format |-> "R", imm |-> 0,
               rd |-> f.rd, rs1 |-> f.rs1, rs2 |-> f.rs2] /\ f' = f
    BY <2>1 DEF Give
  <2>3. op \in Ops  BY <1>3
  <2> HIDE DEF op
  <2>4. RoundTrip'  BY <2>2 DEF RoundTrip, Encodes
  <2>5. Sound(op # U, op, "R", 0, f.rd, f.rs1, f.rs2)
    BY <1>2, <2>3 DEF Sound, ImmOf, Formats
  <2>6. QED  BY <1>1, <2>1, <2>4, <2>5, GiveKeepsInv, Zenon
<1>15. CASE DecodeUnknown
  BY <1>15 DEF DecodeUnknown, Inv, TypeOK, RoundTrip, Encodes
<1>16. CASE UNCHANGED vars
  BY <1>16 DEF vars, Inv, TypeOK, RoundTrip, Encodes
<1>17. QED
  BY <1>5, <1>6, <1>7, <1>8, <1>9, <1>10, <1>11, <1>12, <1>13, <1>14, <1>15, <1>16 DEF Next

(* Every immediate has the width and the zero bits of its format, for every  *)
(* instruction word.                                                         *)
THEOREM TypeCorrect == Spec => []TypeOK
<1>1. Inv => TypeOK  BY DEF Inv
<1>2. QED  BY InitInv, NextInv, <1>1, PTL DEF Spec

(* The decoded operands encode the word they came from, for every word.      *)
THEOREM NothingLost == Spec => []RoundTrip
<1>1. Inv => RoundTrip  BY DEF Inv
<1>2. QED  BY InitInv, NextInv, <1>1, PTL DEF Spec

----------------------------------------------------------------------------
(* The decoder's tables and the manual's rows are the same, one opcode at a  *)
(* time: a row's operation is its table's entry, and every entry that names  *)
(* an operation has its row.                                                 *)
InTable(r, table, funct7) ==
    /\ r.funct3 \in 0 .. 7 /\ r.funct7 = funct7
    /\ r.op = table[r.funct3 + 1] /\ r.op # U

LEMMA LoadRows ==
    /\ \A r \in RV32IM : r.opcode = 3 => InTable(r, Loads, Any)
    /\ \A k \in 0 .. 7 : Loads[k + 1] # U => Row(Loads[k + 1], 3, k, Any) \in RV32IM
  BY SMTT(60) DEF RV32IM, Row, InTable, Loads, U

LEMMA StoreRows ==
    /\ \A r \in RV32IM : r.opcode = 35 => InTable(r, Stores, Any)
    /\ \A k \in 0 .. 7 : Stores[k + 1] # U => Row(Stores[k + 1], 35, k, Any) \in RV32IM
  BY SMTT(60) DEF RV32IM, Row, InTable, Stores, U

LEMMA BranchRows ==
    /\ \A r \in RV32IM : r.opcode = 99 => InTable(r, Branches, Any)
    /\ \A k \in 0 .. 7 : Branches[k + 1] # U => Row(Branches[k + 1], 99, k, Any) \in RV32IM
  BY SMTT(60) DEF RV32IM, Row, InTable, Branches, U

LEMMA FenceRows ==
    /\ \A r \in RV32IM : r.opcode = 15 => InTable(r, Fences, Any)
    /\ \A k \in 0 .. 7 : Fences[k + 1] # U => Row(Fences[k + 1], 15, k, Any) \in RV32IM
  BY SMTT(60) DEF RV32IM, Row, InTable, Fences, U

LEMMA CsrRows ==
    /\ \A r \in RV32IM : r.opcode = 115 => InTable(r, Csrs, Any)
    /\ \A k \in 0 .. 7 : Csrs[k + 1] # U => Row(Csrs[k + 1], 115, k, Any) \in RV32IM
  BY SMTT(60) DEF RV32IM, Row, InTable, Csrs, U

(* Register operations have a table for each of the three funct7.            *)
LEMMA RegisterRows ==
    /\ \A r \in RV32IM : r.opcode = 51 =>
          InTable(r, Adds, 0) \/ InTable(r, Subs, 32) \/ InTable(r, MulDivs, 1)
    /\ \A k \in 0 .. 7 : /\ Adds[k + 1] # U /\ Row(Adds[k + 1], 51, k, 0) \in RV32IM
                         /\ Subs[k + 1] # U => Row(Subs[k + 1], 51, k, 32) \in RV32IM
                         /\ MulDivs[k + 1] # U /\ Row(MulDivs[k + 1], 51, k, 1) \in RV32IM
<1>1. \A r \in RV32IM : r.opcode = 51 =>
         InTable(r, Adds, 0) \/ InTable(r, Subs, 32) \/ InTable(r, MulDivs, 1)
  BY SMTT(60) DEF RV32IM, Row, InTable, Adds, Subs, MulDivs, U
<1>2. \A k \in 0 .. 7 : Adds[k + 1] # U /\ Row(Adds[k + 1], 51, k, 0) \in RV32IM
  BY SMTT(60) DEF RV32IM, Row, Adds, U
<1>3. \A k \in 0 .. 7 : Subs[k + 1] # U => Row(Subs[k + 1], 51, k, 32) \in RV32IM
  BY SMTT(60) DEF RV32IM, Row, Subs, U
<1>4. \A k \in 0 .. 7 : MulDivs[k + 1] # U /\ Row(MulDivs[k + 1], 51, k, 1) \in RV32IM
  BY SMTT(60) DEF RV32IM, Row, MulDivs, U
<1>5. QED  BY <1>1, <1>2, <1>3, <1>4

(* The immediate operations: a shift has a funct7, the others have not.      *)
LEMMA ImmediateRows ==
    /\ \A r \in RV32IM : r.opcode = 19 =>
          \/ (r.funct3 \notin {1, 5} /\ InTable(r, OpImms, Any))
          \/ (r.funct3 \in {1, 5} /\ InTable(r, OpImms, 0))
          \/ (r.funct3 = 5 /\ r.funct7 = 32 /\ r.op = "SRAI")
    /\ \A k \in 0 .. 7 :
          /\ OpImms[k + 1] # U
          /\ Row(OpImms[k + 1], 19, k, IF k \in {1, 5} THEN 0 ELSE Any) \in RV32IM
    /\ Row("SRAI", 19, 5, 32) \in RV32IM
<1>1. \A r \in RV32IM : r.opcode = 19 =>
          \/ (r.funct3 \notin {1, 5} /\ InTable(r, OpImms, Any))
          \/ (r.funct3 \in {1, 5} /\ InTable(r, OpImms, 0))
          \/ (r.funct3 = 5 /\ r.funct7 = 32 /\ r.op = "SRAI")
  BY SMTT(60) DEF RV32IM, Row, InTable, OpImms, U, Any
<1>2. \A k \in 0 .. 7 :
          /\ OpImms[k + 1] # U
          /\ Row(OpImms[k + 1], 19, k, IF k \in {1, 5} THEN 0 ELSE Any) \in RV32IM
  BY SMTT(60) DEF RV32IM, Row, OpImms, U
<1>3. Row("SRAI", 19, 5, 32) \in RV32IM  BY SMTT(60) DEF RV32IM
<1>4. QED  BY <1>1, <1>2, <1>3

LEMMA SingleRows ==
    /\ \A r \in RV32IM : /\ r.opcode = 55 => r.op = "LUI"
                         /\ r.opcode = 23 => r.op = "AUIPC"
                         /\ r.opcode = 111 => r.op = "JAL"
                         /\ r.opcode = 103 => r.op = "JALR" /\ r.funct3 = 0
                         /\ r.opcode \in {55, 23, 111, 103, 3, 19, 15, 115, 99, 35, 51}
    /\ Row("LUI", 55, Any, Any) \in RV32IM /\ Row("AUIPC", 23, Any, Any) \in RV32IM
    /\ Row("JAL", 111, Any, Any) \in RV32IM /\ Row("JALR", 103, 0, Any) \in RV32IM
  BY SMTT(60) DEF RV32IM, Row

(* What it takes to name the operation of a word that is not one of the      *)
(* three fixed ones.                                                         *)
Names(op, f) ==
    /\ \A r \in RV32IM : Matches(r, f) => op # U /\ r.op = op
    /\ op # U => \E r \in RV32IM : Matches(r, f) /\ r.op = op

NotFixed(f) == f.opcode # 115 \/ f.funct3 # 0

LEMMA NotFixedWord ==
    ASSUME NEW f \in Instruction, NotFixed(f)
    PROVE  \A w \in FixedWords : ~IsWord(w, f)
<1>1. DOMAIN f = {"opcode", "rd", "funct3", "rs1", "rs2", "funct7"}  BY DEF Instruction
<1>2. \A w \in FixedWords : w.opcode = 115 /\ w.funct3 = 0  BY DEF FixedWords, Fixed
<1>3. QED  BY <1>1, <1>2 DEF IsWord, NotFixed

LEMMA NamesMeaning ==
    ASSUME NEW f \in Instruction, NEW op, NotFixed(f), Names(op, f)
    PROVE  {op} \ {U} = Meaning(f)
<1>1. \A x : x \in Meaning(f) <=> \E r \in RV32IM : Matches(r, f) /\ x = r.op
  BY NotFixedWord, Zenon DEF Meaning
<1>2. QED  BY <1>1 DEF Names

LEMMA TableNames ==
    ASSUME NEW f \in Instruction, NEW table,
           \A r \in RV32IM : r.opcode = f.opcode => InTable(r, table, Any),
           \A k \in 0 .. 7 : table[k + 1] # U => Row(table[k + 1], f.opcode, k, Any) \in RV32IM
    PROVE  Names(table[f.funct3 + 1], f)
<1>1. f.funct3 \in 0 .. 7  BY DEF Instruction
<1>2. \A r \in RV32IM : Matches(r, f) => table[f.funct3 + 1] # U /\ r.op = table[f.funct3 + 1]
  BY <1>1 DEF Matches, InTable, Any
<1>3. ASSUME table[f.funct3 + 1] # U
      PROVE  \E r \in RV32IM : Matches(r, f) /\ r.op = table[f.funct3 + 1]
  BY <1>1, <1>3 DEF Matches, Row
<1>4. QED  BY <1>2, <1>3 DEF Names

LEMMA OpRegNames == ASSUME NEW f \in Instruction, f.opcode = 51  PROVE Names(OpReg(f), f)
<1>1. f.funct3 \in 0 .. 7 /\ f.funct7 \in 0 .. 127  BY DEF Instruction
<1>2. \A r \in RV32IM : Matches(r, f) => OpReg(f) # U /\ r.op = OpReg(f)
  BY <1>1, RegisterRows DEF Matches, InTable, OpReg, Any
<1>3. ASSUME OpReg(f) # U PROVE \E r \in RV32IM : Matches(r, f) /\ r.op = OpReg(f)
  BY <1>1, <1>3, RegisterRows DEF Matches, Row, OpReg
<1>4. QED  BY <1>2, <1>3 DEF Names

LEMMA OpImmNames == ASSUME NEW f \in Instruction, f.opcode = 19  PROVE Names(OpImm(f), f)
<1>1. f.funct3 \in 0 .. 7 /\ f.funct7 \in 0 .. 127  BY DEF Instruction
<1>2. \A r \in RV32IM : Matches(r, f) => OpImm(f) # U /\ r.op = OpImm(f)
  BY <1>1, ImmediateRows DEF Matches, InTable, OpImm, Any, U
<1>3. ASSUME OpImm(f) # U PROVE \E r \in RV32IM : Matches(r, f) /\ r.op = OpImm(f)
  <2>1. CASE OpImm(f) = "SRAI" /\ f.funct3 = 5 /\ f.funct7 = 32
    BY <2>1, ImmediateRows DEF Matches, Row
  <2>2. CASE OpImm(f) = OpImms[f.funct3 + 1] /\ (f.funct3 \in {1, 5} => f.funct7 = 0)
    BY <1>1, <2>2, ImmediateRows DEF Matches, Row
  <2>3. QED  BY <1>1, <1>3, <2>1, <2>2 DEF OpImm
<1>4. QED  BY <1>2, <1>3 DEF Names

(* The SYSTEM words with funct3 = 0 are the fixed ones, whole.               *)
LEMMA PrivMeaning ==
    ASSUME NEW f \in Instruction, f.opcode = 115, f.funct3 = 0
    PROVE  {Priv(f)} \ {U} = Meaning(f)
<1>1. \A r \in RV32IM : ~Matches(r, f)
  BY CsrRows, SMT DEF Matches, InTable, Csrs, U, Any
<1>2. \A x : x \in Meaning(f) <=> \E w \in FixedWords : IsWord(w, f) /\ x = w.op
  BY <1>1, Zenon DEF Meaning
<1>3. DOMAIN f = {"opcode", "rd", "funct3", "rs1", "rs2", "funct7"}  BY DEF Instruction
<1>4. \A w : IsWord(w, f) <=> /\ w.opcode = f.opcode /\ w.rd = f.rd /\ w.funct3 = f.funct3
                              /\ w.rs1 = f.rs1 /\ w.rs2 = f.rs2 /\ w.funct7 = f.funct7
  BY <1>3 DEF IsWord
<1>5. \A x : x \in Meaning(f) <=>
         f.rd = 0 /\ f.rs1 = 0 /\ \/ (f.rs2 = 0 /\ f.funct7 = 0 /\ x = "ECALL")
                                  \/ (f.rs2 = 1 /\ f.funct7 = 0 /\ x = "EBREAK")
                                  \/ (f.rs2 = 2 /\ f.funct7 = 24 /\ x = "MRET")
  BY <1>2, <1>4 DEF FixedWords, Fixed
<1>6. \A x : x \in Meaning(f) <=> x = Priv(f) /\ x # U
  BY <1>5 DEF Priv, U, Instruction
<1>7. QED  BY <1>6

----------------------------------------------------------------------------
(* Before the call returns the record is the zeroed one.                     *)
IsaInv == DecodesIsa /\ (~returned => di.op = U)

LEMMA IsaInit == Init => IsaInv
  BY DEF Init, Zeroed, IsaInv, DecodesIsa

LEMMA GiveKeepsIsa ==
    ASSUME NEW valid, NEW op, NEW format, NEW imm, NEW rd, NEW rs1, NEW rs2,
           Give(valid, op, format, imm, rd, rs1, rs2), {op} \ {U} = Meaning(instruction)
    PROVE  IsaInv'
<1>1. di'.op = op /\ returned' = TRUE /\ instruction' = instruction  BY DEF Give
<1>2. QED  BY <1>1 DEF IsaInv, DecodesIsa, Meaning

LEMMA IsaStep == TypeOK /\ IsaInv /\ [Next]_vars => IsaInv'
<1> SUFFICES ASSUME TypeOK, IsaInv, [Next]_vars PROVE IsaInv'  OBVIOUS
<1> DEFINE f == instruction
<1>1. f \in Instruction  BY DEF TypeOK
<1>2. f.funct3 \in 0 .. 7  BY <1>1 DEF Instruction
<1>3. CASE DecodeU
  <2>1. Names(IF f.opcode = 55 THEN "LUI" ELSE "AUIPC", f) /\ NotFixed(f)
    <3>1. f.opcode \in {55, 23}  BY <1>3 DEF DecodeU, Opcode
    <3>2. CASE f.opcode = 55
      BY <1>1, <3>2, SingleRows DEF Names, Matches, Row, NotFixed, U
    <3>3. CASE f.opcode = 23
      BY <1>1, <3>3, SingleRows DEF Names, Matches, Row, NotFixed, U
    <3>4. QED  BY <3>1, <3>2, <3>3
  <2>2. {IF f.opcode = 55 THEN "LUI" ELSE "AUIPC"} \ {U} = Meaning(f)
    BY <1>1, <2>1, NamesMeaning
  <2>3. QED  BY <1>3, <2>2, GiveKeepsIsa, Zenon DEF DecodeU
<1>4. CASE DecodeJ
  <2>1. Names("JAL", f) /\ NotFixed(f)
    BY <1>1, <1>4, SingleRows DEF DecodeJ, Opcode, Names, Matches, Row, NotFixed, U
  <2>2. {"JAL"} \ {U} = Meaning(f)  BY <1>1, <2>1, NamesMeaning
  <2>3. QED  BY <1>4, <2>2, GiveKeepsIsa, Zenon DEF DecodeJ
<1>5. CASE DecodeJalr
  <2>1. Names(IF f.funct3 = 0 THEN "JALR" ELSE U, f) /\ NotFixed(f)
    BY <1>1, <1>2, <1>5, SingleRows DEF DecodeJalr, Opcode, Names, Matches, Row, NotFixed, U, Any
  <2>2. {IF f.funct3 = 0 THEN "JALR" ELSE U} \ {U} = Meaning(f)  BY <1>1, <2>1, NamesMeaning
  <2>3. QED  BY <1>5, <2>2, GiveKeepsIsa, Zenon DEF DecodeJalr, GiveI
<1>6. CASE DecodeLoad
  <2>1. f.opcode = 3 /\ NotFixed(f)  BY <1>6 DEF DecodeLoad, Opcode, NotFixed
  <2>2. Names(Loads[f.funct3 + 1], f)  BY <1>1, <2>1, LoadRows, TableNames
  <2>3. {Loads[f.funct3 + 1]} \ {U} = Meaning(f)  BY <1>1, <2>1, <2>2, NamesMeaning
  <2>4. QED  BY <1>6, <2>3, GiveKeepsIsa, Zenon DEF DecodeLoad, GiveI
<1>7. CASE DecodeOpImm
  <2>1. f.opcode = 19 /\ NotFixed(f)  BY <1>7 DEF DecodeOpImm, Opcode, NotFixed
  <2>2. Names(OpImm(f), f)  BY <1>1, <2>1, OpImmNames
  <2>3. {OpImm(f)} \ {U} = Meaning(f)  BY <1>1, <2>1, <2>2, NamesMeaning
  <2>4. QED  BY <1>7, <2>3, GiveKeepsIsa, Zenon DEF DecodeOpImm, GiveI
<1>8. CASE DecodeMiscMem
  <2>1. f.opcode = 15 /\ NotFixed(f)  BY <1>8 DEF DecodeMiscMem, Opcode, NotFixed
  <2>2. Names(Fences[f.funct3 + 1], f)  BY <1>1, <2>1, FenceRows, TableNames
  <2>3. {Fences[f.funct3 + 1]} \ {U} = Meaning(f)  BY <1>1, <2>1, <2>2, NamesMeaning
  <2>4. QED  BY <1>8, <2>3, GiveKeepsIsa, Zenon DEF DecodeMiscMem, GiveI
<1>9. CASE DecodeSystem
  <2>1. f.opcode = 115  BY <1>9 DEF DecodeSystem, Opcode
  <2> DEFINE op == IF f.funct3 = 0 THEN Priv(f) ELSE Csrs[f.funct3 + 1]
  <2>2. {op} \ {U} = Meaning(f)
    <3>1. CASE f.funct3 = 0  BY <1>1, <2>1, <3>1, PrivMeaning
    <3>2. CASE f.funct3 # 0
      <4>1. Names(Csrs[f.funct3 + 1], f)  BY <1>1, <2>1, CsrRows, TableNames
      <4>2. QED  BY <1>1, <3>2, <4>1, NamesMeaning DEF NotFixed
    <3>3. QED  BY <3>1, <3>2
  <2>3. QED  BY <1>9, <2>2, GiveKeepsIsa, Zenon DEF DecodeSystem
<1>10. CASE DecodeB
  <2>1. f.opcode = 99 /\ NotFixed(f)  BY <1>10 DEF DecodeB, Opcode, NotFixed
  <2>2. Names(Branches[f.funct3 + 1], f)  BY <1>1, <2>1, BranchRows, TableNames
  <2>3. {Branches[f.funct3 + 1]} \ {U} = Meaning(f)  BY <1>1, <2>1, <2>2, NamesMeaning
  <2>4. QED  BY <1>10, <2>3, GiveKeepsIsa, Zenon DEF DecodeB
<1>11. CASE DecodeS
  <2>1. f.opcode = 35 /\ NotFixed(f)  BY <1>11 DEF DecodeS, Opcode, NotFixed
  <2>2. Names(Stores[f.funct3 + 1], f)  BY <1>1, <2>1, StoreRows, TableNames
  <2>3. {Stores[f.funct3 + 1]} \ {U} = Meaning(f)  BY <1>1, <2>1, <2>2, NamesMeaning
  <2>4. QED  BY <1>11, <2>3, GiveKeepsIsa, Zenon DEF DecodeS
<1>12. CASE DecodeR
  <2>1. f.opcode = 51 /\ NotFixed(f)  BY <1>12 DEF DecodeR, Opcode, NotFixed
  <2>2. Names(OpReg(f), f)  BY <1>1, <2>1, OpRegNames
  <2>3. {OpReg(f)} \ {U} = Meaning(f)  BY <1>1, <2>1, <2>2, NamesMeaning
  <2>4. QED  BY <1>12, <2>3, GiveKeepsIsa, Zenon DEF DecodeR
<1>13. CASE DecodeUnknown
  <2>1. di' = di /\ f' = f /\ ~returned /\ NotFixed(f)
        /\ f.opcode \notin {55, 23, 111, 103, 3, 19, 15, 115, 99, 35, 51}
    BY <1>13 DEF DecodeUnknown, Opcode, NotFixed
  <2>2. Names(U, f)  BY <2>1, SingleRows DEF Names, Matches
  <2>3. di.op = U /\ {U} \ {U} = Meaning(f)
    BY <1>1, <2>1, <2>2, NamesMeaning DEF IsaInv
  <2>4. QED  BY <1>13, <2>1, <2>3 DEF IsaInv, DecodesIsa, DecodeUnknown
<1>14. CASE UNCHANGED vars
  BY <1>14 DEF vars, IsaInv, DecodesIsa, Meaning
<1>15. QED
  BY <1>3, <1>4, <1>5, <1>6, <1>7, <1>8, <1>9, <1>10, <1>11, <1>12, <1>13, <1>14 DEF Next

(* The decoder names exactly the operation the manual gives each word, and   *)
(* none to a word the manual leaves illegal, for every instruction word.     *)
THEOREM DecodesExactly == Spec => []DecodesIsa
<1>1. IsaInv => DecodesIsa  BY DEF IsaInv
<1>2. QED  BY IsaInit, IsaStep, TypeCorrect, <1>1, PTL DEF Spec

----------------------------------------------------------------------------
(* The groups of the disassembler's switch, as lists.                        *)
LEMMA Groups ==
    /\ Listed(Branches) = {"BEQ", "BNE", "BLT", "BGE", "BLTU", "BGEU"}
    /\ Listed(Stores) = {"SB", "SH", "SW"}
    /\ IndexedOps = {"LB", "LH", "LW", "LBU", "LHU", "JALR"}
    /\ Listed(OpImms) = {"ADDI", "SLLI", "SLTI", "SLTIU", "XORI", "SRLI", "ORI", "ANDI"}
    /\ SignedImms = {"ADDI", "SLTI", "XORI", "ORI", "ANDI"}
    /\ BaseRegOps = {"ADD", "SLL", "SLT", "SLTU", "XOR", "SRL", "OR", "AND", "SUB", "SRA"}
    /\ UnhandledOps = {"MUL", "MULH", "MULHSU", "MULHU", "DIV", "DIVU", "REM", "REMU"}
    /\ Listed(Csrs) = {"CSRRW", "CSRRS", "CSRRC", "CSRRWI", "CSRRSI", "CSRRCI"}
<1> USE DEF U
<1>1. ASSUME NEW t
      PROVE  Listed(t) = {t[1], t[2], t[3], t[4], t[5], t[6], t[7], t[8]} \ {U}
  BY DEF Listed
<1>2. Listed(Branches) = {"BEQ", "BNE", "BLT", "BGE", "BLTU", "BGEU"}
  BY <1>1, SMT DEF Branches
<1>3. Listed(Stores) = {"SB", "SH", "SW"}  BY <1>1, SMT DEF Stores
<1>4. IndexedOps = {"LB", "LH", "LW", "LBU", "LHU", "JALR"}
  <2>1. Listed(Loads) = {"LB", "LH", "LW", "LBU", "LHU"}  BY <1>1, SMT DEF Loads
  <2>2. QED  BY <2>1 DEF IndexedOps
<1>5. Listed(OpImms) = {"ADDI", "SLLI", "SLTI", "SLTIU", "XORI", "SRLI", "ORI", "ANDI"}
  BY <1>1, SMT DEF OpImms
<1>6. SignedImms = {"ADDI", "SLTI", "XORI", "ORI", "ANDI"}
  BY <1>5, SMT DEF SignedImms, ShiftImms
<1>7. BaseRegOps = {"ADD", "SLL", "SLT", "SLTU", "XOR", "SRL", "OR", "AND", "SUB", "SRA"}
  <2>1. Listed(Adds) = {"ADD", "SLL", "SLT", "SLTU", "XOR", "SRL", "OR", "AND"}
    BY <1>1, SMT DEF Adds
  <2>2. Listed(Subs) = {"SUB", "SRA"}  BY <1>1, SMT DEF Subs
  <2>3. QED  BY <2>1, <2>2 DEF BaseRegOps
<1>8. UnhandledOps = {"MUL", "MULH", "MULHSU", "MULHU", "DIV", "DIVU", "REM", "REMU"}
  BY <1>1, SMT DEF UnhandledOps, MulDivs
<1>9. Listed(Csrs) = {"CSRRW", "CSRRS", "CSRRC", "CSRRWI", "CSRRSI", "CSRRCI"}
  BY <1>1, SMT DEF Csrs
<1>10. QED  BY <1>2, <1>3, <1>4, <1>5, <1>6, <1>7, <1>8, <1>9

(* The operations of each group, by name.                                    *)
Members(op) ==
    /\ op \in UpperOps <=> op \in {"LUI", "AUIPC"}
    /\ op \in Listed(Branches) <=> op \in {"BEQ", "BNE", "BLT", "BGE", "BLTU", "BGEU"}
    /\ op \in Listed(Stores) <=> op \in {"SB", "SH", "SW"}
    /\ op \in IndexedOps <=> op \in {"LB", "LH", "LW", "LBU", "LHU", "JALR"}
    /\ op \in Listed(OpImms) \cup ShiftImms <=>
          op \in {"ADDI", "SLTI", "XORI", "ORI", "ANDI", "SLTIU", "SLLI", "SRLI", "SRAI"}
    /\ op \in SignedImms <=> op \in {"ADDI", "SLTI", "XORI", "ORI", "ANDI"}
    /\ op \in ShiftImms <=> op \in {"SLLI", "SRLI", "SRAI"}
    /\ op \in BaseRegOps <=>
          op \in {"ADD", "SLL", "SLT", "SLTU", "XOR", "SRL", "OR", "AND", "SUB", "SRA"}
    /\ op \in UnhandledOps <=>
          op \in {"MUL", "MULH", "MULHSU", "MULHU", "DIV", "DIVU", "REM", "REMU"}
    /\ op \in Listed(Csrs) <=>
          op \in {"CSRRW", "CSRRS", "CSRRC", "CSRRWI", "CSRRSI", "CSRRCI"}
    /\ op \in CsrRegs <=> op \in {"CSRRW", "CSRRS", "CSRRC"}
    /\ op \in CsrImms <=> op \in {"CSRRWI", "CSRRSI", "CSRRCI"}
    /\ op \in BareOps <=> op \in {"FENCE", "FENCE_I", "ECALL", "EBREAK", "MRET"}

LEMMA GroupMembers == \A op : Members(op)
<1>1. Listed(OpImms) \cup ShiftImms =
           {"ADDI", "SLTI", "XORI", "ORI", "ANDI", "SLTIU", "SLLI", "SRLI", "SRAI"}
  BY Groups, Zenon DEF ShiftImms
<1>2. CsrRegs = {"CSRRW", "CSRRS", "CSRRC"}  BY Groups DEF CsrRegs, CsrImms
<1>3. QED  BY <1>1, <1>2, Groups, Zenon DEF Members, UpperOps, ShiftImms, CsrImms, BareOps

(* What follows the mnemonic, one group at a time.                           *)
LEMMA TextArms ==
    ASSUME NEW d
    PROVE  /\ d.op \in UpperOps =>
                 OperandText(d) = <<Abi(d.rd), Field(Upper20(d.imm))>>
           /\ d.op = "JAL" => OperandText(d) = <<Abi(d.rd), Signed32(d.imm)>>
           /\ d.op \in IndexedOps =>
                 OperandText(d) = <<Abi(d.rd), Signed32(d.imm), Abi(d.rs1)>>
           /\ d.op \in Listed(Branches) =>
                 OperandText(d) = <<Abi(d.rs1), Abi(d.rs2), Signed32(d.imm)>>
           /\ d.op \in Listed(Stores) => OperandText(d) = StoreOperands(d)
           /\ d.op \in SignedImms =>
                 OperandText(d) = <<Abi(d.rd), Abi(d.rs1), Signed32(d.imm)>>
           /\ d.op = "SLTIU" =>
                 OperandText(d) = <<Abi(d.rd), Abi(d.rs1), Unsigned32(d.imm)>>
           /\ d.op \in ShiftImms =>
                 OperandText(d) = <<Abi(d.rd), Abi(d.rs1), Unsigned32(d.imm % 32)>>
           /\ d.op \in BaseRegOps =>
                 OperandText(d) = <<Abi(d.rd), Abi(d.rs1), Abi(d.rs2)>>
           /\ d.op \in CsrRegs =>
                 OperandText(d) = <<Abi(d.rd), Field(d.imm % 4096), Abi(d.rs1)>>
           /\ d.op \in CsrImms =>
                 OperandText(d) = <<Abi(d.rd), Field(d.imm % 4096), Unsigned32(d.rs1)>>
<1>1. Members(d.op)  BY GroupMembers
<1>2. QED  BY <1>1, SMT DEF Members, OperandText

(* Each way of writing a value reads back as the value.                      *)
LEMMA ReadArms ==
    /\ \A r \in 0 .. 31 : Read(Abi(r)) = r
    /\ \A v : Read(Signed32(v)) = v
    /\ \A v : Read(Field(v)) = v
    /\ \A v : Read(Unsigned32(v)) = FromHalves((v \div 65536) % 65536, v % 65536)
<1>1. \A r \in 0 .. 31 : Abi(r) = [kind |-> "abi", reg |-> r]  BY DEF Abi
<1>2. ASSUME NEW t
      PROVE  /\ t.kind = "abi" => Read(t) = t.reg
             /\ t.kind \in {"%d", "0x%x"} => Read(t) = t.value
             /\ t.kind = "%u" => Read(t) = FromHalves(t.high, t.low)
  BY SMT DEF Read
<1>3. ASSUME NEW v PROVE Read(Signed32(v)) = v /\ Read(Field(v)) = v
  BY <1>2 DEF Signed32, Field
<1>4. ASSUME NEW v PROVE Read(Unsigned32(v)) = FromHalves((v \div 65536) % 65536, v % 65536)
  <2> DEFINE h == (v \div 65536) % 65536
             l == v % 65536
  <2>1. Unsigned32(v) = [kind |-> "%u", high |-> h, low |-> l]  BY DEF Unsigned32
  <2> HIDE DEF h, l
  <2>2. Read(Unsigned32(v)) = FromHalves(h, l)  BY <1>2, <2>1
  <2>3. QED  BY <2>2 DEF h, l
<1>5. QED  BY <1>1, <1>2, <1>3, <1>4

(* A small value survives %u, a CSR address its mask, an upper immediate its *)
(* shift.                                                                    *)
LEMMA UnsignedReads ==
    ASSUME NEW v \in Int, v >= -2048, v <= 2047
    PROVE  Read(Unsigned32(v)) = v
<1>1. Read(Unsigned32(v)) = FromHalves((v \div 65536) % 65536, v % 65536)  BY ReadArms
<1>2. CASE v >= 0
  <2>1. (v \div 65536) % 65536 = 0 /\ v % 65536 = v  BY <1>2
  <2>2. QED  BY <1>1, <2>1 DEF SignExtend, FromHalves
<1>3. CASE v < 0
  <2>1. v \div 65536 = -1 /\ v % 65536 = v + 65536  BY <1>3
  <2>2. (v \div 65536) % 65536 = 65535  BY <2>1, SMT
  <2>3. QED  BY <1>1, <2>1, <2>2 DEF SignExtend, FromHalves
<1>4. QED  BY <1>2, <1>3

LEMMA CsrFieldReads ==
    ASSUME NEW v \in Int, v >= -2048, v <= 2047
    PROVE  SignExtend(v % 4096, 2048) = v
  BY DEF SignExtend

LEMMA UpperReads ==
    ASSUME NEW v \in Int, v % 4096 = 0, v \div 4096 >= -524288, v \div 4096 <= 524287
    PROVE  FromUpper20(Upper20(v)) = v
<1> DEFINE q == v \div 4096
<1>1. q \in Int /\ v = 4096 * q  OBVIOUS
<1>2. q >= -524288 /\ q <= 524287  OBVIOUS
<1> HIDE DEF q
<1>3. SignExtend(q % 1048576, 524288) = q  BY <1>1, <1>2 DEF SignExtend
<1>4. QED  BY <1>1, <1>3 DEF q, Upper20, FromUpper20

(* The tokens of a line: the mnemonic, then the operands.                    *)
LEMMA Tokens ==
    ASSUME NEW n, NEW a, NEW b, NEW c
    PROVE  /\ (<<n>> \o <<>>)[1] = n
           /\ (<<n>> \o <<a, b>>)[1] = n /\ (<<n>> \o <<a, b>>)[2] = a
           /\ (<<n>> \o <<a, b>>)[3] = b
           /\ (<<n>> \o <<a, b, c>>)[1] = n /\ (<<n>> \o <<a, b, c>>)[2] = a
           /\ (<<n>> \o <<a, b, c>>)[3] = b /\ (<<n>> \o <<a, b, c>>)[4] = c
  BY SMT

(* What the manual's syntax makes of a line, by its mnemonic.                *)
LEMMA ReadLineArms ==
    ASSUME NEW l, NEW op, l[1] = Name(op)
    PROVE  /\ op \in Listed(Branches) =>
                 ReadLine(l) = [rs1 |-> Read(l[2]), rs2 |-> Read(l[3]), imm |-> Read(l[4])]
           /\ op \in Listed(Stores) =>
                 ReadLine(l) = [rs2 |-> Read(l[2]), imm |-> Read(l[3]), rs1 |-> Read(l[4])]
           /\ op \in IndexedOps =>
                 ReadLine(l) = [rd |-> Read(l[2]), imm |-> Read(l[3]), rs1 |-> Read(l[4])]
           /\ op \in BaseRegOps =>
                 ReadLine(l) = [rd |-> Read(l[2]), rs1 |-> Read(l[3]), rs2 |-> Read(l[4])]
           /\ op \in Listed(OpImms) \cup ShiftImms =>
                 ReadLine(l) = [rd |-> Read(l[2]), rs1 |-> Read(l[3]), imm |-> Read(l[4])]
           /\ op \in Listed(Csrs) =>
                 ReadLine(l) = [rd |-> Read(l[2]), imm |-> SignExtend(Read(l[3]), 2048),
                                rs1 |-> Read(l[4])]
           /\ op \in UpperOps =>
                 ReadLine(l) = [rd |-> Read(l[2]),
                                imm |-> FromUpper20(Read(l[3]))]
           /\ op = "JAL" => ReadLine(l) = [rd |-> Read(l[2]), imm |-> Read(l[3])]
<1>1. l[1].text = op  BY DEF Name
<1>2. l[1 + 1] = l[2] /\ l[2 + 1] = l[3] /\ l[3 + 1] = l[4]  OBVIOUS
<1>3. Members(op)  BY GroupMembers
<1>4. QED  BY <1>1, <1>2, <1>3, SMT DEF Members, ReadLine

----------------------------------------------------------------------------
(* The formats that the decoder gives to the operations it names.            *)
Fits(op, format) ==
    \/ format = "R" /\ op \in BaseRegOps \cup UnhandledOps
    \/ format = "I" /\ op \in IndexedOps \cup Listed(OpImms) \cup ShiftImms
                              \cup Listed(Csrs) \cup BareOps
    \/ format = "S" /\ op \in Listed(Stores)
    \/ format = "B" /\ op \in Listed(Branches)
    \/ format = "U" /\ op \in UpperOps
    \/ format = "J" /\ op = "JAL"

UpperImm(v) == v % 4096 = 0 /\ v \div 4096 >= -524288 /\ v \div 4096 <= 524287

(* What a decoded instruction must be for its line to give it back.          *)
Printable(d) ==
    /\ d.valid
    /\ Fits(d.op, d.format)
    /\ d.imm \in Int
    /\ d.format = "I" => d.imm >= -2048 /\ d.imm <= 2047
    /\ d.format = "U" => UpperImm(d.imm)
    /\ d.op \in ShiftImms => d.imm \in 0 .. 31
    /\ d.rd \in 0 .. 31 /\ d.rs1 \in 0 .. 31 /\ d.rs2 \in 0 .. 31

LEMMA FieldArms ==
    /\ FieldsOf("R") = {"rd", "rs1", "rs2"} /\ FieldsOf("I") = {"rd", "rs1", "imm"}
    /\ FieldsOf("S") = {"rs1", "rs2", "imm"} /\ FieldsOf("B") = {"rs1", "rs2", "imm"}
    /\ FieldsOf("U") = {"rd", "imm"} /\ FieldsOf("J") = {"rd", "imm"}
  BY SMT DEF FieldsOf

(* The line of a printable instruction is its mnemonic and its operands.     *)
LEMMA LineOf ==
    ASSUME NEW d, Printable(d), d.op \notin UnhandledOps
    PROVE  Line(d) = <<Name(d.op)>> \o OperandText(d)
<1>1. Members(d.op)  BY GroupMembers
<1>2. d.op # U  BY <1>1, SMT DEF Printable, Fits, Members, U
<1>3. QED  BY <1>2 DEF Line, Printable

(* A line of two or three operands, read back token by token.                *)
LEMMA ReadThree ==
    ASSUME NEW d, NEW a, NEW b, NEW c, Printable(d), d.op \notin UnhandledOps,
           OperandText(d) = <<a, b, c>>
    PROVE  /\ Line(d)[1] = Name(d.op)
           /\ Line(d)[2] = a /\ Line(d)[3] = b /\ Line(d)[4] = c
<1>1. Line(d) = <<Name(d.op)>> \o <<a, b, c>>  BY LineOf
<1>2. QED  BY <1>1, Tokens

LEMMA ReadTwo ==
    ASSUME NEW d, NEW a, NEW b, Printable(d), d.op \notin UnhandledOps,
           OperandText(d) = <<a, b>>
    PROVE  Line(d)[1] = Name(d.op) /\ Line(d)[2] = a /\ Line(d)[3] = b
<1>1. Line(d) = <<Name(d.op)>> \o <<a, b>>  BY LineOf
<1>2. QED  BY <1>1, Tokens

(* Every group of operations reads back the fields of its format.            *)
LEMMA PrintableReadsBack ==
    ASSUME NEW d, Printable(d), d.op \notin UnhandledOps
    PROVE  /\ Line(d)[1] = Name(d.op)
           /\ d.op \notin BareOps => \A g \in FieldsOf(d.format) : ReadLine(Line(d))[g] = d[g]
<1> DEFINE l == Line(d)
           op == d.op
           imm == d.imm
           Reads == /\ l[1] = Name(op)
                    /\ \A g \in FieldsOf(d.format) : ReadLine(l)[g] = d[g]
<1>1. Members(op)  BY GroupMembers
<1>2. /\ Read(Abi(d.rd)) = d.rd /\ Read(Abi(d.rs1)) = d.rs1 /\ Read(Abi(d.rs2)) = d.rs2
      /\ Read(Signed32(imm)) = imm
  BY ReadArms DEF Printable
<1>3. CASE op \in UpperOps
  <2>1. d.format = "U"  BY <1>1, <1>3, SMT DEF Members, Printable, Fits
  <2>2. OperandText(d) = <<Abi(d.rd), Field(Upper20(imm))>>  BY <1>3, TextArms
  <2>3. l[1] = Name(op) /\ l[2] = Abi(d.rd) /\ l[3] = Field(Upper20(imm))
    BY <2>2, ReadTwo, Zenon
  <2>4. ReadLine(l) = [rd |-> Read(l[2]), imm |-> FromUpper20(Read(l[3]))]
    BY <1>3, <2>3, ReadLineArms, SMT
  <2>5. Read(l[3]) = Upper20(imm)  BY <2>3, ReadArms
  <2>6. FromUpper20(Upper20(imm)) = imm  BY <2>1, UpperReads DEF Printable, UpperImm
  <2>7. ReadLine(l) = [rd |-> d.rd, imm |-> imm]  BY <1>2, <2>3, <2>4, <2>5, <2>6
  <2>8. QED  BY <2>1, <2>3, <2>7, FieldArms
<1>4. CASE op = "JAL"
  <2>1. d.format = "J"  BY <1>1, <1>4, SMT DEF Members, Printable, Fits
  <2>2. OperandText(d) = <<Abi(d.rd), Signed32(imm)>>  BY <1>4, TextArms
  <2>3. l[1] = Name(op) /\ l[2] = Abi(d.rd) /\ l[3] = Signed32(imm)
    BY <2>2, ReadTwo, Zenon
  <2>4. ReadLine(l) = [rd |-> Read(l[2]), imm |-> Read(l[3])]
    BY <1>4, <2>3, ReadLineArms, SMT
  <2>5. QED  BY <1>2, <2>1, <2>3, <2>4, FieldArms
<1>5. CASE op \in IndexedOps
  <2>1. d.format = "I"  BY <1>1, <1>5, SMT DEF Members, Printable, Fits
  <2>2. OperandText(d) = <<Abi(d.rd), Signed32(imm), Abi(d.rs1)>>  BY <1>5, TextArms
  <2>3. l[1] = Name(op) /\ l[2] = Abi(d.rd) /\ l[3] = Signed32(imm) /\ l[4] = Abi(d.rs1)
    BY <2>2, ReadThree, Zenon
  <2>4. ReadLine(l) = [rd |-> Read(l[2]), imm |-> Read(l[3]), rs1 |-> Read(l[4])]
    BY <1>5, <2>3, ReadLineArms, SMT
  <2>5. QED  BY <1>2, <2>1, <2>3, <2>4, FieldArms
<1>6. CASE op \in Listed(Branches)
  <2>1. d.format = "B"  BY <1>1, <1>6, SMT DEF Members, Printable, Fits
  <2>2. OperandText(d) = <<Abi(d.rs1), Abi(d.rs2), Signed32(imm)>>  BY <1>6, TextArms
  <2>3. l[1] = Name(op) /\ l[2] = Abi(d.rs1) /\ l[3] = Abi(d.rs2) /\ l[4] = Signed32(imm)
    BY <2>2, ReadThree, Zenon
  <2>4. ReadLine(l) = [rs1 |-> Read(l[2]), rs2 |-> Read(l[3]), imm |-> Read(l[4])]
    BY <1>6, <2>3, ReadLineArms, SMT
  <2>5. QED  BY <1>2, <2>1, <2>3, <2>4, FieldArms
<1>7. CASE op \in Listed(Stores)
  <2>1. d.format = "S"  BY <1>1, <1>7, SMT DEF Members, Printable, Fits
  <2>2. OperandText(d) = <<Abi(d.rs2), Signed32(imm), Abi(d.rs1)>>
    BY <1>7, TextArms DEF StoreOperands
  <2>3. l[1] = Name(op) /\ l[2] = Abi(d.rs2) /\ l[3] = Signed32(imm) /\ l[4] = Abi(d.rs1)
    BY <2>2, ReadThree, Zenon
  <2>4. ReadLine(l) = [rs2 |-> Read(l[2]), imm |-> Read(l[3]), rs1 |-> Read(l[4])]
    BY <1>7, <2>3, ReadLineArms, SMT
  <2>5. QED  BY <1>2, <2>1, <2>3, <2>4, FieldArms
<1>8. CASE op \in BaseRegOps
  <2>1. d.format = "R"  BY <1>1, <1>8, SMT DEF Members, Printable, Fits
  <2>2. OperandText(d) = <<Abi(d.rd), Abi(d.rs1), Abi(d.rs2)>>  BY <1>8, TextArms
  <2>3. l[1] = Name(op) /\ l[2] = Abi(d.rd) /\ l[3] = Abi(d.rs1) /\ l[4] = Abi(d.rs2)
    BY <2>2, ReadThree, Zenon
  <2>4. ReadLine(l) = [rd |-> Read(l[2]), rs1 |-> Read(l[3]), rs2 |-> Read(l[4])]
    BY <1>8, <2>3, ReadLineArms, SMT
  <2>5. QED  BY <1>2, <2>1, <2>3, <2>4, FieldArms
<1>9. CASE op \in Listed(OpImms) \cup ShiftImms
  <2>1. d.format = "I"  BY <1>1, <1>9, SMT DEF Members, Printable, Fits
  <2>2. imm \in Int /\ imm >= -2048 /\ imm <= 2047 /\ (op \in ShiftImms => imm \in 0 .. 31)
    BY <2>1 DEF Printable
  <2>3. PICK t : OperandText(d) = <<Abi(d.rd), Abi(d.rs1), t>> /\ Read(t) = imm
    <3>1. CASE op \in SignedImms  BY <1>2, <3>1, TextArms
    <3>2. CASE op = "SLTIU"
      <4>1. Read(Unsigned32(imm)) = imm  BY <2>2, UnsignedReads
      <4>2. QED  BY <3>2, <4>1, TextArms
    <3>3. CASE op \in ShiftImms
      <4>1. imm % 32 = imm /\ Read(Unsigned32(imm)) = imm  BY <2>2, <3>3, UnsignedReads
      <4>2. QED  BY <3>3, <4>1, TextArms
    <3>4. QED  BY <1>1, <1>9, <3>1, <3>2, <3>3, SMT DEF Members
  <2>4. l[1] = Name(op) /\ l[2] = Abi(d.rd) /\ l[3] = Abi(d.rs1) /\ l[4] = t
    BY <2>3, ReadThree
  <2>5. ReadLine(l) = [rd |-> Read(l[2]), rs1 |-> Read(l[3]), imm |-> Read(l[4])]
    BY <1>9, <2>4, ReadLineArms, SMT
  <2>6. QED  BY <1>2, <2>1, <2>3, <2>4, <2>5, FieldArms
<1>10. CASE op \in Listed(Csrs)
  <2>1. d.format = "I"  BY <1>1, <1>10, SMT DEF Members, Printable, Fits
  <2>2. imm \in Int /\ imm >= -2048 /\ imm <= 2047 /\ d.rs1 \in 0 .. 31  BY <2>1 DEF Printable
  <2>3. PICK t : OperandText(d) = <<Abi(d.rd), Field(imm % 4096), t>> /\ Read(t) = d.rs1
    <3>1. CASE op \in CsrRegs  BY <1>2, <3>1, TextArms
    <3>2. CASE op \in CsrImms
      <4>1. d.rs1 \in Int /\ d.rs1 >= -2048 /\ d.rs1 <= 2047  BY <2>2
      <4>2. Read(Unsigned32(d.rs1)) = d.rs1  BY <4>1, UnsignedReads
      <4>3. QED  BY <3>2, <4>2, TextArms
    <3>3. QED  BY <1>1, <1>10, <3>1, <3>2, SMT DEF Members
  <2>4. l[1] = Name(op) /\ l[2] = Abi(d.rd) /\ l[3] = Field(imm % 4096) /\ l[4] = t
    BY <2>3, ReadThree
  <2>5. ReadLine(l) = [rd |-> Read(l[2]), imm |-> SignExtend(Read(l[3]), 2048),
                       rs1 |-> Read(l[4])]
    BY <1>10, <2>4, ReadLineArms, SMT
  <2>6. SignExtend(Read(l[3]), 2048) = imm
    <3>1. Read(l[3]) = imm % 4096  BY <2>4, ReadArms
    <3>2. SignExtend(imm % 4096, 2048) = imm  BY <2>2, CsrFieldReads
    <3>3. QED  BY <3>1, <3>2
  <2>7. QED  BY <1>2, <2>1, <2>3, <2>4, <2>5, <2>6, FieldArms
<1>11. CASE op \in BareOps
  <2>1. OperandText(d) = <<>>  BY <1>1, <1>11, SMT DEF Members, OperandText
  <2>2. l = <<Name(op)>> \o <<>>  BY <2>1, LineOf
  <2>3. l[1] = Name(op)  BY <2>2, Tokens
  <2>4. QED  BY <1>11, <2>3
<1>12. QED
  BY <1>3, <1>4, <1>5, <1>6, <1>7, <1>8, <1>9, <1>10, <1>11 DEF Printable, Fits

----------------------------------------------------------------------------
(* What the decoder returns can be printed and read back.                    *)
LineInv == /\ returned /\ di.op # U => Printable(di)
           /\ ~returned => di.op = U

LEMMA LineInit == Init => LineInv
  BY DEF Init, Zeroed, LineInv

(* A table's entry that is an operation is listed.                           *)
LEMMA ListedEntry ==
    ASSUME NEW t, NEW n \in 0 .. 7, t[n + 1] # U
    PROVE  t[n + 1] \in Listed(t)
<1>1. n + 1 \in 1 .. 8  OBVIOUS
<1>2. QED  BY <1>1, Zenon DEF Listed

(* The record that a format function fills.                                  *)
Filled(valid, op, format, imm, rd, rs1, rs2) ==
    [valid |-> valid, op |-> op, format |-> format, imm |-> imm,
     rd |-> rd, rs1 |-> rs1, rs2 |-> rs2]

LEMMA GiveKeepsLine ==
    ASSUME NEW valid, NEW op, NEW format, NEW imm, NEW rd, NEW rs1, NEW rs2,
           Give(valid, op, format, imm, rd, rs1, rs2),
           op # U => Printable(Filled(valid, op, format, imm, rd, rs1, rs2))
    PROVE  LineInv'
<1> DEFINE r == Filled(valid, op, format, imm, rd, rs1, rs2)
<1>1. di' = r /\ returned' = TRUE  BY DEF Give, Filled
<1>2. r.op = op  BY DEF Filled
<1>3. op # U => Printable(r)  OBVIOUS
<1> HIDE DEF r
<1>4. op # U => Printable(di')  BY <1>1, <1>3, Zenon
<1>5. Printable(di') => Printable(di)'  BY SMT DEF Printable, Fits, UpperImm
<1>6. QED  BY <1>1, <1>2, <1>4, <1>5, Zenon DEF LineInv

(* What makes it printable.                                                  *)
LEMMA FilledPrints ==
    ASSUME NEW valid, valid = TRUE, NEW op, NEW format, NEW imm \in Int,
           NEW rd \in 0 .. 31, NEW rs1 \in 0 .. 31, NEW rs2 \in 0 .. 31,
           Fits(op, format),
           format = "I" => imm >= -2048 /\ imm <= 2047,
           format = "U" => UpperImm(imm),
           op \in ShiftImms => imm \in 0 .. 31
    PROVE  Printable(Filled(valid, op, format, imm, rd, rs1, rs2))
  BY DEF Printable, Filled

(* The I format with its plain immediate.                                    *)
LEMMA GiveIKeepsLine ==
    ASSUME TypeOK, NEW valid, NEW op,
           Give(valid, op, "I", ImmI(instruction), instruction.rd, instruction.rs1, 0),
           op # U => valid = TRUE /\ Fits(op, "I"),
           op \in ShiftImms => instruction.funct7 = 0
    PROVE  LineInv'
<1> DEFINE f == instruction
           imm == ImmI(f)
<1>1. f \in Instruction  BY DEF TypeOK
<1>2. f.rd \in 0 .. 31 /\ f.rs1 \in 0 .. 31 /\ f.rs2 \in 0 .. 31 /\ 0 \in 0 .. 31
  BY <1>1 DEF Instruction
<1>3. imm \in Int /\ imm >= -2048 /\ imm <= 2047  BY <1>1, ImmIFields, SMT
<1>4. op \in ShiftImms => imm \in 0 .. 31
  <2>1. f.funct7 = 0 => imm = f.rs2  BY <1>2, SMT DEF ImmI, SignExtend
  <2>2. QED  BY <1>2, <2>1
<1>5. Give(valid, op, "I", imm, f.rd, f.rs1, 0) /\ "I" # "U"  OBVIOUS
<1> HIDE DEF imm
<1>6. op # U => Printable(Filled(valid, op, "I", imm, f.rd, f.rs1, 0))
  BY <1>2, <1>3, <1>4, <1>5, SMT DEF Printable, Filled
<1>7. QED  BY <1>5, <1>6, GiveKeepsLine, Zenon

LEMMA LineStep == TypeOK /\ LineInv /\ [Next]_vars => LineInv'
<1> SUFFICES ASSUME TypeOK, LineInv, [Next]_vars PROVE LineInv'  OBVIOUS
<1> DEFINE f == instruction
<1>1. f \in Instruction  BY DEF TypeOK
<1>2. /\ f.rd \in 0 .. 31 /\ f.rs1 \in 0 .. 31 /\ f.rs2 \in 0 .. 31 /\ f.funct3 \in 0 .. 7
      /\ f.funct7 \in 0 .. 127 /\ 0 \in 0 .. 31
  BY <1>1 DEF Instruction
<1>3. \A op : Members(op)  BY GroupMembers
<1>4. CASE DecodeU
  <2> DEFINE imm == ImmU(f)
             op == IF f.opcode = 55 THEN "LUI" ELSE "AUIPC"
  <2>1. Give(TRUE, op, "U", imm, f.rd, 0, 0)  BY <1>4, Zenon DEF DecodeU
  <2>2. Fits(op, "U") /\ op \notin ShiftImms
    BY DEF Fits, UpperOps, ShiftImms
  <2>3. imm \in Int /\ UpperImm(imm)  BY <1>1, ImmUFields, SMT DEF UpperImm
  <2> HIDE DEF imm, op
  <2>4. Printable(Filled(TRUE, op, "U", imm, f.rd, 0, 0))  BY <1>2, <2>2, <2>3, FilledPrints, Zenon
  <2>5. QED  BY <2>1, <2>4, GiveKeepsLine, Zenon
<1>5. CASE DecodeJ
  <2> DEFINE imm == ImmJ(f)
  <2>1. Give(TRUE, "JAL", "J", imm, f.rd, 0, 0)  BY <1>5, Zenon DEF DecodeJ
  <2>2. Fits("JAL", "J") /\ "JAL" \notin ShiftImms  BY DEF Fits, ShiftImms
  <2>3. imm \in Int  BY <1>1, ImmsAreIntegers, SMT
  <2> HIDE DEF imm
  <2>4. Printable(Filled(TRUE, "JAL", "J", imm, f.rd, 0, 0))  BY <1>2, <2>2, <2>3, FilledPrints, Zenon
  <2>5. QED  BY <2>1, <2>4, GiveKeepsLine, Zenon
<1>6. CASE DecodeJalr
  <2> DEFINE op == IF f.funct3 = 0 THEN "JALR" ELSE U
  <2>1. Give(op # U, op, "I", ImmI(f), f.rd, f.rs1, 0)  BY <1>6 DEF DecodeJalr, GiveI
  <2>2. (op # U => Fits(op, "I")) /\ op \notin ShiftImms
    BY DEF Fits, IndexedOps, ShiftImms, U
  <2> HIDE DEF op
  <2>3. QED  BY <2>1, <2>2, GiveIKeepsLine
<1>7. CASE DecodeLoad
  <2> DEFINE op == Loads[f.funct3 + 1]
  <2>1. Give(op # U, op, "I", ImmI(f), f.rd, f.rs1, 0)  BY <1>7 DEF DecodeLoad, GiveI
  <2>2. op # U => op \in IndexedOps  BY <1>2, ListedEntry DEF IndexedOps
  <2> HIDE DEF op
  <2>3. (op # U => Fits(op, "I")) /\ op \notin ShiftImms
    BY <1>3, <2>2, SMT DEF Fits, Members, U
  <2>4. QED  BY <2>1, <2>3, GiveIKeepsLine
<1>8. CASE DecodeOpImm
  <2> DEFINE op == OpImm(f)
  <2>1. op # U => op \in Listed(OpImms) \cup ShiftImms
    BY <1>2, ListedEntry DEF OpImm, ShiftImms
  <2>2. op # U => Fits(op, "I")  BY <2>1 DEF Fits
  <2>3. op \in ShiftImms => op \in {"SRLI", "SRAI"} \/ f.funct7 = 0
    BY <1>2 DEF OpImm, OpImms, ShiftImms, U
  <2>4. CASE op \in {"SRLI", "SRAI"}
    <3>1. Give(op # U, op, "I", f.rs2, f.rd, f.rs1, 0)
      BY <1>8, <2>4 DEF DecodeOpImm, GiveI
    <3> HIDE DEF op
    <3>2. f.rs2 \in Int /\ f.rs2 >= -2048 /\ f.rs2 <= 2047  BY <1>2
    <3>3. op # U => Printable(Filled(op # U, op, "I", f.rs2, f.rd, f.rs1, 0))
      <4> DEFINE valid == op # U
      <4>1. op # U => valid = TRUE  BY Zenon
      <4> HIDE DEF valid
      <4>2. op # U => Printable(Filled(valid, op, "I", f.rs2, f.rd, f.rs1, 0))
        BY <1>2, <2>2, <3>2, <4>1, SMT DEF Printable, Filled
      <4>3. QED  BY <4>2 DEF valid
    <3>4. QED  BY <3>1, <3>3, GiveKeepsLine, Zenon
  <2>5. CASE op \notin {"SRLI", "SRAI"}
    <3>1. Give(op # U, op, "I", ImmI(f), f.rd, f.rs1, 0)
      BY <1>8, <2>5 DEF DecodeOpImm, GiveI
    <3> HIDE DEF op
    <3>2. QED  BY <2>2, <2>3, <2>5, <3>1, GiveIKeepsLine
  <2>6. QED  BY <2>4, <2>5
<1>9. CASE DecodeMiscMem
  <2> DEFINE op == Fences[f.funct3 + 1]
  <2>1. Give(op # U, op, "I", 0, f.rd, f.rs1, 0)  BY <1>9 DEF DecodeMiscMem, GiveI
  <2>2. op # U => op \in BareOps  BY <1>2 DEF Fences, BareOps, U
  <2> HIDE DEF op
  <2>3. op # U => Fits(op, "I")  BY <2>2 DEF Fits
  <2>4. 0 \in Int /\ 0 >= -2048 /\ 0 <= 2047  OBVIOUS
  <2>5. op # U => Printable(Filled(op # U, op, "I", 0, f.rd, f.rs1, 0))
    <3> DEFINE valid == op # U
    <3>1. op # U => valid = TRUE  BY Zenon
    <3> HIDE DEF valid
    <3>2. op # U => Printable(Filled(valid, op, "I", 0, f.rd, f.rs1, 0))
      BY <1>2, <2>3, <2>4, <3>1, SMT DEF Printable, Filled
    <3>3. QED  BY <3>2 DEF valid
  <2>6. QED  BY <2>1, <2>5, GiveKeepsLine, Zenon
<1>10. CASE DecodeSystem
  <2> DEFINE op == IF f.funct3 = 0 THEN Priv(f) ELSE Csrs[f.funct3 + 1]
  <2>1. Give(TRUE, op, "I", ImmI(f), f.rd, f.rs1, 0)  BY <1>10 DEF DecodeSystem
  <2>2. op # U => op \in BareOps \/ op \in Listed(Csrs)
    <3>1. Priv(f) # U => Priv(f) \in BareOps  BY DEF Priv, BareOps
    <3>2. Csrs[f.funct3 + 1] # U => Csrs[f.funct3 + 1] \in Listed(Csrs)
      BY <1>2, ListedEntry
    <3>3. QED  BY <3>1, <3>2
  <2> HIDE DEF op
  <2>3. (op # U => Fits(op, "I")) /\ op \notin ShiftImms
    BY <1>3, <2>2, SMT DEF Fits, Members, U
  <2>4. QED  BY <2>1, <2>3, GiveIKeepsLine
<1>11. CASE DecodeB
  <2> DEFINE op == Branches[f.funct3 + 1]
             imm == ImmB(f)
  <2>1. Give(TRUE, op, "B", imm, 0, f.rs1, f.rs2)  BY <1>11 DEF DecodeB
  <2>2. op # U => op \in Listed(Branches)  BY <1>2, ListedEntry
  <2>3. imm \in Int  BY <1>1, ImmsAreIntegers, SMT
  <2> HIDE DEF op, imm
  <2>4. (op # U => Fits(op, "B")) /\ op \notin ShiftImms
    BY <1>3, <2>2, SMT DEF Fits, Members, U
  <2>5. op # U => Printable(Filled(TRUE, op, "B", imm, 0, f.rs1, f.rs2))
    BY <1>2, <2>3, <2>4, FilledPrints, Zenon
  <2>6. QED  BY <2>1, <2>5, GiveKeepsLine, Zenon
<1>12. CASE DecodeS
  <2> DEFINE op == Stores[f.funct3 + 1]
             imm == ImmS(f)
  <2>1. Give(TRUE, op, "S", imm, f.rd, f.rs1, f.rs2)  BY <1>12 DEF DecodeS
  <2>2. op # U => op \in Listed(Stores)  BY <1>2, ListedEntry
  <2>3. imm \in Int  BY <1>1, ImmsAreIntegers, SMT
  <2> HIDE DEF op, imm
  <2>4. (op # U => Fits(op, "S")) /\ op \notin ShiftImms
    BY <1>3, <2>2, SMT DEF Fits, Members, U
  <2>5. op # U => Printable(Filled(TRUE, op, "S", imm, f.rd, f.rs1, f.rs2))
    BY <1>2, <2>3, <2>4, FilledPrints, Zenon
  <2>6. QED  BY <2>1, <2>5, GiveKeepsLine, Zenon
<1>13. CASE DecodeR
  <2> DEFINE op == OpReg(f)
  <2>1. Give(op # U, op, "R", 0, f.rd, f.rs1, f.rs2)  BY <1>13 DEF DecodeR
  <2>2. op # U => op \in BaseRegOps \cup UnhandledOps
    BY <1>2, ListedEntry DEF OpReg, BaseRegOps, UnhandledOps
  <2> HIDE DEF op
  <2>3. (op # U => Fits(op, "R")) /\ op \notin ShiftImms /\ 0 \in Int
    BY <1>3, <2>2, SMT DEF Fits, Members, U
  <2>4. op # U => Printable(Filled(op # U, op, "R", 0, f.rd, f.rs1, f.rs2))
    <3>1. op # U => (op # U) = TRUE  BY Zenon
    <3>2. QED  BY <1>2, <2>3, <3>1, FilledPrints, Zenon
  <2>5. QED  BY <2>1, <2>4, GiveKeepsLine, Zenon
<1>14. CASE DecodeUnknown
  BY <1>14 DEF DecodeUnknown, Opcode, LineInv
<1>15. CASE UNCHANGED vars
  BY <1>15 DEF vars, LineInv
<1>16. QED
  BY <1>4, <1>5, <1>6, <1>7, <1>8, <1>9, <1>10, <1>11, <1>12, <1>13, <1>14, <1>15 DEF Next

(* Nothing of a legal instruction is lost on the way to its text: for every  *)
(* instruction word of the manual but the M extension's, the line names the  *)
(* operation and, read back, gives every field that makes up the word.       *)
THEOREM LinesReadBack == Spec => []LineReadsBack
<1>1. LineInv /\ DecodesIsa => LineReadsBack
  <2> SUFFICES ASSUME LineInv, DecodesIsa, returned,
                      NEW op \in Meaning(instruction) \ UnhandledOps
               PROVE  /\ Line(di)[1] = Name(op)
                      /\ op \notin BareOps =>
                            \A g \in FieldsOf(di.format) : ReadLine(Line(di))[g] = di[g]
    BY DEF LineReadsBack
  <2>1. di.op = op /\ op # U  BY DEF DecodesIsa
  <2>2. Printable(di) /\ di.op \notin UnhandledOps  BY <2>1 DEF LineInv
  <2>3. QED  BY <2>1, <2>2, PrintableReadsBack
<1>2. QED  BY LineInit, LineStep, TypeCorrect, DecodesExactly, <1>1, PTL DEF Spec
=============================================================================
