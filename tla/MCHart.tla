------------------------------- MODULE MCHart -------------------------------
(***************************************************************************)
(* Model-checking instance of Hart: every program of Length instructions   *)
(* taken from Table, placed at address 0.  A word that is no index of      *)
(* Table, such as an empty cell or data, decodes as an illegal             *)
(* instruction.                                                            *)
(***************************************************************************)
EXTENDS Hart, TLC, Bitwise

CONSTANTS Table, Length

MCAnd == [p \in ByteVal \X ByteVal |-> p[1] & p[2]]
MCOr  == [p \in ByteVal \X ByteVal |-> p[1] | p[2]]
MCXor == [p \in ByteVal \X ByteVal |-> p[1] ^^ p[2]]

Minus(n) == WordSize - n

(* An instruction that names no CSR, one that does, and an illegal one. *)
I(op, rd, rs1, rs2, imm) ==
    [valid |-> TRUE, op |-> op, rd |-> rd, rs1 |-> rs1, rs2 |-> rs2, imm |-> imm,
     csr |-> "unimplemented"]
C(op, rd, rs1, name) == [I(op, rd, rs1, 0, 0) EXCEPT !.csr = name]
Invalid == [I("UNKNOWN", 0, 0, 0, 0) EXCEPT !.valid = FALSE]

MCDecode(w) == IF w \in 1 .. Len(Table) THEN Table[w] ELSE Invalid

Region(start, end, kind, size) ==
    [active |-> TRUE, start |-> start, end |-> end, kind |-> kind, size |-> size]

(* The RAM with words[0], words[1], ... at the start of a slot's region,    *)
(* little-endian, and zeroes elsewhere.                                     *)
Image(s, words) ==
    [c \in RamCell |-> IF c[1] = s /\ c[2] \div 4 \in DOMAIN words
                       THEN ByteOf(words[c[2] \div 4], c[2] % 4) ELSE 0]
Programs == {Image(0, p) : p \in [0 .. Length - 1 -> 0 .. Len(Table)]}

----------------------------------------------------------------------------
(* Loads, stores, branches and the register groups.  Slot 0 is the program, *)
(* slot 1 a data RAM, slot 2 TOHOST inside slot 1's range, as in the        *)
(* emulator's map: an access may start below it and straddle it, or run off *)
(* the end of the RAM.                                                      *)
DataMap == 0 :> Region(0, 12, "ram", 12) @@
           1 :> Region(64, 80, "ram", 16) @@
           2 :> Region(72, 76, "tohost", 0)

DataTable == <<
    I("ADDI", 1, 0, 0, Minus(1)),
    I("ADDI", 1, 0, 0, 65),
    I("ADDI", 1, 0, 0, 70),
    I("ADDI", 2, 0, 0, Minus(3)),
    I("LUI", 2, 0, 0, 32768),
    I("LB", 1, 1, 0, 0),
    I("LHU", 2, 1, 0, 1),
    I("LW", 2, 1, 0, 0),
    I("LW", 0, 1, 0, 7),
    I("SB", 1, 1, 2, 1),
    I("SH", 0, 1, 2, 0),
    I("SW", 2, 1, 2, 0),
    I("SW", 2, 1, 1, 2),
    I("SW", 0, 0, 2, 4),                  \* overwrites the program
    I("XOR", 2, 1, 2, 0),
    I("SRA", 1, 2, 1, 0),
    I("DIV", 1, 2, 1, 0),
    I("DIVU", 2, 2, 1, 0),
    I("REM", 2, 2, 1, 0),
    I("BLT", 0, 2, 1, 8),
    I("BNE", 0, 1, 2, Minus(2)),
    I("JALR", 1, 1, 0, Minus(62)),
    I("AUIPC", 2, 0, 0, 4),
    I("FENCE", 1, 0, 0, 0),
    C("CSRRS", 1, 0, "misa"),
    C("CSRRC", 2, 1, "mscratch"),
    C("CSRRW", 1, 2, "unimplemented"),
    C("CSRRW", 2, 1, "mepc"),
    I("MRET", 0, 0, 0, 0) >>             \* to a misaligned pc, from x1 = 65
=============================================================================
