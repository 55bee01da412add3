------------------------------ MODULE Decoder ------------------------------
(***************************************************************************)
(* rve_decode_instruction (src/decoder.c, opcodes in include/rve/riscv.h). *)
(*                                                                         *)
(* An instruction word is given by the six fields of the R format, which   *)
(* partition its 32 bits; the immediates of the other formats are made of  *)
(* the same bits, and are read as signed integers.  One call of the        *)
(* decoder is one step, by the format function that the opcode selects.    *)
(***************************************************************************)
EXTENDS Integers

CONSTANT Instructions   \* the words decoded: all of Instruction in the code

Instruction == [opcode : 0 .. 127, rd : 0 .. 31, funct3 : 0 .. 7, rs1 : 0 .. 31,
                rs2 : 0 .. 31, funct7 : 0 .. 127]

ASSUME InstructionsAssumption == Instructions \subseteq Instruction

VARIABLES
    instruction,        \* the argument
    di,                 \* the decoded instruction
    returned            \* whether the call has returned

vars == <<instruction, di, returned>>

----------------------------------------------------------------------------
(* Immediates, by format.  SignExtend gives the two's complement reading of *)
(* v, whose top bit weighs half.                                            *)
SignExtend(v, half) == IF v >= half THEN v - 2 * half ELSE v

(* Mutants of ImmS and ImmB: not extended; bits 7 and 31 exchanged.          *)
ImmSUnsigned(f) == 32 * f.funct7 + f.rd
ImmBExchanged(f) == SignExtend(4096 * (f.rd % 2) + 2048 * (f.funct7 \div 64)
                               + 32 * (f.funct7 % 64) + 2 * (f.rd \div 2), 4096)

ImmI(f) == SignExtend(32 * f.funct7 + f.rs2, 2048)
ImmS(f) == SignExtend(32 * f.funct7 + f.rd, 2048)
ImmB(f) == SignExtend(4096 * (f.funct7 \div 64) + 2048 * (f.rd % 2)
                      + 32 * (f.funct7 % 64) + 2 * (f.rd \div 2), 4096)
ImmU(f) == 4096 * (8192 * SignExtend(f.funct7, 64) + 256 * f.rs2 + 8 * f.rs1 + f.funct3)
ImmJ(f) == 4096 * SignExtend(256 * (f.funct7 \div 64) + 8 * f.rs1 + f.funct3, 256)
           + 2048 * (f.rs2 % 2) + 32 * (f.funct7 % 64) + 2 * (f.rs2 \div 2)

----------------------------------------------------------------------------
(* The operations of an opcode, by funct3. *)
U == "UNKNOWN"
Loads    == <<"LB", "LH", "LW", U, "LBU", "LHU", U, U>>
Stores   == <<"SB", "SH", "SW", U, U, U, U, U>>
Branches == <<"BEQ", "BNE", U, U, "BLT", "BGE", "BLTU", "BGEU">>
OpImms   == <<"ADDI", "SLLI", "SLTI", "SLTIU", "XORI", "SRLI", "ORI", "ANDI">>
Adds     == <<"ADD", "SLL", "SLT", "SLTU", "XOR", "SRL", "OR", "AND">>
Subs     == <<"SUB", U, U, U, U, "SRA", U, U>>
MulDivs  == <<"MUL", "MULH", "MULHSU", "MULHU", "DIV", "DIVU", "REM", "REMU">>
Fences   == <<"FENCE", "FENCE_I", U, U, U, U, U, U>>
Csrs     == <<U, "CSRRW", "CSRRS", "CSRRC", U, "CSRRWI", "CSRRSI", "CSRRCI">>

(* OP-IMM: the two shifts look at funct7 as well. *)
OpImm(f) == IF f.funct3 = 1 /\ f.funct7 # 0 THEN U
            ELSE IF f.funct3 = 5 /\ f.funct7 = 32 THEN "SRAI"
            ELSE IF f.funct3 = 5 /\ f.funct7 # 0 THEN U
            ELSE OpImms[f.funct3 + 1]

(* OP, by funct7 first. *)
OpReg(f) == IF f.funct7 = 0 THEN Adds[f.funct3 + 1]
            ELSE IF f.funct7 = 32 THEN Subs[f.funct3 + 1]
            ELSE IF f.funct7 = 1 THEN MulDivs[f.funct3 + 1]
            ELSE U

(* Mutant of Priv: MRET is taken for its funct7 with rs2 = 0, as the comment *)
(* in decode_instruction_i has it.                                           *)
PrivByComment(f) == IF f.rd # 0 \/ f.rs1 # 0 THEN U
                    ELSE IF f.funct7 = 0 /\ f.rs2 = 0 THEN "ECALL"
                    ELSE IF f.funct7 = 0 /\ f.rs2 = 1 THEN "EBREAK"
                    ELSE IF f.funct7 = 24 /\ f.rs2 = 0 THEN "MRET"
                    ELSE U

(* SYSTEM with funct3 = 0: the funct12 is made of funct7 and rs2. *)
Priv(f) == IF f.rd # 0 \/ f.rs1 # 0 THEN U
           ELSE IF f.funct7 = 0 /\ f.rs2 = 0 THEN "ECALL"
           ELSE IF f.funct7 = 0 /\ f.rs2 = 1 THEN "EBREAK"
           ELSE IF f.funct7 = 24 /\ f.rs2 = 2 THEN "MRET"
           ELSE U

----------------------------------------------------------------------------
Ops == {"LUI", "AUIPC", "JAL", "JALR", "SRAI", "ECALL", "EBREAK", "MRET"}
        \cup UNION {{t[k] : k \in 1 .. 8} : t \in {Loads, Stores, Branches, OpImms,
                                                   Adds, Subs, MulDivs, Fences, Csrs}}
Formats == {"UNKNOWN", "R", "I", "S", "B", "U", "J"}

(* What an immediate of a format is: its width, and the bits that are zero. *)
ImmOf(format, imm) ==
    /\ format \in {"I", "S"} => imm \in -2048 .. 2047
    /\ format = "B" => imm \in -4096 .. 4095 /\ imm % 2 = 0
    /\ format = "J" => imm \div 4096 \in -256 .. 255 /\ imm % 2 = 0
    /\ format = "U" => imm % 4096 = 0
    /\ format \in {"R", "UNKNOWN"} => imm = 0

(* Every immediate is the sign extension of its format's width, which is     *)
(* what makes the sext() calls of the execute stage no-ops, and every        *)
(* register field indexes the register file.                                 *)
TypeOK == /\ instruction \in Instruction
          /\ returned \in BOOLEAN
          /\ di.valid \in BOOLEAN /\ di.op \in Ops /\ di.format \in Formats
          /\ di.rd \in 0 .. 31 /\ di.rs1 \in 0 .. 31 /\ di.rs2 \in 0 .. 31
          /\ ImmOf(di.format, di.imm)

----------------------------------------------------------------------------
Zeroed == [valid |-> FALSE, op |-> U, format |-> "UNKNOWN", imm |-> 0,
           rd |-> 0, rs1 |-> 0, rs2 |-> 0]

Init == /\ instruction \in Instructions
        /\ di = Zeroed
        /\ returned = FALSE

(* The call returns: with the fields a format function sets, a field it      *)
(* does not set being zero.                                                  *)
Give(valid, op, format, imm, rd, rs1, rs2) ==
    /\ di' = [valid |-> valid, op |-> op, format |-> format, imm |-> imm,
              rd |-> rd, rs1 |-> rs1, rs2 |-> rs2]
    /\ returned' = TRUE
    /\ UNCHANGED instruction

(* A function that returns early leaves an unknown operation invalid. *)
GiveI(op, imm) == Give(op # U, op, "I", imm, instruction.rd, instruction.rs1, 0)

Opcode(codes) == ~returned /\ instruction.opcode \in codes

DecodeU == Opcode({55, 23}) /\
    Give(TRUE, IF instruction.opcode = 55 THEN "LUI" ELSE "AUIPC", "U",
         ImmU(instruction), instruction.rd, 0, 0)

DecodeJ == Opcode({111}) /\
    Give(TRUE, "JAL", "J", ImmJ(instruction), instruction.rd, 0, 0)

DecodeJalr == Opcode({103}) /\
    GiveI(IF instruction.funct3 = 0 THEN "JALR" ELSE U, ImmI(instruction))

DecodeLoad == Opcode({3}) /\ GiveI(Loads[instruction.funct3 + 1], ImmI(instruction))

(* SRLI and SRAI keep the shift amount alone. *)
DecodeOpImm == Opcode({19}) /\
    GiveI(OpImm(instruction), IF OpImm(instruction) \in {"SRLI", "SRAI"} THEN instruction.rs2
                              ELSE ImmI(instruction))

DecodeMiscMem == Opcode({15}) /\ GiveI(Fences[instruction.funct3 + 1], 0)

(* An unknown SYSTEM instruction is left valid, with no operation. *)
DecodeSystem == Opcode({115}) /\
    Give(TRUE, IF instruction.funct3 = 0 THEN Priv(instruction)
               ELSE Csrs[instruction.funct3 + 1],
         "I", ImmI(instruction), instruction.rd, instruction.rs1, 0)

(* So are an unknown branch and an unknown store. *)
DecodeB == Opcode({99}) /\
    Give(TRUE, Branches[instruction.funct3 + 1], "B", ImmB(instruction),
         0, instruction.rs1, instruction.rs2)

DecodeS == Opcode({35}) /\
    Give(TRUE, Stores[instruction.funct3 + 1], "S", ImmS(instruction),
         instruction.rd, instruction.rs1, instruction.rs2)

DecodeR == Opcode({51}) /\
    Give(OpReg(instruction) # U, OpReg(instruction), "R", 0,
         instruction.rd, instruction.rs1, instruction.rs2)

(* Any other opcode: the zeroed record. *)
DecodeUnknown == /\ Opcode(0 .. 127 \ {55, 23, 111, 103, 3, 19, 15, 115, 99, 35, 51})
                 /\ returned' = TRUE
                 /\ UNCHANGED <<instruction, di>>

Next == \/ DecodeU \/ DecodeJ \/ DecodeJalr \/ DecodeLoad \/ DecodeOpImm \/ DecodeMiscMem
        \/ DecodeSystem \/ DecodeB \/ DecodeS \/ DecodeR \/ DecodeUnknown

Spec == Init /\ [][Next]_vars

----------------------------------------------------------------------------
(* The reference: how the RISC-V manual encodes each operation, as opcode,   *)
(* funct3 and funct7, with Any where the format has no such field.           *)
Any == -1
Row(op, opcode, funct3, funct7) ==
    [op |-> op, opcode |-> opcode, funct3 |-> funct3, funct7 |-> funct7]
RV32IM == { Row("LUI", 55, Any, Any), Row("AUIPC", 23, Any, Any), Row("JAL", 111, Any, Any),
    Row("JALR", 103, 0, Any), Row("BEQ", 99, 0, Any), Row("BNE", 99, 1, Any),
    Row("BLT", 99, 4, Any), Row("BGE", 99, 5, Any), Row("BLTU", 99, 6, Any),
    Row("BGEU", 99, 7, Any), Row("LB", 3, 0, Any), Row("LH", 3, 1, Any),
    Row("LW", 3, 2, Any), Row("LBU", 3, 4, Any), Row("LHU", 3, 5, Any),
    Row("SB", 35, 0, Any), Row("SH", 35, 1, Any), Row("SW", 35, 2, Any),
    Row("ADDI", 19, 0, Any), Row("SLTI", 19, 2, Any), Row("SLTIU", 19, 3, Any),
    Row("XORI", 19, 4, Any), Row("ORI", 19, 6, Any), Row("ANDI", 19, 7, Any),
    Row("SLLI", 19, 1, 0), Row("SRLI", 19, 5, 0), Row("SRAI", 19, 5, 32),
    Row("ADD", 51, 0, 0), Row("SUB", 51, 0, 32), Row("SLL", 51, 1, 0),
    Row("SLT", 51, 2, 0), Row("SLTU", 51, 3, 0), Row("XOR", 51, 4, 0),
    Row("SRL", 51, 5, 0), Row("SRA", 51, 5, 32), Row("OR", 51, 6, 0), Row("AND", 51, 7, 0),
    Row("MUL", 51, 0, 1), Row("MULH", 51, 1, 1), Row("MULHSU", 51, 2, 1),
    Row("MULHU", 51, 3, 1), Row("DIV", 51, 4, 1), Row("DIVU", 51, 5, 1),
    Row("REM", 51, 6, 1), Row("REMU", 51, 7, 1), Row("FENCE", 15, 0, Any),
    Row("FENCE_I", 15, 1, Any), Row("CSRRW", 115, 1, Any), Row("CSRRS", 115, 2, Any),
    Row("CSRRC", 115, 3, Any), Row("CSRRWI", 115, 5, Any), Row("CSRRSI", 115, 6, Any),
    Row("CSRRCI", 115, 7, Any) }

(* The three operations without operands are whole words. *)
Fixed(op, rs2, funct7) == [opcode |-> 115, rd |-> 0, funct3 |-> 0, rs1 |-> 0,
                           rs2 |-> rs2, funct7 |-> funct7, op |-> op]
FixedWords == {Fixed("ECALL", 0, 0), Fixed("EBREAK", 1, 0), Fixed("MRET", 2, 24)}

Matches(row, f) == /\ row.opcode = f.opcode
                   /\ row.funct3 \in {Any, f.funct3}
                   /\ row.funct7 \in {Any, f.funct7}
IsWord(w, f) == \A k \in DOMAIN f : w[k] = f[k]

(* The operations an instruction word encodes: one, or none. *)
Meaning(f) == {row.op : row \in {r \in RV32IM : Matches(r, f)}}
              \cup {w.op : w \in {v \in FixedWords : IsWord(v, f)}}

(* The decoder names exactly the operation the word encodes, and none when   *)
(* the word is illegal: an operation missed, taken for another, or found in  *)
(* a word with a wrong funct7 or funct12 shows here.                         *)
DecodesIsa == returned => {di.op} \ {U} = Meaning(instruction)

(* The bits of v from the one that weighs w, as a number below m.            *)
Bits(v, w, m) == (v \div w) % m

(* The instruction has these operand fields. *)
Encodes(rd, rs1, rs2, funct7) ==
    /\ instruction.rd = rd /\ instruction.rs1 = rs1
    /\ instruction.rs2 = rs2 /\ instruction.funct7 = funct7

(* Nothing of an instruction is lost, moved or extended wrongly: its decoded *)
(* registers and immediate encode the very word they came from, as an        *)
(* assembler would.  A fence has no operands to keep, and the operation      *)
(* stands for the funct7 of a right shift and of a register operation.       *)
RoundTrip ==
    LET imm   == di.imm
        upper == di.imm \div 4096
        f7    == instruction.funct7
    IN  /\ di.format = "R" => Encodes(di.rd, di.rs1, di.rs2, f7)
        /\ di.format = "I" /\ di.op \notin {U, "FENCE", "FENCE_I"} =>
              Encodes(di.rd, di.rs1, Bits(imm, 1, 32),
                      IF di.op \in {"SRLI", "SRAI"} THEN f7 ELSE Bits(imm, 32, 128))
        /\ di.format = "S" => Encodes(Bits(imm, 1, 32), di.rs1, di.rs2, Bits(imm, 32, 128))
        /\ di.format = "B" => Encodes(2 * Bits(imm, 2, 16) + Bits(imm, 2048, 2),
                                     di.rs1, di.rs2,
                                     64 * Bits(imm, 4096, 2) + Bits(imm, 32, 64))
        /\ di.format = "U" => /\ Encodes(di.rd, Bits(upper, 8, 32), Bits(upper, 256, 32),
                                        Bits(upper, 8192, 128))
                             /\ instruction.funct3 = Bits(upper, 1, 8)
        /\ di.format = "J" => /\ Encodes(di.rd, Bits(upper, 8, 32),
                                        2 * Bits(imm, 2, 16) + Bits(imm, 2048, 2),
                                        64 * Bits(upper, 256, 2) + Bits(imm, 32, 64))
                             /\ instruction.funct3 = Bits(upper, 1, 8)

(* include/rve/decoder.h 136, of valid: "False for illegal encodings".  The  *)
(* branch, store and SYSTEM groups set it after an unknown funct3 has        *)
(* cleared it: a run refutes this.                                           *)
ValidIsLegal == returned /\ di.valid => Meaning(instruction) # {}
=============================================================================
