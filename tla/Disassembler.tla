---------------------------- MODULE Disassembler ----------------------------
(***************************************************************************)
(* The disassembler (src/decoder.c, rve_decoded_format_to_buffer): the     *)
(* line of text for a decoded instruction, as the sequence of its tokens.  *)
(* A token says how its value is written, because a reader has only that:  *)
(* a register by its ABI name, a number as signed or unsigned, a field in  *)
(* hexadecimal.  A mnemonic is the name of its operation.  The buffer is   *)
(* taken to be long enough for the line.                                   *)
(***************************************************************************)
EXTENDS Decoder, Sequences

Name(text)  == [kind |-> "name", text |-> text]
Signed32(v) == [kind |-> "%d", value |-> v]
Field(v)    == [kind |-> "0x%x", value |-> v]

(* %u prints the 32 bits of a value as one natural number: its two halves.  *)
Unsigned32(v) == [kind |-> "%u", high |-> (v \div 65536) % 65536, low |-> v % 65536]

(* %x of the upper immediate prints its 20 bits.                            *)
Upper20(v) == (v \div 4096) % 1048576

(* get_abi_name: the 32 names are distinct, so that a name is its register. *)
Abi(r) == IF r < 32 THEN [kind |-> "abi", reg |-> r] ELSE Name("x??")

----------------------------------------------------------------------------
(* The groups of operations that share a format string. *)
Listed(t)    == {t[k] : k \in 1 .. 8} \ {U}
ShiftImms    == {"SLLI", "SRLI", "SRAI"}
SignedImms   == Listed(OpImms) \ (ShiftImms \cup {"SLTIU"})
IndexedOps   == Listed(Loads) \cup {"JALR"}
BaseRegOps   == Listed(Adds) \cup Listed(Subs)
CsrImms      == {"CSRRWI", "CSRRSI", "CSRRCI"}
CsrRegs      == Listed(Csrs) \ CsrImms
UpperOps     == {"LUI", "AUIPC"}
BareOps      == {"FENCE", "FENCE_I", "ECALL", "EBREAK", "MRET"}
UnhandledOps == Listed(MulDivs)

(* The value first, then offset(base).  The mutant has the registers in the *)
(* order of the decoded fields.                                             *)
StoreOperandsSwapped(d) == <<Abi(d.rs1), Signed32(d.imm), Abi(d.rs2)>>
StoreOperands(d)        == <<Abi(d.rs2), Signed32(d.imm), Abi(d.rs1)>>

(* What follows the mnemonic. *)
OperandText(d) ==
    CASE d.op \in UpperOps          -> <<Abi(d.rd), Field(Upper20(d.imm))>>
      [] d.op = "JAL"               -> <<Abi(d.rd), Signed32(d.imm)>>
      [] d.op \in IndexedOps        -> <<Abi(d.rd), Signed32(d.imm), Abi(d.rs1)>>
      [] d.op \in Listed(Branches)  -> <<Abi(d.rs1), Abi(d.rs2), Signed32(d.imm)>>
      [] d.op \in Listed(Stores)    -> StoreOperands(d)
      [] d.op \in SignedImms        -> <<Abi(d.rd), Abi(d.rs1), Signed32(d.imm)>>
      [] d.op = "SLTIU"             -> <<Abi(d.rd), Abi(d.rs1), Unsigned32(d.imm)>>
      [] d.op \in ShiftImms         -> <<Abi(d.rd), Abi(d.rs1), Unsigned32(d.imm % 32)>>
      [] d.op \in BaseRegOps        -> <<Abi(d.rd), Abi(d.rs1), Abi(d.rs2)>>
      [] d.op \in CsrRegs           -> <<Abi(d.rd), Field(d.imm % 4096), Abi(d.rs1)>>
      [] d.op \in CsrImms           -> <<Abi(d.rd), Field(d.imm % 4096), Unsigned32(d.rs1)>>
      [] d.op \in BareOps           -> <<>>

(* rve_decoded_format_to_buffer.  The M extension has no case and falls to  *)
(* the default; a word whose valid flag was set for an unknown operation    *)
(* meets the case meant for invalid words.                                  *)
Line(d) ==
    IF ~d.valid THEN <<Name("<invalid instruction>")>>
    ELSE IF d.op = U THEN <<Name("<internal error>")>>
    ELSE IF d.op \in UnhandledOps THEN <<Name("<unhandled valid op>"), Name(d.op), Name(d.format)>>
    ELSE <<Name(d.op)>> \o OperandText(d)

----------------------------------------------------------------------------
(* Reading a line as the manual's assembly syntax has it: a number of 32     *)
(* bits is in two's complement, an upper immediate one of 20 bits.           *)
FromHalves(high, low) == 65536 * SignExtend(high, 32768) + low
FromUpper20(v)        == 4096 * SignExtend(v, 524288)

Read(t) == CASE t.kind = "abi"             -> t.reg
             [] t.kind \in {"%d", "0x%x"}  -> t.value
             [] t.kind = "%u"              -> FromHalves(t.high, t.low)

ReadLine(line) ==
    LET op     == line[1].text
        arg(k) == Read(line[k + 1])
    IN  CASE op \in Listed(Branches) -> [rs1 |-> arg(1), rs2 |-> arg(2), imm |-> arg(3)]
          [] op \in Listed(Stores)   -> [rs2 |-> arg(1), imm |-> arg(2), rs1 |-> arg(3)]
          [] op \in IndexedOps       -> [rd |-> arg(1), imm |-> arg(2), rs1 |-> arg(3)]
          [] op \in BaseRegOps       -> [rd |-> arg(1), rs1 |-> arg(2), rs2 |-> arg(3)]
          [] op \in Listed(OpImms) \cup ShiftImms ->
                [rd |-> arg(1), rs1 |-> arg(2), imm |-> arg(3)]
          [] op \in Listed(Csrs)     ->
                [rd |-> arg(1), imm |-> SignExtend(arg(2), 2048), rs1 |-> arg(3)]
          [] op \in UpperOps         -> [rd |-> arg(1), imm |-> FromUpper20(arg(2))]
          [] op = "JAL"              -> [rd |-> arg(1), imm |-> arg(2)]

(* The decoded fields that, by RoundTrip, make up the word. *)
FieldsOf(format) == CASE format = "R"          -> {"rd", "rs1", "rs2"}
                      [] format = "I"          -> {"rd", "rs1", "imm"}
                      [] format \in {"S", "B"} -> {"rs1", "rs2", "imm"}
                      [] format \in {"U", "J"} -> {"rd", "imm"}

(* Nothing of a legal instruction is lost on the way to its text: the line   *)
(* names the operation the word encodes, and read back by the manual's       *)
(* syntax gives every field that makes up the word, each number with the     *)
(* sign and the scale it was printed in.  The instructions without operands  *)
(* are their name; the M extension has no line.                              *)
LineReadsBack ==
    returned =>
        \A op \in Meaning(instruction) \ UnhandledOps :
            /\ Line(di)[1] = Name(op)
            /\ op \notin BareOps =>
                  \A f \in FieldsOf(di.format) : ReadLine(Line(di))[f] = di[f]
=============================================================================
