----------------------------- MODULE MCDecoder -----------------------------
(***************************************************************************)
(* Model-checking instance of Decoder and Disassembler: every opcode the  *)
(* decoder knows and two it does not, every funct3 and funct7, and the     *)
(* values of the other fields that the decoder tells apart or that set an  *)
(* end of an immediate.                                                    *)
(***************************************************************************)
EXTENDS Disassembler

MCInstructions ==
    [opcode : {55, 23, 111, 103, 3, 19, 15, 115, 99, 35, 51, 0, 127},
     rd : {0, 1, 30}, funct3 : 0 .. 7, rs1 : {0, 21}, rs2 : {0, 1, 2, 31},
     funct7 : 0 .. 127]
=============================================================================
