----------------------------- MODULE MCEmulator -----------------------------
(***************************************************************************)
(* Model-checking instance of Main on a small copy of emulator_init's map, *)
(* in its order: TOHOST, the low RAM with the program, the high RAM with   *)
(* TOHOST's range inside it, and the UART.                                 *)
(***************************************************************************)
EXTENDS Main, MCHart

EmuMap == 0 :> Region(72, 76, "tohost", 0) @@
          1 :> Region(0, 24, "ram", 24) @@
          2 :> Region(64, 80, "ram", 16) @@
          3 :> Region(96, 104, "uart", 0)

(* Registers: 1 is a0, 2 is a1, 3 is a2, 4 is a7. *)
EmuTable == <<
    I("ADDI", 4, 0, 0, 93),               \* a7: exit
    I("ADDI", 4, 0, 0, 64),               \* a7: write
    I("ADDI", 4, 0, 0, 7),                \* a7: a call the handler lacks
    I("ADDI", 1, 0, 0, 0),                \* a0: exit code 0, no descriptor
    I("ADDI", 1, 0, 0, 1),                \* a0: stdout
    I("ADDI", 1, 0, 0, 2),                \* a0: stderr
    I("ADDI", 2, 0, 0, 70),               \* a1: two bytes below TOHOST
    I("ADDI", 2, 0, 0, 95),               \* a1: one byte below the UART
    I("ADDI", 2, 0, 0, 98),               \* a1: in the UART
    I("ADDI", 3, 0, 0, 0),                \* a2
    I("ADDI", 3, 0, 0, 4),                \* a2
    I("ECALL", 0, 0, 0, 0),
    I("SW", 0, 0, 1, 72),                 \* a0 to TOHOST
    I("SB", 0, 0, 2, 96),                 \* a1 to the UART transmitter
    I("SB", 0, 0, 2, 99),                 \* a1 to the line control register
    I("JAL", 0, 0, 0, Minus(4)) >>

----------------------------------------------------------------------------
(* A file of instructions, each an index of EmuTable. *)
File(words) == [k \in 1 .. 4 * Len(words) |-> ByteOf(words[(k - 1) \div 4 + 1], (k - 1) % 4)]

(* The four arguments of a call in turn, then an instruction of any kind and *)
(* a call, a store to TOHOST or a jump back, run for six steps.              *)
EmuPrograms ==
    {File(<<t, u, v, w, x, y>>) :
        t \in {1, 2, 3}, u \in {4, 5, 6}, v \in {7, 8, 9}, w \in {10, 11},
        x \in 11 .. 16, y \in {12, 13, 16}}
Runs == {[argv |-> <<"b", "--max", "6">>, disk |-> "b" :> file] : file \in EmuPrograms}

(* Command lines: every one of up to three tokens, and some of six, for a    *)
(* program that exits.                                                       *)
Tokens   == {"--trace", "--regs", "--pc", "--load", "--max", "--help", "-x", "b", "4", ""}
MCHex    == [t \in Tokens \cup {"6"} |-> IF t = "b" THEN 11 ELSE IF t = "4" THEN 4
                                        ELSE IF t = "6" THEN 6 ELSE 0]
MCDec    == [t \in Tokens \cup {"6"} |-> IF t = "4" THEN 4 ELSE IF t = "6" THEN 6 ELSE 0]
Lines    == UNION {[1 .. n -> Tokens] : n \in 0 .. 3}
               \cup {<<"--max", t, x, y, "b", z>> :
                        t \in {"4", "--max"}, x \in Tokens, y \in Tokens,
                        z \in {"--max", "--regs"}}
Exiting  == "b" :> File(<<1, 5, 12>>)
MCScenarios == Runs \cup {[argv |-> line, disk |-> Exiting] : line \in Lines}

(* What another program loads: a program, an image across TOHOST, one that is *)
(* too long, and images at the UART and at no peripheral.                     *)
Bytes(n) == [k \in 1 .. n |-> k % Byte]
MCLoads == {[file |-> File(<<5, 12, 13>>), addr |-> 0],
            [file |-> Bytes(14), addr |-> 66], [file |-> Bytes(15), addr |-> 66],
            [file |-> Bytes(1), addr |-> 96], [file |-> Bytes(1), addr |-> 50]}
MCBlank == {Image(1, [q \in {} |-> 0])}
=============================================================================
