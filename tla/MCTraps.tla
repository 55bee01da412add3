------------------------------ MODULE MCTraps ------------------------------
(***************************************************************************)
(* Model-checking instance of Traps: every program of Length instructions  *)
(* from TrapTable, with an interrupt possible between any two steps.       *)
(***************************************************************************)
EXTENDS Traps, MCHart

(* One RAM holds the program and, at address 12, an MRET: the vector of the *)
(* software interrupt when mtvec is 1.  The other two vectors are unmapped. *)
TrapMap == 0 :> Region(0, 16, "ram", 16)

TrapPrograms == {Image(0, p @@ (3 :> 4)) : p \in [0 .. 2 -> 1 .. Len(Table)]}

TrapTable == <<
    C("CSRRWI", 0, 1, "mtvec"),           \* vectored mode, base 0
    I("ADDI", 1, 0, 0, 8),
    C("CSRRS", 2, 1, "mstatus"),          \* set MIE, when x1 = 8
    I("MRET", 0, 0, 0, 0),               \* word 4
    C("CSRRW", 2, 1, "mepc"),
    I("ECALL", 0, 0, 0, 0),
    I("SW", 0, 0, 1, 30),                 \* store access fault
    I("LW", 2, 0, 0, 30),                 \* load access fault
    I("JAL", 1, 0, 0, 6),                 \* misaligned target
    I("ADDI", 1, 0, 0, 6),
    I("JAL", 1, 0, 0, Minus(4)) >>
=============================================================================
