-------------------------------- MODULE Soc --------------------------------
(***************************************************************************)
(* The devices behind the bus and the two bus accesses (src/bus.c          *)
(* bus_read, bus_write) as the SoC that emulator_init builds dispatches    *)
(* them: RAM (src/memory.c), TOHOST (src/tohost.c) and the UART            *)
(* (src/uart.c), whose receive file emulator_init leaves NULL, so that     *)
(* reading a UART register has no side effect (Uart models the receiver).  *)
(*                                                                         *)
(* The state of all devices is one record, because TOHOST's context holds  *)
(* pointers to the emulator's halted flag and exit code and the UART       *)
(* writes to the stdout the write system call also uses.                   *)
(***************************************************************************)
EXTENDS Alu, BusMap, UartRegisters, Sequences

CONSTANT Map           \* the slot table: bus->peripherals after emulator_init

ASSUME MapAssumption ==
    Map \in [Slot -> [active : BOOLEAN, start : Word, end : Word,
                      kind : {"ram", "tohost", "uart"}, size : Nat]]

RamSlot == {s \in Slot : Map[s].kind = "ram"}
RamCell == UNION {{s} \X (0 .. Map[s].size - 1) : s \in RamSlot}

Devices == [ram : [RamCell -> ByteVal], uart : UartRegs,
            halted : BOOLEAN, exit_code : Word, stdout : Seq(ByteVal)]

----------------------------------------------------------------------------
(* RAM: an access must lie inside the region as a whole, wherever it starts. *)
RamHolds(s, a, n) == Map[s].start <= a /\ a - Map[s].start + n <= Map[s].size
Cell(s, a, k)     == <<s, a - Map[s].start + k>>

RamRead(ram, s, a, n) ==
    FromBytes([k \in 0 .. 3 |-> IF k < n THEN ram[Cell(s, a, k)] ELSE 0])

(* Mutant of RamWrite: a whole word is copied whatever the size. *)
RamWriteWord(ram, s, a, v, n) ==
    [c \in RamCell |->
        IF c[1] = s /\ c[2] - (a - Map[s].start) \in 0 .. 3
        THEN ByteOf(v, c[2] - (a - Map[s].start))
        ELSE ram[c]]

RamWrite(ram, s, a, v, n) ==
    [c \in RamCell |->
        IF c[1] = s /\ c[2] - (a - Map[s].start) \in 0 .. n - 1
        THEN ByteOf(v, c[2] - (a - Map[s].start))
        ELSE ram[c]]

----------------------------------------------------------------------------
(* A write to a UART register. *)
UartStore(d, off, b) ==
    [d EXCEPT !.uart   = UartWrite(d.uart, off, b),
              !.stdout = IF UartTransmits(d.uart, off) THEN Append(d.stdout, b)
                         ELSE d.stdout]

----------------------------------------------------------------------------
Fault == [ok |-> FALSE, val |-> 0]
Value(v) == [ok |-> TRUE, val |-> v]

(* bus_read: no owner, an owner with no read operation (TOHOST) and an owner *)
(* that refuses the access all fail.                                         *)
BusRead(d, a, n) ==
    LET s == Owner(Map, a) IN
    IF s = NoSlot THEN Fault
    ELSE CASE Map[s].kind = "tohost" -> Fault
           [] Map[s].kind = "uart"   -> Value(UartRead(d.uart, a % 8))
           [] Map[s].kind = "ram"    -> IF RamHolds(s, a, n)
                                        THEN Value(RamRead(d.ram, s, a, n))
                                        ELSE Fault

(* tohost_write: 1 reports success, any other value a failed case. *)
TohostExit(v)     == IF v = 1 THEN 0 ELSE v \div 2
TohostWrite(d, v) == [d EXCEPT !.halted = TRUE, !.exit_code = TohostExit(v)]

Refused(d)  == [ok |-> FALSE, dev |-> d]
Accepted(d) == [ok |-> TRUE, dev |-> d]

(* bus_write *)
BusWrite(d, a, v, n) ==
    LET s == Owner(Map, a) IN
    IF s = NoSlot THEN Refused(d)
    ELSE CASE Map[s].kind = "tohost" -> Accepted(TohostWrite(d, v))
           [] Map[s].kind = "uart"   -> Accepted(UartStore(d, a % 8, v % Byte))
           [] Map[s].kind = "ram" ->
                IF RamHolds(s, a, n)
                THEN Accepted([d EXCEPT !.ram = RamWrite(d.ram, s, a, v, n)])
                ELSE Refused(d)
=============================================================================
