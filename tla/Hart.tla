-------------------------------- MODULE Hart --------------------------------
(***************************************************************************)
(* The hart (src/hart.c): hart_step as one action per group of             *)
(* instructions, the trap unit, the machine-mode CSR file, and the SoC's   *)
(* soc_raise_interrupt (src/soc.c), which injects an interrupt between two *)
(* steps.                                                                  *)
(*                                                                         *)
(* hart_step runs to completion before anything else happens, so one step  *)
(* is one action: fetch, decode, execute and commit.  Instructions are     *)
(* words in RAM, so that a program may overwrite itself; Decode stands for *)
(* rve_decode_instruction (src/decoder.c) and may be any function from     *)
(* words to decoded instructions.                                          *)
(***************************************************************************)
EXTENDS Soc

CONSTANTS
    NumRegs,           \* integer registers: 32 in the code
    Decode(_),         \* rve_decode_instruction
    Misa,              \* the constant misa reads as
    ResetPc,           \* the reset pc handed to soc_init
    InitialRam         \* the RAM contents a binary may be loaded with

VARIABLES
    gpr,               \* hart->gpr
    csr,               \* hart->csr
    pc,                \* hart->pc
    dev,               \* the devices on the bus
    retire             \* the record the last hart_step returned

vars == <<gpr, csr, pc, dev, retire>>

Reg == 0 .. NumRegs - 1

----------------------------------------------------------------------------
(* Trap causes.  Two interrupts share their code with an exception.         *)
TRAP_NONE               == -1
TRAP_INSTR_MISALIGNED   == 0
TRAP_INSTR_ACCESS_FAULT == 1
TRAP_ILLEGAL_INSTR      == 2
TRAP_INT_SW             == 3
TRAP_LOAD_ACCESS_FAULT  == 5
TRAP_STORE_ACCESS_FAULT == 7
TRAP_INT_TIMER          == 7
TRAP_ECALL_M            == 11
TRAP_INT_EXTERNAL       == 11

Interrupt == {TRAP_INT_SW, TRAP_INT_TIMER, TRAP_INT_EXTERNAL}
Exception == {TRAP_INSTR_MISALIGNED, TRAP_INSTR_ACCESS_FAULT, TRAP_ILLEGAL_INSTR,
              TRAP_LOAD_ACCESS_FAULT, TRAP_STORE_ACCESS_FAULT}

(* The macro TRAP_IS_INTERRUPT looks at the code alone. *)
TrapIsInterrupt(cause) == cause \in Interrupt

----------------------------------------------------------------------------
(* Instruction groups. *)
BranchOps == {"BEQ", "BNE", "BLT", "BGE", "BLTU", "BGEU"}
LoadSize  == [LB |-> 1, LBU |-> 1, LH |-> 2, LHU |-> 2, LW |-> 4]
LoadOps   == {"LB", "LBU", "LH", "LHU", "LW"}
StoreSize == [SB |-> 1, SH |-> 2, SW |-> 4]
StoreOps  == {"SB", "SH", "SW"}
ImmAlu    == [ADDI |-> "ADD", SLTI |-> "SLT", SLTIU |-> "SLTU", XORI |-> "XOR",
              ORI |-> "OR", ANDI |-> "AND", SLLI |-> "SLL", SRLI |-> "SRL", SRAI |-> "SRA"]
ImmOps    == {"ADDI", "SLTI", "SLTIU", "XORI", "ORI", "ANDI", "SLLI", "SRLI", "SRAI"}
CsrRegOps == {"CSRRW", "CSRRS", "CSRRC"}
CsrImmOps == {"CSRRWI", "CSRRSI", "CSRRCI"}
CsrOps    == CsrRegOps \cup CsrImmOps
FenceOps  == {"FENCE", "FENCE_I"}
IllegalOps == {"EBREAK", "UNKNOWN"}

Op == BranchOps \cup LoadOps \cup StoreOps \cup ImmOps \cup AluOps \cup CsrOps
        \cup FenceOps \cup IllegalOps \cup {"LUI", "AUIPC", "JAL", "JALR", "ECALL", "MRET"}

(* The CSR address of an instruction, by what csr_dispatch does with it:   *)
(* the six stored registers, those that read as a constant and ignore      *)
(* writes, and every other address.                                        *)
LiveCsr  == {"mstatus", "mtvec", "mscratch", "mepc", "mcause", "mtval"}
ConstCsr == {"identity", "misa", "stub"}
CsrName  == LiveCsr \cup ConstCsr \cup {"unimplemented"}

Decoded == [valid : BOOLEAN, op : Op, rd : Reg, rs1 : Reg, rs2 : Reg,
            imm : Word, csr : CsrName]

ASSUME RegAssumption    == NumRegs \in Nat /\ NumRegs > 0 /\ NumRegs <= WordSize
ASSUME DecodeAssumption == \A w \in Word : Decode(w) \in Decoded
ASSUME ResetAssumption  == ResetPc \in Word /\ Misa \in Word
ASSUME LoadAssumption   == InitialRam \subseteq [RamCell -> ByteVal]

----------------------------------------------------------------------------
(* The retirement record; "mem" is its memory read or write, of which an   *)
(* instruction performs at most one.                                       *)
NoAccess == [dir |-> "none", addr |-> 0, value |-> 0, size |-> 0]
Access   == [dir : {"none", "read", "write"}, addr : Word, value : Word,
             size : {0} \cup AccessSize]

Retirement == [pc : Word, next_pc : Word, op : Op \cup {"RESET"}, rd_written : BOOLEAN,
               rd : Reg, rd_value : Word, mem : Access,
               trap : Exception \cup {TRAP_NONE, TRAP_ECALL_M}]

(* A record with no effect but the control transfer. *)
Bare(op, next_pc, trap) ==
    [pc |-> pc, next_pc |-> next_pc, op |-> op, rd_written |-> FALSE, rd |-> 0,
     rd_value |-> 0, mem |-> NoAccess, trap |-> trap]

TypeOK == /\ gpr \in [Reg -> Word] /\ gpr[0] = 0
          /\ csr \in [LiveCsr -> Word]
          /\ pc \in Word
          /\ dev \in Devices
          /\ retire \in Retirement

(* soc_init, hart_init and the device contexts of emulator_init. *)
Init == /\ gpr = [r \in Reg |-> 0]
        /\ csr = [c \in LiveCsr |-> 0]
        /\ pc = ResetPc
        /\ \E image \in InitialRam :
              dev = [ram |-> image, uart |-> UartReset, halted |-> FALSE,
                     exit_code |-> 0, stdout |-> <<>>]
        /\ retire = [pc |-> ResetPc, next_pc |-> ResetPc, op |-> "RESET",
                     rd_written |-> FALSE, rd |-> 0, rd_value |-> 0,
                     mem |-> NoAccess, trap |-> TRAP_NONE]

----------------------------------------------------------------------------
(* mstatus: MIE is bit 3, MPIE bit 7 and MPP bits 11 and 12. *)
MIE  == 8
MPIE == 128
SetMpp(w) == PutFlag(PutFlag(w, 2048, 1), 4096, 1)

(* Mutant of TrapStatus: MIE is cleared without being saved. *)
TrapStatusUnsaved(ms) == SetMpp(PutFlag(ms, MIE, 0))

(* Trap entry saves MIE in MPIE and clears it; MRET restores it. *)
TrapStatus(ms) == SetMpp(PutFlag(PutFlag(ms, MPIE, Flag(ms, MIE)), MIE, 0))
(* Mutant of MretStatus: MIE is set whatever MPIE held. *)
MretStatusEnables(ms) == PutFlag(PutFlag(ms, MIE, 1), MPIE, 1)

MretStatus(ms) == PutFlag(PutFlag(ms, MIE, Flag(ms, MPIE)), MPIE, 1)

(* commit_trap *)
Mcause(cause) == IF TrapIsInterrupt(cause) THEN WordSize \div 2 + cause ELSE cause

TrapCsr(cause, tval) ==
    [csr EXCEPT !["mepc"]    = pc,
                !["mtval"]   = tval,
                !["mcause"]  = Mcause(cause),
                !["mstatus"] = TrapStatus(csr["mstatus"])]

TrapVector(cause) ==
    LET base == csr["mtvec"] - (csr["mtvec"] % 4)
    IN  IF csr["mtvec"] % 4 = 1 /\ TrapIsInterrupt(cause)
        THEN Add(base, 4 * cause) ELSE base

(* The commit stage for a pending trap.  The instruction has written no     *)
(* register and the access that failed has changed no device.               *)
CommitTrap(op, cause, tval) ==
    /\ pc' = TrapVector(cause)
    /\ csr' = TrapCsr(cause, tval)
    /\ gpr' = [gpr EXCEPT ![0] = 0]
    /\ dev' = dev
    /\ retire' = Bare(op, TrapVector(cause), cause)

----------------------------------------------------------------------------
(* Fetch: the word at the pc, as a set that is empty when there is none. *)
Fetch       == BusRead(dev, pc, 4)
FetchedWord == IF pc % 4 = 0 /\ Fetch.ok THEN {Fetch.val} ELSE {}

Pc4          == Add(pc, 4)
SetRd(di, v) == [gpr EXCEPT ![di.rd] = v]

(* The commit stage of an instruction that retires: g is the register file  *)
(* it leaves, x0 is cleared, and the record reports rd unless the format    *)
(* (S or B) has none.                                                       *)
ReportsRd(di) == di.rd # 0 /\ di.op \notin StoreOps \cup BranchOps

(* Mutants of Commit: x0 is not cleared; the record is filled in before the  *)
(* register is written.                                                      *)
CommitKeepsX0(di, g, next_pc, mem) ==
    /\ gpr' = g
    /\ pc' = next_pc
    /\ retire' = [Bare(di.op, next_pc, TRAP_NONE) EXCEPT !.mem = mem]
CommitStaleRecord(di, g, next_pc, mem) ==
    /\ gpr' = [g EXCEPT ![0] = 0]
    /\ pc' = next_pc
    /\ retire' = [Bare(di.op, next_pc, TRAP_NONE) EXCEPT
                     !.rd_written = ReportsRd(di), !.rd = di.rd,
                     !.rd_value = gpr[di.rd], !.mem = mem]

Commit(di, g, next_pc, mem) ==
    /\ gpr' = [g EXCEPT ![0] = 0]
    /\ pc' = next_pc
    /\ retire' = [pc |-> pc, next_pc |-> next_pc, op |-> di.op,
                  rd_written |-> ReportsRd(di),
                  rd |-> IF ReportsRd(di) THEN di.rd ELSE 0,
                  rd_value |-> IF ReportsRd(di) THEN g[di.rd] ELSE 0,
                  mem |-> mem, trap |-> TRAP_NONE]

----------------------------------------------------------------------------
FetchMisaligned == /\ pc % 4 # 0
                   /\ CommitTrap("UNKNOWN", TRAP_INSTR_MISALIGNED, pc)

FetchFault == /\ pc % 4 = 0 /\ ~Fetch.ok
              /\ CommitTrap("UNKNOWN", TRAP_INSTR_ACCESS_FAULT, pc)

(* An invalid decoding, EBREAK, and an op the execute switch has no case for. *)
ExecIllegal(di, instruction) ==
    /\ ~di.valid \/ di.op \in IllegalOps
    /\ CommitTrap(di.op, TRAP_ILLEGAL_INSTR, instruction)

Compute(di, v) == /\ Commit(di, SetRd(di, v), Pc4, NoAccess)
                  /\ UNCHANGED <<csr, dev>>

ExecLui(di)   == di.op = "LUI" /\ Compute(di, di.imm)
ExecAuipc(di) == di.op = "AUIPC" /\ Compute(di, Add(pc, di.imm))
ExecOp(di)    == di.op \in AluOps /\ Compute(di, Alu(di.op, gpr[di.rs1], gpr[di.rs2]))
ExecOpImm(di) == di.op \in ImmOps /\ Compute(di, Alu(ImmAlu[di.op], gpr[di.rs1], di.imm))

ExecFence(di) == /\ di.op \in FenceOps
                 /\ Commit(di, gpr, Pc4, NoAccess)
                 /\ UNCHANGED <<csr, dev>>

(* Mutants of JumpTo: the link register is written before the target is      *)
(* checked; the target is not checked.                                       *)
JumpLinkFirst(di, target) ==
    \/ /\ target % 4 # 0
       /\ pc' = TrapVector(TRAP_INSTR_MISALIGNED)
       /\ csr' = TrapCsr(TRAP_INSTR_MISALIGNED, target)
       /\ gpr' = [SetRd(di, Pc4) EXCEPT ![0] = 0]
       /\ retire' = Bare(di.op, TrapVector(TRAP_INSTR_MISALIGNED), TRAP_INSTR_MISALIGNED)
       /\ UNCHANGED dev
    \/ /\ target % 4 = 0
       /\ Commit(di, SetRd(di, Pc4), target, NoAccess)
       /\ UNCHANGED <<csr, dev>>
JumpUnchecked(di, target) == /\ Commit(di, SetRd(di, Pc4), target, NoAccess)
                             /\ UNCHANGED <<csr, dev>>

(* JAL and JALR: the link register is written only when the target is aligned. *)
JumpTo(di, target) ==
    \/ /\ target % 4 # 0
       /\ CommitTrap(di.op, TRAP_INSTR_MISALIGNED, target)
    \/ /\ target % 4 = 0
       /\ Commit(di, SetRd(di, Pc4), target, NoAccess)
       /\ UNCHANGED <<csr, dev>>

JalrTarget(di) == LET t == Add(gpr[di.rs1], di.imm) IN t - (t % 2)

ExecJal(di)  == di.op = "JAL" /\ JumpTo(di, Add(pc, di.imm))
ExecJalr(di) == di.op = "JALR" /\ JumpTo(di, JalrTarget(di))

(* exec_branch: only a taken branch checks its target. *)
Taken(di) ==
    LET a == gpr[di.rs1]
        b == gpr[di.rs2]
    IN  CASE di.op = "BEQ"  -> a = b
          [] di.op = "BNE"  -> a # b
          [] di.op = "BLT"  -> Signed(a) < Signed(b)
          [] di.op = "BGE"  -> Signed(a) >= Signed(b)
          [] di.op = "BLTU" -> a < b
          [] di.op = "BGEU" -> a >= b

(* Mutant of ExecBranch: a taken branch does not check its target. *)
BranchUnchecked(di) ==
    /\ di.op \in BranchOps
    /\ Commit(di, gpr, IF Taken(di) THEN Add(pc, di.imm) ELSE Pc4, NoAccess)
    /\ UNCHANGED <<csr, dev>>

ExecBranch(di) ==
    /\ di.op \in BranchOps
    /\ LET target == Add(pc, di.imm)
       IN  \/ /\ Taken(di) /\ target % 4 # 0
              /\ CommitTrap(di.op, TRAP_INSTR_MISALIGNED, target)
           \/ /\ ~(Taken(di) /\ target % 4 # 0)
              /\ Commit(di, gpr, IF Taken(di) THEN target ELSE Pc4, NoAccess)
              /\ UNCHANGED <<csr, dev>>

----------------------------------------------------------------------------
EffAddr(di) == Add(gpr[di.rs1], di.imm)

(* exec_load.  The address hart_step passes to trap_tval is filled in only  *)
(* when the access succeeds, so a fault reports 0.                          *)
LoadedValue(di, n, v) == IF di.op \in {"LB", "LH"} THEN Sext(v, n) ELSE v

(* Mutant of ExecLoad: the register is written whether or not the bus read   *)
(* succeeds.                                                                 *)
LoadWritesFirst(di) ==
    /\ di.op \in LoadOps
    /\ LET got == BusRead(dev, EffAddr(di), LoadSize[di.op])
           g   == [SetRd(di, LoadedValue(di, LoadSize[di.op], got.val)) EXCEPT ![0] = 0]
       IN  \/ /\ ~got.ok
              /\ pc' = TrapVector(TRAP_LOAD_ACCESS_FAULT)
              /\ csr' = TrapCsr(TRAP_LOAD_ACCESS_FAULT, 0)
              /\ gpr' = g
              /\ retire' = Bare(di.op, TrapVector(TRAP_LOAD_ACCESS_FAULT), TRAP_LOAD_ACCESS_FAULT)
              /\ UNCHANGED dev
           \/ /\ got.ok
              /\ Commit(di, g, Pc4, NoAccess)
              /\ UNCHANGED <<csr, dev>>

ExecLoad(di) ==
    /\ di.op \in LoadOps
    /\ LET n   == LoadSize[di.op]
           got == BusRead(dev, EffAddr(di), n)
           v   == LoadedValue(di, n, got.val)
       IN  \/ /\ ~got.ok
              /\ CommitTrap(di.op, TRAP_LOAD_ACCESS_FAULT, 0)
           \/ /\ got.ok
              /\ Commit(di, SetRd(di, v), Pc4,
                        [dir |-> "read", addr |-> EffAddr(di), value |-> v, size |-> n])
              /\ UNCHANGED <<csr, dev>>

(* exec_store: the source register is masked to the access size. *)
ExecStore(di) ==
    /\ di.op \in StoreOps
    /\ LET n    == StoreSize[di.op]
           v    == gpr[di.rs2] % Span(n)
           done == BusWrite(dev, EffAddr(di), v, n)
       IN  \/ /\ ~done.ok
              /\ CommitTrap(di.op, TRAP_STORE_ACCESS_FAULT, 0)
           \/ /\ done.ok
              /\ Commit(di, gpr, Pc4,
                        [dir |-> "write", addr |-> EffAddr(di), value |-> v, size |-> n])
              /\ dev' = done.dev
              /\ UNCHANGED csr

----------------------------------------------------------------------------
(* csr_access: the operand is a register or the rs1 field itself, and the   *)
(* CSR is written only when that field is not zero, for CSRRW too.          *)
CsrOperand(di) == IF di.op \in CsrImmOps THEN di.rs1 ELSE gpr[di.rs1]
CsrNew(di, old) ==
    CASE di.op \in {"CSRRW", "CSRRWI"} -> CsrOperand(di)
      [] di.op \in {"CSRRS", "CSRRSI"} -> BitOr(old, CsrOperand(di))
      [] di.op \in {"CSRRC", "CSRRCI"} -> BitClear(old, CsrOperand(di))

WritesCsr(di) == di.op \in CsrOps /\ di.csr \in LiveCsr /\ di.rs1 # 0

(* csr_dispatch *)
ExecCsr(di, instruction) ==
    /\ di.op \in CsrOps
    /\ \/ /\ di.csr = "unimplemented"
          /\ CommitTrap(di.op, TRAP_ILLEGAL_INSTR, instruction)
       \/ /\ di.csr \in ConstCsr
          /\ Compute(di, IF di.csr = "misa" THEN Misa ELSE 0)
       \/ /\ di.csr \in LiveCsr
          /\ Commit(di, SetRd(di, csr[di.csr]), Pc4, NoAccess)
          /\ csr' = IF WritesCsr(di)
                    THEN [csr EXCEPT ![di.csr] = CsrNew(di, csr[di.csr])]
                    ELSE csr
          /\ UNCHANGED dev

----------------------------------------------------------------------------
(* ECALL takes no hardware trap: the record carries the cause to the caller *)
(* and the pc moves past the instruction.                                   *)
ExecEcall(di) == /\ di.op = "ECALL"
                 /\ gpr' = [gpr EXCEPT ![0] = 0]
                 /\ pc' = Pc4
                 /\ retire' = Bare(di.op, Pc4, TRAP_ECALL_M)
                 /\ UNCHANGED <<csr, dev>>

ExecMret(di) == /\ di.op = "MRET"
                /\ Commit(di, gpr, csr["mepc"], NoAccess)
                /\ csr' = [csr EXCEPT !["mstatus"] = MretStatus(csr["mstatus"])]
                /\ UNCHANGED dev

(* The execute switch, for a valid decoding. *)
Execute(di, instruction) ==
    /\ di.valid
    /\ \/ ExecLui(di) \/ ExecAuipc(di) \/ ExecOp(di) \/ ExecOpImm(di) \/ ExecFence(di)
       \/ ExecJal(di) \/ ExecJalr(di) \/ ExecBranch(di) \/ ExecLoad(di) \/ ExecStore(di)
       \/ ExecCsr(di, instruction) \/ ExecEcall(di) \/ ExecMret(di)

(* hart_step, and soc_step, which calls it. *)
HartStep == \/ FetchMisaligned
            \/ FetchFault
            \/ \E instruction \in FetchedWord :
                  \E di \in {Decode(instruction)} :
                     ExecIllegal(di, instruction) \/ Execute(di, instruction)

(* soc_raise_interrupt, hart_take_trap: neither MIE nor mie is consulted.   *)
(* A cause that is not an interrupt is refused with no effect.              *)
RaiseInterrupt == \E cause \in Interrupt :
    /\ pc' = TrapVector(cause)
    /\ csr' = TrapCsr(cause, 0)
    /\ UNCHANGED <<gpr, dev, retire>>

Next == HartStep \/ RaiseInterrupt

Spec == Init /\ [][Next]_vars

(* The same with no interrupt source, as emulator_run drives the SoC. *)
StepSpec == Init /\ [][HartStep]_vars

----------------------------------------------------------------------------
(* Exceptions are precise: an instruction that traps, at whatever stage, has *)
(* written no register and changed no device; the same holds of ECALL, whose *)
(* effects are all left to the caller of hart_step.                          *)
PreciseTrap == [][retire'.trap # TRAP_NONE => gpr' = gpr /\ dev' = dev]_vars

(* include/rve/hart.h 71: the record "completely describes the observable    *)
(* effects of one instruction execution".  Replaying the record alone on the *)
(* registers and the devices before the step gives those after it, and its   *)
(* pcs chain from one step to the next.                                      *)
ReplayRegs(g, r) == IF r.rd_written THEN [g EXCEPT ![r.rd] = r.rd_value] ELSE g
ReplayDevices(d, r) == IF r.mem.dir = "write"
                       THEN BusWrite(d, r.mem.addr, r.mem.value, r.mem.size).dev
                       ELSE d
Recorded == /\ gpr' = ReplayRegs(gpr, retire')
            /\ dev' = ReplayDevices(dev, retire')
            /\ retire'.pc = pc /\ retire'.next_pc = pc'
RecordComplete == [][Recorded \/ RaiseInterrupt]_vars

(* Memory is bytes to the guest.  A store that retires can be read back byte *)
(* by byte, but for the bytes another peripheral hides, and changes no other *)
(* byte of any RAM; one to a device changes none.  A load from a RAM returns  *)
(* the bytes that were there, extended as its operation says.  Accesses of    *)
(* all sizes and alignments therefore agree, also where they straddle TOHOST  *)
(* or a program overwrites itself.                                            *)
InRam(a) == Owner(Map, a) # NoSlot /\ Map[Owner(Map, a)].kind = "ram"
RamAddr  == {a \in UNION {Map[s].start .. Map[s].end - 1 : s \in RamSlot} : InRam(a)}

StoreReads(mem) ==
    \A a \in RamAddr :
       BusRead(dev', a, 1) =
          IF a - mem.addr \in 0 .. mem.size - 1 /\ Owner(Map, a) = Owner(Map, mem.addr)
          THEN Value(ByteOf(mem.value, a - mem.addr))
          ELSE BusRead(dev, a, 1)
Extension(op, top) == IF op \in {"LB", "LH"} /\ top >= Byte \div 2 THEN Byte - 1 ELSE 0
LoadReads(op, mem) ==
    \A k \in 0 .. 3 :
       IF k < mem.size
       THEN Owner(Map, mem.addr + k) = Owner(Map, mem.addr) =>
               BusRead(dev, mem.addr + k, 1) = Value(ByteOf(mem.value, k))
       ELSE ByteOf(mem.value, k) = Extension(op, ByteOf(mem.value, mem.size - 1))
MemoryIsBytes ==
    [][\/ RaiseInterrupt
       \/ /\ retire'.mem.dir = "write" => StoreReads(retire'.mem)
          /\ retire'.mem.dir = "read" /\ InRam(retire'.mem.addr) =>
                LoadReads(retire'.op, retire'.mem)]_vars

(* The pc is misaligned only where software put it, through mepc and MRET or *)
(* the reset pc: no branch, jump or trap vector leads there, and the step    *)
(* that meets a misaligned pc leaves it for the handler.                     *)
MisalignedOnlyByMret ==
    pc % 4 # 0 => pc = retire.next_pc /\ retire.op \in {"MRET", "RESET"}

(* Division by the RISC-V manual, in terms of multiplication alone: a divisor *)
(* of zero gives all ones and the dividend, the overflow of the most negative *)
(* word by -1 gives the dividend and zero, and otherwise the remainder is     *)
(* smaller than the divisor, has the dividend's sign and leaves a multiple.   *)
Divisions == {"DIV", "DIVU", "REM", "REMU"}
Operand(op, w) == IF op \in {"DIV", "REM"} THEN Signed(w) ELSE w
Remainder(op, n, d, v) == IF op \in {"DIV", "DIVU"} THEN n - d * v ELSE v

Exact(n, d, r) == /\ Abs(r) < Abs(d) /\ (n - r) % Abs(d) = 0
                  /\ r < 0 => n < 0
                  /\ r > 0 => n > 0
Divided(op, a, b, v) ==
    LET n == Operand(op, a)
        d == Operand(op, b)
    IN  \/ /\ d = 0
           /\ v = IF op \in {"DIV", "DIVU"} THEN WordSize - 1 ELSE a
        \/ /\ op \in {"DIV", "REM"} /\ Overflows(a, b)
           /\ v = IF op = "DIV" THEN a ELSE 0
        \/ /\ d # 0 /\ ~(op \in {"DIV", "REM"} /\ Overflows(a, b))
           /\ Exact(n, d, Remainder(op, n, d, Operand(op, v)))

(* Every division that retires reports what the manual asks of its operands  *)
(* before the step, whichever of them is also the destination.               *)
DividesByTheManual ==
    [][\/ retire'.op \notin Divisions \/ ~retire'.rd_written \/ RaiseInterrupt
       \/ \A instruction \in FetchedWord :
             LET di == Decode(instruction)
             IN  Divided(di.op, gpr[di.rs1], gpr[di.rs2], retire'.rd_value)]_vars

(* include/rve/hart.h 40: "Synchronous exceptions have bit 31 = 0".  A store *)
(* access fault has the code of the timer interrupt, and commit_trap sets    *)
(* the bit for it: a run refutes this.                                       *)
ExceptionsClearTopBit == [][HartStep /\ retire'.trap \in Exception
                              => csr'["mcause"] < WordSize \div 2]_vars

(* src/hart.c 35: "load/store faults use the faulting address" as mtval.     *)
(* The address is recorded only by an access that succeeds: a run refutes    *)
(* this.                                                                     *)
FaultsReportAddress ==
    [][HartStep /\ retire'.trap \in {TRAP_LOAD_ACCESS_FAULT, TRAP_STORE_ACCESS_FAULT}
         => \A instruction \in FetchedWord :
                csr'["mtval"] = EffAddr(Decode(instruction))]_vars
=============================================================================
