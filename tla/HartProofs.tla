----------------------------- MODULE HartProofs -----------------------------
(***************************************************************************)
(* Proofs about the hart, for every program, every slot table, every       *)
(* number of registers and every decoder.                                  *)
(*                                                                         *)
(* The argument goes through one lemma, StepShape: a hart_step either      *)
(* traps, or retires an instruction through Commit, or is an ECALL.  The   *)
(* type invariant, the precision of exceptions, the completeness of the    *)
(* retirement record, the alignment of the pc and the byte-wise behaviour  *)
(* of memory each follow from what these three shapes leave.               *)
(***************************************************************************)
EXTENDS Hart, SocProofs

LEMMA ZeroIsReg == 0 \in Reg
  BY RegAssumption DEF Reg

LEMMA SizeOfAccess ==
    /\ \A op \in LoadOps : LoadSize[op] \in AccessSize
    /\ \A op \in StoreOps : StoreSize[op] \in AccessSize
    /\ \A op \in ImmOps : ImmAlu[op] \in AluOps
  BY DEF LoadOps, LoadSize, StoreOps, StoreSize, AccessSize, ImmOps, ImmAlu, AluOps

(* The groups of instructions have no member in common. *)
LEMMA GroupsAreOps ==
    /\ BranchOps \subseteq Op /\ LoadOps \subseteq Op /\ StoreOps \subseteq Op
    /\ ImmOps \subseteq Op /\ AluOps \subseteq Op /\ CsrOps \subseteq Op
    /\ FenceOps \subseteq Op /\ "UNKNOWN" \in Op /\ "ECALL" \in Op
    /\ "MRET" \notin BranchOps \cup StoreOps
    /\ "LUI" \notin BranchOps \cup StoreOps /\ "AUIPC" \notin BranchOps \cup StoreOps
    /\ "JAL" \notin BranchOps \cup StoreOps /\ "JALR" \notin BranchOps \cup StoreOps
    /\ \A op \in ImmOps \cup AluOps \cup LoadOps \cup CsrOps :
          op \notin BranchOps \cup StoreOps
  BY DEF Op, BranchOps, LoadOps, StoreOps, ImmOps, AluOps, CsrOps, CsrRegOps, CsrImmOps,
         FenceOps, IllegalOps

LEMMA CausesAreSmall ==
    \A cause \in Exception \cup Interrupt : cause \in 0 .. 11
  BY DEF Exception, Interrupt, TRAP_INSTR_MISALIGNED, TRAP_INSTR_ACCESS_FAULT,
         TRAP_ILLEGAL_INSTR, TRAP_LOAD_ACCESS_FAULT, TRAP_STORE_ACCESS_FAULT,
         TRAP_INT_SW, TRAP_INT_TIMER, TRAP_INT_EXTERNAL

LEMMA TrapCodes ==
    /\ TRAP_NONE \notin Exception /\ TRAP_ECALL_M # TRAP_NONE
    /\ TRAP_INSTR_MISALIGNED \in Exception /\ TRAP_INSTR_ACCESS_FAULT \in Exception
    /\ TRAP_ILLEGAL_INSTR \in Exception /\ TRAP_LOAD_ACCESS_FAULT \in Exception
    /\ TRAP_STORE_ACCESS_FAULT \in Exception
  BY DEF Exception, TRAP_NONE, TRAP_ECALL_M, TRAP_INSTR_MISALIGNED,
         TRAP_INSTR_ACCESS_FAULT, TRAP_ILLEGAL_INSTR, TRAP_LOAD_ACCESS_FAULT,
         TRAP_STORE_ACCESS_FAULT

----------------------------------------------------------------------------
(* The trap unit. *)
LEMMA StatusIsWord ==
    ASSUME NEW w \in Word
    PROVE  TrapStatus(w) \in Word /\ MretStatus(w) \in Word
<1>1. 8 \in StatusBit /\ 128 \in StatusBit /\ 2048 \in StatusBit /\ 4096 \in StatusBit
  BY DEF StatusBit
<1>2. \A x \in Word : \A m \in StatusBit : \A v \in {0, 1} :
         PutFlag(x, m, v) \in Word /\ Flag(x, m) \in {0, 1}
  BY PutFlagIsWord, FlagIsBit
<1>3. PutFlag(PutFlag(w, MPIE, Flag(w, MIE)), MIE, 0) \in Word
  BY <1>1, <1>2 DEF MIE, MPIE
<1>4. TrapStatus(w) \in Word
  BY <1>1, <1>2, <1>3 DEF TrapStatus, SetMpp
<1>5. MretStatus(w) \in Word
  BY <1>1, <1>2 DEF MretStatus, MIE, MPIE
<1>6. QED
  BY <1>4, <1>5

LEMMA McauseIsWord ==
    ASSUME NEW cause \in Exception \cup Interrupt
    PROVE  Mcause(cause) \in Word
<1>1. cause \in Nat /\ cause <= 11
  BY CausesAreSmall
<1>2. /\ WordSize \in Nat /\ WordSize >= 65536
      /\ WordSize \div 2 \in Nat /\ WordSize \div 2 + 11 <= WordSize - 1
  BY WordSizeFacts
<1>3. WordSize \div 2 + cause \in 0 .. WordSize - 1 /\ cause \in 0 .. WordSize - 1
  BY <1>1, <1>2
<1>4. QED
  BY <1>3 DEF Mcause, Word

(* Every trap vector is an aligned word. *)
LEMMA VectorIsAligned ==
    ASSUME TypeOK, NEW cause \in Exception \cup Interrupt
    PROVE  TrapVector(cause) \in Word /\ TrapVector(cause) % 4 = 0
<1> DEFINE base == csr["mtvec"] - (csr["mtvec"] % 4)
<1>1. csr["mtvec"] \in Word
  BY DEF TypeOK, LiveCsr
<1>2. csr["mtvec"] \in Nat /\ csr["mtvec"] < WordSize /\ WordSize \in Nat
  BY <1>1, WordIsNat, WordSizeFacts
<1>3. base \in Nat /\ base <= WordSize - 1 /\ base % 4 = 0
  BY <1>2
<1>4. base \in Word
  BY <1>2, <1>3 DEF Word
<1>5. cause \in Nat /\ cause <= 11
  BY CausesAreSmall
<1>6. 4 * cause \in Nat /\ 4 * cause <= 255 /\ (4 * cause) % 4 = 0
  BY <1>5
<1>7. 4 * cause \in Word
  BY <1>6, SmallIsWord
<1>8. Add(base, 4 * cause) \in Word /\ Add(base, 4 * cause) % 4 = 0
  BY <1>3, <1>4, <1>6, <1>7, AddIsWord, AddAligned, Zenon
<1>9. TrapVector(cause) = base \/ TrapVector(cause) = Add(base, 4 * cause)
  BY DEF TrapVector
<1>10. QED
  BY <1>3, <1>4, <1>8, <1>9

LEMMA TrapCsrIsCsr ==
    ASSUME TypeOK, NEW cause \in Exception \cup Interrupt, NEW tval \in Word
    PROVE  TrapCsr(cause, tval) \in [LiveCsr -> Word]
<1>1. csr \in [LiveCsr -> Word] /\ pc \in Word /\ csr["mstatus"] \in Word
  BY DEF TypeOK, LiveCsr
<1>2. TrapStatus(csr["mstatus"]) \in Word /\ Mcause(cause) \in Word
  BY <1>1, StatusIsWord, McauseIsWord
<1>3. QED
  BY <1>1, <1>2 DEF TrapCsr

----------------------------------------------------------------------------
(* The three shapes of a hart_step. *)
Trapping == \E op \in Op, cause \in Exception, tval \in Word : CommitTrap(op, cause, tval)

Calling == /\ gpr' = [gpr EXCEPT ![0] = 0]
           /\ pc' = Pc4
           /\ retire' = Bare("ECALL", Pc4, TRAP_ECALL_M)
           /\ UNCHANGED <<csr, dev>>

(* The access of a record is one the bus has accepted. *)
Accessed(op, mem) ==
    /\ mem.dir = "write" => /\ mem.size \in AccessSize
                            /\ BusWrite(dev, mem.addr, mem.value, mem.size).ok
    /\ mem.dir = "read" =>
          /\ op \in LoadOps /\ mem.size = LoadSize[op]
          /\ LET got == BusRead(dev, mem.addr, mem.size)
             IN  /\ got.ok
                 /\ mem.value = IF op \in {"LB", "LH"} THEN Sext(got.val, mem.size) ELSE got.val

(* What a retiring instruction leaves: it has written at most rd, reached    *)
(* an aligned pc unless it is MRET, and changed the devices as its record    *)
(* says.                                                                     *)
Retiring(di, g, next_pc, mem) ==
    /\ Commit(di, g, next_pc, mem)
    /\ \/ g = gpr
       \/ g = [gpr EXCEPT ![di.rd] = g[di.rd]] /\ di.op \notin BranchOps \cup StoreOps
    /\ next_pc % 4 = 0 \/ di.op = "MRET"
    /\ csr' \in [LiveCsr -> Word]
    /\ dev' = IF mem.dir = "write"
              THEN BusWrite(dev, mem.addr, mem.value, mem.size).dev ELSE dev
    /\ dev' \in Devices
    /\ Accessed(di.op, mem)

Shape == \/ Trapping
         \/ pc % 4 = 0 /\ Calling
         \/ \E di \in Decoded, g \in [Reg -> Word], next_pc \in Word, mem \in Access :
               Retiring(di, g, next_pc, mem)

LEMMA NoAccessIsAccess == NoAccess \in Access /\ NoAccess.dir = "none"
<1>1. 0 \in Word
  BY SmallIsWord
<1>2. QED
  BY <1>1 DEF NoAccess, Access

(* An instruction that only computes a word. *)
LEMMA ComputeShape ==
    ASSUME TypeOK, pc % 4 = 0, NEW di \in Decoded, di.op \notin BranchOps \cup StoreOps,
           NEW v \in Word, NEW next_pc \in Word, next_pc % 4 = 0 \/ di.op = "MRET",
           Commit(di, SetRd(di, v), next_pc, NoAccess), csr' \in [LiveCsr -> Word],
           UNCHANGED dev
    PROVE  Shape
<1> DEFINE g == SetRd(di, v)
<1>1. g \in [Reg -> Word] /\ g = [gpr EXCEPT ![di.rd] = g[di.rd]]
  BY DEF TypeOK, SetRd, Decoded
<1>2. Retiring(di, g, next_pc, NoAccess)
  BY <1>1, NoAccessIsAccess DEF Retiring, TypeOK, Accessed
<1>3. QED
  BY <1>1, <1>2, NoAccessIsAccess DEF Shape

(* An instruction that leaves the registers alone. *)
LEMMA KeepShape ==
    ASSUME TypeOK, NEW di \in Decoded, NEW next_pc \in Word,
           next_pc % 4 = 0 \/ di.op = "MRET",
           Commit(di, gpr, next_pc, NoAccess), csr' \in [LiveCsr -> Word], UNCHANGED dev
    PROVE  Shape
<1>1. Retiring(di, gpr, next_pc, NoAccess)
  BY NoAccessIsAccess DEF Retiring, TypeOK, Accessed
<1>2. QED
  BY <1>1, NoAccessIsAccess DEF Shape, TypeOK

LEMMA Pc4Facts ==
    ASSUME TypeOK
    PROVE  Pc4 \in Word /\ (pc % 4 = 0 => Pc4 % 4 = 0)
<1>1. 4 \in Word /\ 4 % 4 = 0
  BY SmallIsWord
<1>2. pc \in Word
  BY DEF TypeOK
<1>3. QED
  BY <1>1, <1>2, AddIsWord, AddAligned, Zenon DEF Pc4

LEMMA OperandsAreWords ==
    ASSUME TypeOK, NEW di \in Decoded
    PROVE  /\ gpr[di.rs1] \in Word /\ gpr[di.rs2] \in Word /\ di.imm \in Word
           /\ EffAddr(di) \in Word /\ Add(pc, di.imm) \in Word
           /\ CsrOperand(di) \in Word /\ di.rs1 \in Word
<1>1. gpr[di.rs1] \in Word /\ gpr[di.rs2] \in Word /\ di.imm \in Word /\ pc \in Word
  BY DEF TypeOK, Decoded
<1>2. di.rs1 \in Word
  BY RegAssumption, WordSizeFacts DEF Decoded, Reg, Word
<1>3. QED
  BY <1>1, <1>2, AddIsWord DEF EffAddr, CsrOperand

----------------------------------------------------------------------------
(* Each instruction group has one of the shapes. *)
LEMMA TrapShape ==
    ASSUME NEW op \in Op, NEW cause \in Exception, NEW tval \in Word,
           CommitTrap(op, cause, tval)
    PROVE  Shape
  BY DEF Shape, Trapping

LEMMA JumpShape ==
    ASSUME TypeOK, pc % 4 = 0, NEW di \in Decoded, di.op \notin BranchOps \cup StoreOps,
           NEW target \in Word, JumpTo(di, target)
    PROVE  Shape
<1>1. CASE target % 4 # 0 /\ CommitTrap(di.op, TRAP_INSTR_MISALIGNED, target)
  BY <1>1, TrapShape, TrapCodes DEF Decoded
<1>2. CASE /\ target % 4 = 0
           /\ Commit(di, SetRd(di, Pc4), target, NoAccess)
           /\ UNCHANGED <<csr, dev>>
  <2>1. csr' \in [LiveCsr -> Word]
    BY <1>2 DEF TypeOK
  <2>2. QED
    BY <1>2, <2>1, ComputeShape, Pc4Facts
<1>3. QED
  BY <1>1, <1>2 DEF JumpTo

LEMMA JalrTargetIsWord ==
    ASSUME TypeOK, NEW di \in Decoded
    PROVE  JalrTarget(di) \in Word
<1> DEFINE t == Add(gpr[di.rs1], di.imm)
<1>1. t \in Word
  BY OperandsAreWords, AddIsWord
<1> HIDE DEF t
<1>2. t \in Nat /\ t < WordSize /\ WordSize \in Nat
  BY <1>1, WordIsNat, WordSizeFacts
<1>3. t - (t % 2) \in 0 .. WordSize - 1
  BY <1>2
<1>4. QED
  BY <1>3 DEF JalrTarget, Word, t

LEMMA BranchShape ==
    ASSUME TypeOK, pc % 4 = 0, NEW di \in Decoded, ExecBranch(di)
    PROVE  Shape
<1> DEFINE target == Add(pc, di.imm)
<1>1. target \in Word
  BY OperandsAreWords
<1>2. CASE Taken(di) /\ target % 4 # 0 /\ CommitTrap(di.op, TRAP_INSTR_MISALIGNED, target)
  BY <1>1, <1>2, TrapShape, TrapCodes DEF Decoded
<1>3. CASE /\ ~(Taken(di) /\ target % 4 # 0)
           /\ Commit(di, gpr, IF Taken(di) THEN target ELSE Pc4, NoAccess)
           /\ UNCHANGED <<csr, dev>>
  <2> DEFINE next_pc == IF Taken(di) THEN target ELSE Pc4
  <2>1. next_pc \in Word /\ next_pc % 4 = 0
    <3>1. Pc4 \in Word /\ Pc4 % 4 = 0
      BY Pc4Facts
    <3>2. CASE Taken(di)
      <4>1. target % 4 = 0
        BY <1>3, <3>2
      <4>2. next_pc = target
        BY <3>2, Zenon
      <4>3. QED
        BY <1>1, <4>1, <4>2, Zenon
    <3>3. CASE ~Taken(di)
      <4>1. next_pc = Pc4
        BY <3>3, Zenon
      <4>2. QED
        BY <3>1, <4>1, Zenon
    <3>4. QED
      BY <3>2, <3>3
  <2>2. Commit(di, gpr, next_pc, NoAccess) /\ UNCHANGED <<csr, dev>>
    BY <1>3
  <2> HIDE DEF next_pc
  <2>3. csr' \in [LiveCsr -> Word]
    BY <2>2 DEF TypeOK
  <2>4. QED
    BY <2>1, <2>2, <2>3, KeepShape
<1>4. QED
  BY <1>2, <1>3, Zenon DEF ExecBranch

LEMMA LoadShape ==
    ASSUME TypeOK, pc % 4 = 0, NEW di \in Decoded, ExecLoad(di)
    PROVE  Shape
<1> DEFINE n   == LoadSize[di.op]
           a   == EffAddr(di)
           got == BusRead(dev, a, n)
           v   == LoadedValue(di, n, got.val)
           mem == [dir |-> "read", addr |-> a, value |-> v, size |-> n]
<1>1. n \in AccessSize /\ a \in Word /\ dev \in Devices
  BY SizeOfAccess, OperandsAreWords DEF ExecLoad, TypeOK
<1>2. di.op \in LoadOps /\ di.op \in Op /\ di.op \notin BranchOps \cup StoreOps
  BY GroupsAreOps DEF ExecLoad
<1>3. \/ ~got.ok /\ CommitTrap(di.op, TRAP_LOAD_ACCESS_FAULT, 0)
      \/ /\ got.ok
         /\ Commit(di, SetRd(di, v), Pc4, mem)
         /\ UNCHANGED <<csr, dev>>
  BY Zenon DEF ExecLoad
<1>4. got.val \in 0 .. Span(n) - 1
  BY <1>1, BusReadIsWord
<1>5. v \in Word
  <2>1. Sext(got.val, n) \in Word /\ got.val \in Word
    BY <1>1, <1>4, SextIsWord
  <2>2. QED
    BY <2>1 DEF LoadedValue
<1>0. got.ok => Accessed(di.op, mem)
  BY <1>2 DEF Accessed, LoadedValue
<1> HIDE DEF n, a, got, v
<1>6. mem \in Access /\ mem.dir = "read"
  BY <1>1, <1>5 DEF Access
<1>7. CASE CommitTrap(di.op, TRAP_LOAD_ACCESS_FAULT, 0)
  BY <1>2, <1>7, TrapShape, TrapCodes, SmallIsWord
<1>8. CASE got.ok /\ Commit(di, SetRd(di, v), Pc4, mem) /\ UNCHANGED <<csr, dev>>
  <2> DEFINE g == SetRd(di, v)
  <2>1. g \in [Reg -> Word] /\ g = [gpr EXCEPT ![di.rd] = g[di.rd]]
    BY <1>5 DEF TypeOK, SetRd, Decoded
  <2>2. csr' \in [LiveCsr -> Word] /\ dev' \in Devices
    BY <1>8 DEF TypeOK
  <2>3. Pc4 \in Word /\ Pc4 % 4 = 0
    BY Pc4Facts
  <2> HIDE DEF mem
  <2>4. Retiring(di, g, Pc4, mem)
    BY <1>0, <1>2, <1>6, <1>8, <2>1, <2>2, <2>3 DEF Retiring
  <2> HIDE DEF g
  <2>5. QED
    BY <1>6, <2>1, <2>3, <2>4 DEF Shape
<1>9. QED
  BY <1>3, <1>7, <1>8

LEMMA StoreShape ==
    ASSUME TypeOK, pc % 4 = 0, NEW di \in Decoded, ExecStore(di)
    PROVE  Shape
<1> DEFINE n    == StoreSize[di.op]
           a    == EffAddr(di)
           v    == gpr[di.rs2] % Span(n)
           done == BusWrite(dev, a, v, n)
           mem  == [dir |-> "write", addr |-> a, value |-> v, size |-> n]
<1>1. n \in AccessSize /\ a \in Word /\ dev \in Devices
  BY SizeOfAccess, OperandsAreWords DEF ExecStore, TypeOK
<1>2. di.op \in Op
  BY DEF Decoded
<1>3. \/ ~done.ok /\ CommitTrap(di.op, TRAP_STORE_ACCESS_FAULT, 0)
      \/ /\ done.ok
         /\ Commit(di, gpr, Pc4, mem)
         /\ dev' = done.dev
         /\ UNCHANGED csr
  BY Zenon DEF ExecStore
<1> HIDE DEF n, a
<1>4. v \in Word
  <2>1. Span(n) \in Nat /\ Byte <= Span(n) /\ Span(n) <= WordSize /\ Byte >= 16 /\ Byte \in Nat
    BY <1>1, SpanFacts, WordSizeFacts
  <2>2. gpr[di.rs2] \in Nat
    BY OperandsAreWords, WordIsNat
  <2>3. v \in 0 .. Span(n) - 1
    BY <2>1, <2>2
  <2>4. QED
    BY <1>1, <2>3, SextIsWord
<1> HIDE DEF v
<1>5. done.dev \in Devices
  BY <1>1, <1>4, BusWriteIsDevices
<1>6. mem \in Access /\ mem.dir = "write"
  BY <1>1, <1>4 DEF Access
<1>7. /\ done.dev = BusWrite(dev, mem.addr, mem.value, mem.size).dev
      /\ done.ok => Accessed(di.op, mem)
  BY <1>1 DEF Accessed
<1> HIDE DEF mem, done
<1>8. CASE CommitTrap(di.op, TRAP_STORE_ACCESS_FAULT, 0)
  BY <1>2, <1>8, TrapShape, TrapCodes, SmallIsWord
<1>9. CASE done.ok /\ Commit(di, gpr, Pc4, mem) /\ dev' = done.dev /\ UNCHANGED csr
  <2>1. csr' \in [LiveCsr -> Word] /\ gpr \in [Reg -> Word]
    BY <1>9 DEF TypeOK
  <2>2. Pc4 \in Word /\ Pc4 % 4 = 0
    BY Pc4Facts
  <2>3. Retiring(di, gpr, Pc4, mem)
    BY <1>5, <1>6, <1>7, <1>9, <2>1, <2>2 DEF Retiring
  <2>4. QED
    BY <1>6, <2>1, <2>2, <2>3 DEF Shape
<1>10. QED
  BY <1>3, <1>8, <1>9

LEMMA CsrNewIsWord ==
    ASSUME TypeOK, NEW di \in Decoded, di.op \in CsrOps, NEW old \in Word
    PROVE  CsrNew(di, old) \in Word
<1>1. CsrOperand(di) \in Word
  BY OperandsAreWords
<1>2. BitOr(old, CsrOperand(di)) \in Word /\ BitClear(old, CsrOperand(di)) \in Word
  BY <1>1, BitopsAreWords
<1>3. CASE di.op \in {"CSRRW", "CSRRWI"}
  BY <1>1, <1>3, Zenon DEF CsrNew
<1>4. CASE di.op \in {"CSRRS", "CSRRSI"}
  <2>1. CsrNew(di, old) = BitOr(old, CsrOperand(di))
    BY <1>4, Zenon DEF CsrNew
  <2>2. QED
    BY <1>2, <2>1
<1>5. CASE di.op \in {"CSRRC", "CSRRCI"}
  <2>1. CsrNew(di, old) = BitClear(old, CsrOperand(di))
    BY <1>5, Zenon DEF CsrNew
  <2>2. QED
    BY <1>2, <2>1
<1>6. QED
  BY <1>3, <1>4, <1>5 DEF CsrOps, CsrRegOps, CsrImmOps

LEMMA CsrShape ==
    ASSUME TypeOK, pc % 4 = 0, NEW di \in Decoded, NEW instruction \in Word,
           ExecCsr(di, instruction)
    PROVE  Shape
<1>1. di.op \in CsrOps /\ di.op \in Op /\ di.op \notin BranchOps \cup StoreOps
  BY GroupsAreOps DEF ExecCsr
<1>2. Pc4 \in Word /\ Pc4 % 4 = 0
  BY Pc4Facts
<1>3. CASE CommitTrap(di.op, TRAP_ILLEGAL_INSTR, instruction)
  BY <1>1, <1>3, TrapShape, TrapCodes
<1>4. CASE Compute(di, IF di.csr = "misa" THEN Misa ELSE 0)
  <2> DEFINE v == IF di.csr = "misa" THEN Misa ELSE 0
  <2>1. v \in Word
    BY ResetAssumption, SmallIsWord
  <2>2. Commit(di, SetRd(di, v), Pc4, NoAccess) /\ UNCHANGED <<csr, dev>>
    BY <1>4 DEF Compute
  <2> HIDE DEF v
  <2>3. csr' \in [LiveCsr -> Word]
    BY <2>2 DEF TypeOK
  <2>4. QED
    BY <1>1, <1>2, <2>1, <2>2, <2>3, ComputeShape
<1>5. CASE /\ di.csr \in LiveCsr
           /\ Commit(di, SetRd(di, csr[di.csr]), Pc4, NoAccess)
           /\ csr' = IF WritesCsr(di)
                     THEN [csr EXCEPT ![di.csr] = CsrNew(di, csr[di.csr])]
                     ELSE csr
           /\ UNCHANGED dev
  <2>1. csr \in [LiveCsr -> Word] /\ csr[di.csr] \in Word
    BY <1>5 DEF TypeOK
  <2>2. CsrNew(di, csr[di.csr]) \in Word
    BY <1>1, <2>1, CsrNewIsWord
  <2>3. csr' \in [LiveCsr -> Word]
    BY <1>5, <2>1, <2>2
  <2>4. QED
    BY <1>1, <1>2, <1>5, <2>1, <2>3, ComputeShape
<1>6. QED
  BY <1>3, <1>4, <1>5, Zenon DEF ExecCsr

LEMMA MretShape ==
    ASSUME TypeOK, pc % 4 = 0, NEW di \in Decoded, ExecMret(di)
    PROVE  Shape
<1>1. csr["mepc"] \in Word /\ csr["mstatus"] \in Word /\ csr \in [LiveCsr -> Word]
  BY DEF TypeOK, LiveCsr
<1>2. MretStatus(csr["mstatus"]) \in Word
  BY <1>1, StatusIsWord
<1>3. csr' \in [LiveCsr -> Word]
  BY <1>1, <1>2 DEF ExecMret
<1>4. QED
  BY <1>1, <1>3, KeepShape DEF ExecMret

LEMMA ExecuteShape ==
    ASSUME TypeOK, pc % 4 = 0, NEW instruction \in Word, NEW di \in Decoded,
           Execute(di, instruction)
    PROVE  Shape
<1> USE TrapCodes
<1>1. /\ di.imm \in Word /\ Add(pc, di.imm) \in Word
      /\ gpr[di.rs1] \in Word /\ gpr[di.rs2] \in Word
  BY OperandsAreWords
<1>2. ASSUME NEW v \in Word, di.op \notin BranchOps \cup StoreOps, Compute(di, v)
      PROVE  Shape
  <2>1. csr' \in [LiveCsr -> Word]
    BY <1>2 DEF Compute, TypeOK
  <2>2. QED
    BY <1>2, <2>1, ComputeShape, Pc4Facts DEF Compute
<1>3. CASE ExecLui(di)
  BY <1>1, <1>2, <1>3, GroupsAreOps DEF ExecLui
<1>4. CASE ExecAuipc(di)
  BY <1>1, <1>2, <1>4, GroupsAreOps DEF ExecAuipc
<1>5. CASE ExecOp(di)
  <2>1. Alu(di.op, gpr[di.rs1], gpr[di.rs2]) \in Word
    BY <1>1, <1>5, AluIsWord DEF ExecOp
  <2>2. QED
    BY <1>2, <1>5, <2>1, GroupsAreOps DEF ExecOp
<1>6. CASE ExecOpImm(di)
  <2>1. Alu(ImmAlu[di.op], gpr[di.rs1], di.imm) \in Word
    BY <1>1, <1>6, SizeOfAccess, AluIsWord DEF ExecOpImm
  <2>2. QED
    BY <1>2, <1>6, <2>1, GroupsAreOps DEF ExecOpImm
<1>7. CASE ExecFence(di)
  <2>1. csr' \in [LiveCsr -> Word]
    BY <1>7 DEF ExecFence, TypeOK
  <2>2. QED
    BY <1>7, <2>1, KeepShape, Pc4Facts DEF ExecFence
<1>8. CASE ExecJal(di)
  BY <1>1, <1>8, JumpShape, GroupsAreOps DEF ExecJal
<1>9. CASE ExecJalr(di)
  BY <1>9, JumpShape, JalrTargetIsWord, GroupsAreOps DEF ExecJalr
<1>10. CASE ExecBranch(di)
  BY <1>10, BranchShape
<1>11. CASE ExecLoad(di)
  BY <1>11, LoadShape
<1>12. CASE ExecStore(di)
  BY <1>12, StoreShape
<1>13. CASE ExecCsr(di, instruction)
  BY <1>13, CsrShape
<1>14. CASE ExecEcall(di)
  BY <1>14 DEF ExecEcall, Shape, Calling, Bare
<1>15. CASE ExecMret(di)
  BY <1>15, MretShape
<1>16. QED
  BY <1>3, <1>4, <1>5, <1>6, <1>7, <1>8, <1>9, <1>10, <1>11, <1>12, <1>13, <1>14,
     <1>15 DEF Execute

(* Every hart_step has one of the three shapes. *)
LEMMA StepShape ==
    ASSUME TypeOK, HartStep
    PROVE  Shape
<1>1. dev \in Devices /\ pc \in Word /\ 4 \in AccessSize
  BY DEF TypeOK, AccessSize
<1>2. CASE FetchMisaligned
  BY <1>1, <1>2, TrapShape, TrapCodes, GroupsAreOps DEF FetchMisaligned
<1>3. CASE FetchFault
  BY <1>1, <1>3, TrapShape, TrapCodes, GroupsAreOps DEF FetchFault
<1>4. ASSUME NEW instruction \in FetchedWord, NEW di \in {Decode(instruction)},
             ExecIllegal(di, instruction) \/ Execute(di, instruction)
      PROVE  Shape
  <2>1. pc % 4 = 0 /\ instruction = Fetch.val
    BY <1>4 DEF FetchedWord
  <2>2. instruction \in Word
    BY <1>1, <2>1, BusReadIsWord DEF Fetch
  <2>3. di \in Decoded
    BY <2>2, DecodeAssumption
  <2>4. CASE ExecIllegal(di, instruction)
    BY <2>2, <2>3, <2>4, TrapShape, TrapCodes DEF ExecIllegal, Decoded
  <2>5. CASE Execute(di, instruction)
    BY <2>1, <2>2, <2>3, <2>5, ExecuteShape
  <2>6. QED
    BY <1>4, <2>4, <2>5
<1>5. QED
  BY <1>2, <1>3, <1>4 DEF HartStep

----------------------------------------------------------------------------
(* Type correctness. *)
LEMMA TypeInit == Init => TypeOK
<1> SUFFICES ASSUME Init PROVE TypeOK
  OBVIOUS
<1>1. 0 \in Word
  BY SmallIsWord
<1>2. gpr \in [Reg -> Word] /\ gpr[0] = 0 /\ csr \in [LiveCsr -> Word] /\ pc \in Word
  BY <1>1, ZeroIsReg, ResetAssumption DEF Init
<1>3. dev \in Devices
  <2>1. PICK image \in InitialRam :
           dev = [ram |-> image, uart |-> UartReset, halted |-> FALSE,
                  exit_code |-> 0, stdout |-> <<>>]
    BY DEF Init
  <2>2. image \in [RamCell -> ByteVal]
    BY LoadAssumption
  <2>3. <<>> \in Seq(ByteVal)
    OBVIOUS
  <2>4. QED
    BY <1>1, <2>1, <2>2, <2>3, ResetIsUart DEF Devices
<1>4. retire \in Retirement
  BY <1>1, ZeroIsReg, ResetAssumption, NoAccessIsAccess DEF Init, Retirement
<1>5. QED
  BY <1>2, <1>3, <1>4 DEF TypeOK

LEMMA BareIsRetirement ==
    ASSUME TypeOK, NEW op \in Op, NEW next_pc \in Word,
           NEW trap \in Exception \cup {TRAP_NONE, TRAP_ECALL_M}
    PROVE  Bare(op, next_pc, trap) \in Retirement
<1>1. 0 \in Word
  BY SmallIsWord
<1>2. QED
  BY <1>1, ZeroIsReg, NoAccessIsAccess DEF Bare, Retirement, TypeOK

LEMMA ShapeKeepsType == TypeOK /\ Shape => TypeOK'
<1> SUFFICES ASSUME TypeOK, Shape PROVE TypeOK'
  OBVIOUS
<1>1. 0 \in Word
  BY SmallIsWord
<1>2. ASSUME NEW g \in [Reg -> Word]
      PROVE  [g EXCEPT ![0] = 0] \in [Reg -> Word] /\ [g EXCEPT ![0] = 0][0] = 0
  BY <1>1, ZeroIsReg
<1>3. gpr \in [Reg -> Word] /\ csr \in [LiveCsr -> Word] /\ dev \in Devices
  BY DEF TypeOK
<1>4. ASSUME NEW op \in Op, NEW cause \in Exception, NEW tval \in Word,
             CommitTrap(op, cause, tval)
      PROVE  TypeOK'
  <2>1. TrapVector(cause) \in Word
    BY VectorIsAligned
  <2>2. TrapCsr(cause, tval) \in [LiveCsr -> Word]
    BY TrapCsrIsCsr
  <2>3. Bare(op, TrapVector(cause), cause) \in Retirement
    BY <2>1, BareIsRetirement
  <2>4. QED
    BY <1>2, <1>3, <1>4, <2>1, <2>2, <2>3 DEF CommitTrap, TypeOK
<1>5. CASE Calling
  <2>1. Bare("ECALL", Pc4, TRAP_ECALL_M) \in Retirement
    BY BareIsRetirement, Pc4Facts, GroupsAreOps
  <2>2. QED
    BY <1>2, <1>3, <1>5, <2>1, Pc4Facts DEF Calling, TypeOK
<1>6. ASSUME NEW di \in Decoded, NEW g \in [Reg -> Word], NEW next_pc \in Word,
             NEW mem \in Access, Retiring(di, g, next_pc, mem)
      PROVE  TypeOK'
  <2>1. di.op \in Op /\ di.rd \in Reg /\ pc \in Word
    BY DEF Decoded, TypeOK
  <2>2. gpr' \in [Reg -> Word] /\ gpr'[0] = 0 /\ pc' \in Word
    BY <1>2, <1>6 DEF Retiring, Commit
  <2>3. retire' \in Retirement
    <3>1. /\ (IF ReportsRd(di) THEN di.rd ELSE 0) \in Reg
          /\ (IF ReportsRd(di) THEN g[di.rd] ELSE 0) \in Word
      BY <1>1, <2>1, ZeroIsReg
    <3>2. ReportsRd(di) \in BOOLEAN
      BY DEF ReportsRd
    <3>3. QED
      BY <1>6, <2>1, <3>1, <3>2 DEF Retiring, Commit, Retirement
  <2>4. QED
    BY <1>6, <2>2, <2>3 DEF Retiring, TypeOK
<1>7. QED
  BY <1>4, <1>5, <1>6 DEF Shape, Trapping

LEMMA InterruptKeepsType == TypeOK /\ RaiseInterrupt => TypeOK'
<1> SUFFICES ASSUME TypeOK, NEW cause \in Interrupt,
                    pc' = TrapVector(cause), csr' = TrapCsr(cause, 0),
                    UNCHANGED <<gpr, dev, retire>>
             PROVE  TypeOK'
  BY DEF RaiseInterrupt
<1>1. TrapVector(cause) \in Word /\ TrapCsr(cause, 0) \in [LiveCsr -> Word]
  BY VectorIsAligned, TrapCsrIsCsr, SmallIsWord
<1>2. QED
  BY <1>1 DEF TypeOK

LEMMA TypeStep == TypeOK /\ [Next]_vars => TypeOK'
<1> SUFFICES ASSUME TypeOK, [Next]_vars PROVE TypeOK'
  OBVIOUS
<1>1. CASE HartStep
  BY <1>1, StepShape, ShapeKeepsType
<1>2. CASE RaiseInterrupt
  BY <1>2, InterruptKeepsType
<1>3. CASE UNCHANGED vars
  BY <1>3 DEF vars, TypeOK
<1>4. QED
  BY <1>1, <1>2, <1>3 DEF Next

(* Every register, CSR, device and record keeps its type, x0 is always zero, *)
(* and no computation escapes the width of a word, under any program and any *)
(* interrupts.                                                               *)
THEOREM TypeCorrect == Spec => []TypeOK
  BY TypeInit, TypeStep, PTL DEF Spec

----------------------------------------------------------------------------
LEMMA ClearedIsSame == TypeOK => [gpr EXCEPT ![0] = 0] = gpr
  BY ZeroIsReg DEF TypeOK

(* An instruction that traps has written no register and changed no device, *)
(* whatever it was, and so has an ECALL.                                    *)
THEOREM TrapsArePrecise == Spec => PreciseTrap
<1> DEFINE Precise == retire'.trap # TRAP_NONE => gpr' = gpr /\ dev' = dev
<1>1. TypeOK /\ [Next]_vars => [Precise]_vars
  <2> SUFFICES ASSUME TypeOK, Next PROVE Precise
    OBVIOUS
  <2>1. CASE RaiseInterrupt
    BY <2>1 DEF RaiseInterrupt
  <2>2. CASE HartStep
    <3>1. Shape
      BY <2>2, StepShape
    <3>2. CASE Trapping
      BY <3>2, ClearedIsSame DEF Trapping, CommitTrap
    <3>3. CASE Calling
      BY <3>3, ClearedIsSame DEF Calling
    <3>4. ASSUME NEW di \in Decoded, NEW g \in [Reg -> Word], NEW next_pc \in Word,
                 NEW mem \in Access, Retiring(di, g, next_pc, mem)
          PROVE  Precise
      BY <3>4 DEF Retiring, Commit
    <3>5. QED
      BY <3>1, <3>2, <3>3, <3>4 DEF Shape
  <2>3. QED
    BY <2>1, <2>2 DEF Next
<1>2. QED
  BY <1>1, TypeInit, TypeStep, PTL DEF Spec, PreciseTrap

----------------------------------------------------------------------------
LEMMA AlignedInit == Init => MisalignedOnlyByMret
  BY DEF Init, MisalignedOnlyByMret

LEMMA AlignedStep == TypeOK /\ MisalignedOnlyByMret /\ [Next]_vars => MisalignedOnlyByMret'
<1> SUFFICES ASSUME TypeOK, MisalignedOnlyByMret, [Next]_vars
             PROVE  MisalignedOnlyByMret'
  OBVIOUS
<1>1. CASE RaiseInterrupt
  BY <1>1, VectorIsAligned DEF RaiseInterrupt, MisalignedOnlyByMret
<1>2. CASE HartStep
  <2>1. Shape
    BY <1>2, StepShape
  <2>2. CASE Trapping
    BY <2>2, VectorIsAligned DEF Trapping, CommitTrap, MisalignedOnlyByMret
  <2>3. CASE pc % 4 = 0 /\ Calling
    BY <2>3, Pc4Facts DEF Calling, MisalignedOnlyByMret
  <2>4. ASSUME NEW di \in Decoded, NEW g \in [Reg -> Word], NEW next_pc \in Word,
               NEW mem \in Access, Retiring(di, g, next_pc, mem)
        PROVE  MisalignedOnlyByMret'
    <3>1. /\ pc' = next_pc /\ retire'.next_pc = next_pc /\ retire'.op = di.op
          /\ next_pc % 4 = 0 \/ di.op = "MRET"
      BY <2>4 DEF Retiring, Commit
    <3>2. QED
      BY <3>1 DEF MisalignedOnlyByMret
  <2>5. QED
    BY <2>1, <2>2, <2>3, <2>4 DEF Shape
<1>3. CASE UNCHANGED vars
  BY <1>3 DEF vars, MisalignedOnlyByMret
<1>4. QED
  BY <1>1, <1>2, <1>3 DEF Next

(* A misaligned pc comes only from mepc through MRET or from the reset pc:  *)
(* no branch, jump, trap vector or interrupt ever leads to one.             *)
THEOREM PcStaysAligned == Spec => []MisalignedOnlyByMret
  BY TypeInit, TypeStep, AlignedInit, AlignedStep, PTL DEF Spec

----------------------------------------------------------------------------
(* The record of a step describes it. *)
LEMMA ShapeIsRecorded == TypeOK /\ Shape => Recorded
<1> SUFFICES ASSUME TypeOK, Shape PROVE Recorded
  OBVIOUS
<1>1. gpr \in [Reg -> Word] /\ gpr[0] = 0 /\ 0 \in Reg
  BY ZeroIsReg DEF TypeOK
<1>2. ASSUME NEW op, NEW next_pc, NEW trap,
             retire' = Bare(op, next_pc, trap), pc' = next_pc,
             gpr' = [gpr EXCEPT ![0] = 0], dev' = dev
      PROVE  Recorded
  BY <1>2, ClearedIsSame, NoAccessIsAccess
     DEF Recorded, ReplayRegs, ReplayDevices, Bare
<1>3. CASE Trapping
  BY <1>2, <1>3 DEF Trapping, CommitTrap
<1>4. CASE Calling
  BY <1>2, <1>4 DEF Calling
<1>5. ASSUME NEW di \in Decoded, NEW g \in [Reg -> Word], NEW next_pc \in Word,
             NEW mem \in Access, Retiring(di, g, next_pc, mem)
      PROVE  Recorded
  <2>1. /\ gpr' = [g EXCEPT ![0] = 0] /\ pc' = next_pc
        /\ retire'.pc = pc /\ retire'.next_pc = next_pc /\ retire'.mem = mem
        /\ retire'.rd_written = ReportsRd(di)
        /\ ReportsRd(di) => retire'.rd = di.rd /\ retire'.rd_value = g[di.rd]
    BY <1>5 DEF Retiring, Commit
  <2>2. di.rd \in Reg
    BY DEF Decoded
  <2>3. gpr' = ReplayRegs(gpr, retire')
    <3>1. CASE ReportsRd(di)
      <4>1. di.rd # 0
        BY <3>1 DEF ReportsRd
      <4>2. g = [gpr EXCEPT ![di.rd] = g[di.rd]]
        BY <1>1, <1>5, <2>2 DEF Retiring
      <4>3. [g EXCEPT ![0] = 0] = g
        BY <1>1, <2>2, <4>1, <4>2
      <4>4. QED
        BY <2>1, <3>1, <4>2, <4>3 DEF ReplayRegs
    <3>2. CASE ~ReportsRd(di)
      <4>1. g = gpr \/ (g = [gpr EXCEPT ![di.rd] = g[di.rd]] /\ di.rd = 0)
        BY <1>5, <3>2 DEF Retiring, ReportsRd
      <4>2. [g EXCEPT ![0] = 0] = gpr
        BY <1>1, <4>1
      <4>3. QED
        BY <2>1, <3>2, <4>2 DEF ReplayRegs
    <3>3. QED
      BY <3>1, <3>2
  <2>4. dev' = ReplayDevices(dev, retire')
    BY <1>5, <2>1 DEF Retiring, ReplayDevices
  <2>5. QED
    BY <2>1, <2>3, <2>4 DEF Recorded
<1>6. QED
  BY <1>3, <1>4, <1>5 DEF Shape

(* include/rve/hart.h 71: the retirement record completely describes the    *)
(* effects of an instruction on the registers and the devices, for every    *)
(* instruction, taken or trapped.                                           *)
THEOREM RecordIsComplete == Spec => RecordComplete
<1>1. TypeOK /\ [Next]_vars => [Recorded \/ RaiseInterrupt]_vars
  BY StepShape, ShapeIsRecorded DEF Next
<1>2. QED
  BY <1>1, TypeInit, TypeStep, PTL DEF Spec, RecordComplete

----------------------------------------------------------------------------
(* Division, from what \div gives of natural numbers. *)
LEMMA DivideNat ==
    ASSUME NEW n \in Nat, NEW m \in Nat, m > 0
    PROVE  /\ n \div m \in Nat /\ n \div m <= n /\ (m > 1 /\ n > 0 => n \div m < n)
           /\ m * (n \div m) <= n /\ n < m * (n \div m) + m
<1> DEFINE q == n \div m
<1>1. q \in Int /\ m * q <= n /\ n < m * q + m
  OBVIOUS
<1>2. q >= 0
  <2> SUFFICES ASSUME q < 0 PROVE FALSE
    BY <1>1
  <2>1. m * q <= m * (-1)
    BY <1>1
  <2>2. QED
    BY <1>1, <2>1
<1>3. m * q >= q
  BY <1>1, <1>2
<1>4. ASSUME m > 1, n > 0 PROVE q < n
  <2>1. CASE q = 0
    BY <1>4, <2>1
  <2>2. CASE q > 0
    <3>1. m * q >= 2 * q
      BY <1>1, <1>4, <2>2
    <3>2. QED
      BY <1>1, <2>2, <3>1
  <2>3. QED
    BY <1>1, <1>2, <2>1, <2>2
<1>5. QED
  BY <1>1, <1>2, <1>3, <1>4

LEMMA MultipleMod ==
    ASSUME NEW m \in Nat, m > 0, NEW k \in Int
    PROVE  (m * k) % m = 0
  OBVIOUS

(* The quotient and the remainder of C are the exact ones. *)
LEMMA QuotIsExact ==
    ASSUME NEW x \in Int, NEW y \in Int, y # 0
    PROVE  /\ Exact(x, y, x - y * Quot(x, y))
           /\ Abs(Quot(x, y)) <= Abs(x)
           /\ Abs(y) > 1 /\ x # 0 => Abs(Quot(x, y)) < Abs(x)
           /\ y = 1 => Quot(x, y) = x
           /\ y = -1 => Quot(x, y) = -x
<1> DEFINE n == Abs(x)
           m == Abs(y)
           q == n \div m
<1>1. n \in Nat /\ m \in Nat /\ m > 0
  BY DEF Abs
<1>2. /\ q \in Nat /\ q <= n /\ (m > 1 /\ n > 0 => q < n)
      /\ m * q <= n /\ n < m * q + m
  BY <1>1, DivideNat
<1>3. m = 1 => q = n
  BY <1>1, <1>2
<1>4. Quot(x, y) = IF (x < 0) = (y < 0) THEN q ELSE -q
  BY DEF Quot
<1>5. y * Quot(x, y) = IF x < 0 THEN -(m * q) ELSE m * q
  <2>1. CASE x < 0 /\ y < 0
    BY <1>2, <1>4, <2>1 DEF Abs
  <2>2. CASE x < 0 /\ ~(y < 0)
    BY <1>2, <1>4, <2>2 DEF Abs
  <2>3. CASE ~(x < 0) /\ y < 0
    BY <1>2, <1>4, <2>3 DEF Abs
  <2>4. CASE ~(x < 0) /\ ~(y < 0)
    BY <1>2, <1>4, <2>4 DEF Abs
  <2>5. QED
    BY <2>1, <2>2, <2>3, <2>4
<1>6. m * q \in Int
  BY <1>1, <1>2
<1>7. x = IF x < 0 THEN -n ELSE n
  BY DEF Abs
<1>8. (x - (x - y * Quot(x, y))) % m = 0
  <2>1. PICK k \in Int : y * Quot(x, y) = m * k
    <3>1. CASE x < 0
      <4>1. y * Quot(x, y) = m * (-q) /\ -q \in Int
        BY <1>1, <1>2, <1>5, <3>1
      <4>2. QED
        BY <4>1
    <3>2. CASE ~(x < 0)
      <4>1. y * Quot(x, y) = m * q /\ q \in Int
        BY <1>2, <1>5, <3>2
      <4>2. QED
        BY <4>1
    <3>3. QED
      BY <3>1, <3>2
  <2>2. x - (x - y * Quot(x, y)) = m * k
    BY <1>1, <2>1
  <2>3. QED
    BY <1>1, <2>2, MultipleMod
<1>9. LET r == x - y * Quot(x, y)
      IN  Abs(r) < m /\ (r < 0 => x < 0) /\ (r > 0 => x > 0)
  <2>1. CASE x < 0
    BY <1>1, <1>2, <1>5, <1>6, <1>7, <2>1 DEF Abs
  <2>2. CASE ~(x < 0)
    BY <1>1, <1>2, <1>5, <1>6, <1>7, <2>2 DEF Abs
  <2>3. QED
    BY <2>1, <2>2
<1>10. /\ Abs(Quot(x, y)) = q
  BY <1>2, <1>4 DEF Abs
<1>11. y = 1 \/ y = -1 => m = 1
  BY DEF Abs
<1>12. /\ y = 1 => Quot(x, y) = x
       /\ y = -1 => Quot(x, y) = -x
  BY <1>1, <1>3, <1>4, <1>7, <1>11
<1>13. x # 0 => n > 0
  BY DEF Abs
<1>14. QED
  BY <1>2, <1>8, <1>9, <1>10, <1>12, <1>13 DEF Exact

(* A word read as signed, and the word of a signed value. *)
LEMMA SignedRange ==
    ASSUME NEW w \in Word
    PROVE  /\ Signed(w) \in Int
           /\ -(WordSize \div 2) <= Signed(w) /\ Signed(w) < WordSize \div 2
           /\ Signed(w) = -(WordSize \div 2) => w = WordSize \div 2
           /\ Signed(w) = 0 <=> w = 0
<1>1. PICK Q \in Nat : WordSize = 65536 * Q
  BY WordSizeFacts
<1>2. WordSize \div 2 = 32768 * Q
  BY <1>1
<1>3. QED
  BY <1>1, <1>2, WordIsNat DEF Signed

LEMMA SignedOfMod ==
    ASSUME NEW x \in Int, -(WordSize \div 2) <= x, x < WordSize \div 2
    PROVE  Signed(x % WordSize) = x
<1>1. PICK Q \in Nat : WordSize = 65536 * Q /\ Q > 0
  BY WordSizeFacts
<1> DEFINE half == WordSize \div 2
<1>2. half \in Nat /\ WordSize = 2 * half /\ half > 0
  BY <1>1
<1>3. CASE x >= 0
  <2>1. x % WordSize = x
    BY <1>2, <1>3
  <2>2. QED
    BY <1>2, <1>3, <2>1 DEF Signed
<1>4. CASE x < 0
  <2>1. x % WordSize = x + WordSize
    BY <1>2, <1>4
  <2>2. QED
    BY <1>2, <1>4, <2>1 DEF Signed
<1>5. QED
  BY <1>3, <1>4

(* A division retires what the manual asks. *)
LEMMA SignedDivision ==
    ASSUME NEW a \in Word, NEW b \in Word
    PROVE  Divided("DIV", a, b, Div(a, b)) /\ Divided("REM", a, b, Remw(a, b))
<1> DEFINE x == Signed(a)
           y == Signed(b)
           h == WordSize \div 2
<1>1. /\ x \in Int /\ y \in Int /\ (y = 0 <=> b = 0) /\ (x = -h => a = h)
      /\ -h <= x /\ x < h /\ -h <= y /\ y < h
  BY SignedRange
<1>2. h \in Nat /\ h > 1
  BY WordSizeFacts
<1>3. CASE b = 0
  BY <1>1, <1>3 DEF Divided, Div, Remw, Operand
<1>4. CASE b # 0 /\ Overflows(a, b)
  BY <1>1, <1>4 DEF Divided, Div, Remw, Operand, Overflows
<1>5. CASE b # 0 /\ ~Overflows(a, b)
  <2>1. y # 0
    BY <1>1, <1>5
  <2> DEFINE q == Quot(x, y)
             r == x - y * q
  <2>2. /\ q \in Int /\ Exact(x, y, r) /\ Abs(q) <= Abs(x)
        /\ Abs(y) > 1 /\ x # 0 => Abs(q) < Abs(x)
        /\ y = 1 => q = x
        /\ y = -1 => q = -x
    BY <1>1, <2>1, QuotIsExact, QuotIsInt
  <2>3. r \in Int /\ Abs(r) < Abs(y)
    BY <1>1, <2>2 DEF Exact
  <2>4. -h <= q /\ q < h
    <3>1. x = -h => y # -1
      BY <1>1, <1>5 DEF Overflows
    <3>2. y = 1 \/ y = -1 \/ Abs(y) > 1
      BY <1>1, <2>1 DEF Abs
    <3> HIDE DEF x, y, h, q
    <3>3. QED
      BY <1>1, <1>2, <2>2, <3>1, <3>2 DEF Abs
  <2>5. -h <= r /\ r < h
    <3> HIDE DEF x, y, h, r
    <3>1. QED
      BY <1>1, <1>2, <2>3 DEF Abs
  <2>6. Div(a, b) = q % WordSize /\ Remw(a, b) = r % WordSize
    BY <1>5 DEF Div, Remw, Rem
  <2>7. Signed(Div(a, b)) = q /\ Signed(Remw(a, b)) = r
    <3> HIDE DEF h, q, r
    <3>1. q % WordSize = Div(a, b) /\ Signed(q % WordSize) = q
      BY <2>2, <2>4, <2>6, SignedOfMod DEF h
    <3>2. r % WordSize = Remw(a, b) /\ Signed(r % WordSize) = r
      BY <2>3, <2>5, <2>6, SignedOfMod DEF h
    <3>3. QED
      BY <3>1, <3>2
  <2>8. QED
    BY <1>5, <2>1, <2>2, <2>7, Zenon DEF Divided, Operand, Remainder
<1>6. QED
  BY <1>3, <1>4, <1>5

LEMMA UnsignedDivision ==
    ASSUME NEW a \in Word, NEW b \in Word
    PROVE  /\ Divided("DIVU", a, b, IF b = 0 THEN WordSize - 1 ELSE (a \div b) % WordSize)
           /\ Divided("REMU", a, b, IF b = 0 THEN a ELSE a % b)
<1>1. a \in Nat /\ b \in Nat /\ a < WordSize /\ WordSize \in Nat
  BY WordIsNat, WordSizeFacts
<1>2. CASE b = 0
  BY <1>1, <1>2 DEF Divided, Operand
<1>3. CASE b # 0
  <2> DEFINE q == a \div b
             r == a - b * q
  <2>1. q \in Nat /\ q <= a /\ b * q <= a /\ a < b * q + b
    BY <1>1, <1>3, DivideNat
  <2>2. q % WordSize = q
    BY <1>1, <2>1
  <2>3. a % b = r
    BY <1>1, <1>3
  <2>4. Exact(a, b, r)
    <3>1. (b * q) % b = 0
      BY <1>1, <1>3, <2>1, MultipleMod
    <3>2. r \in Int /\ a - r = b * q /\ 0 <= r /\ r < b
      BY <1>1, <2>1
    <3>3. Abs(b) = b /\ Abs(r) = r
      BY <1>1, <3>2 DEF Abs
    <3> HIDE DEF r, q
    <3>4. r > 0 => a > 0
      BY <1>1, <2>1, <3>2
    <3>5. QED
      BY <3>1, <3>2, <3>3, <3>4 DEF Exact
  <2>5. QED
    BY <1>3, <2>2, <2>3, <2>4, Zenon DEF Divided, Operand, Remainder
<1>4. QED
  BY <1>2, <1>3

LEMMA AluDivides ==
    ASSUME NEW op \in Divisions, NEW a \in Word, NEW b \in Word
    PROVE  Divided(op, a, b, Alu(op, a, b))
<1>1. CASE op = "DIV" \/ op = "REM"
  BY <1>1, SignedDivision, AluArms
<1>2. CASE op = "DIVU" \/ op = "REMU"
  BY <1>2, UnsignedDivision, AluArms
<1>3. QED
  BY <1>1, <1>2 DEF Divisions

(* The op of the record is the instruction's, whatever its group. *)
LEMMA OpOfRecord ==
    ASSUME NEW di, NEW instruction, ExecIllegal(di, instruction) \/ Execute(di, instruction)
    PROVE  retire'.op = di.op
<1>1. ASSUME NEW cause, NEW tval, CommitTrap(di.op, cause, tval) PROVE retire'.op = di.op
  BY <1>1 DEF CommitTrap, Bare
<1>2. ASSUME NEW g, NEW next_pc, NEW mem, Commit(di, g, next_pc, mem) PROVE retire'.op = di.op
  BY <1>2 DEF Commit
<1>3. ASSUME NEW v, Compute(di, v) PROVE retire'.op = di.op
  BY <1>2, <1>3 DEF Compute
<1>4. ASSUME NEW target, JumpTo(di, target) PROVE retire'.op = di.op
  BY <1>1, <1>2, <1>4 DEF JumpTo
<1>5. CASE ExecIllegal(di, instruction)
  BY <1>1, <1>5 DEF ExecIllegal
<1>6. CASE ExecLui(di) \/ ExecAuipc(di) \/ ExecOp(di) \/ ExecOpImm(di) \/ ExecFence(di)
  BY <1>2, <1>3, <1>6 DEF ExecLui, ExecAuipc, ExecOp, ExecOpImm, ExecFence
<1>7. CASE ExecJal(di) \/ ExecJalr(di) \/ ExecBranch(di)
  BY <1>1, <1>2, <1>4, <1>7 DEF ExecJal, ExecJalr, ExecBranch
<1>8. CASE ExecLoad(di) \/ ExecStore(di)
  BY <1>1, <1>2, <1>8 DEF ExecLoad, ExecStore
<1>9. CASE ExecCsr(di, instruction)
  BY <1>1, <1>2, <1>3, <1>9 DEF ExecCsr
<1>10. CASE ExecEcall(di) \/ ExecMret(di)
  BY <1>2, <1>10 DEF ExecEcall, ExecMret, Bare
<1>11. QED
  BY <1>5, <1>6, <1>7, <1>8, <1>9, <1>10 DEF Execute

(* A division that has written its register was one of the OP group. *)
LEMMA DivisionIsOp ==
    ASSUME NEW di, NEW instruction, di.op \in Divisions, retire'.rd_written,
           ExecIllegal(di, instruction) \/ Execute(di, instruction)
    PROVE  ExecOp(di)
<1>1. di.op \in AluOps /\ di.op \notin BranchOps \cup LoadOps \cup StoreOps \cup ImmOps
        \cup CsrOps \cup FenceOps
        \cup {"LUI", "AUIPC", "JAL", "JALR", "ECALL", "MRET"}
  BY DEF Divisions, AluOps, BranchOps, LoadOps, StoreOps, ImmOps, CsrOps, CsrRegOps,
         CsrImmOps, FenceOps
<1>2. CASE ExecIllegal(di, instruction)
  BY <1>2 DEF ExecIllegal, CommitTrap, Bare
<1>3. CASE Execute(di, instruction)
  BY <1>1, <1>3, Zenon DEF Execute, ExecLui, ExecAuipc, ExecOpImm, ExecFence, ExecJal,
         ExecJalr, ExecBranch, ExecLoad, ExecStore, ExecCsr, ExecEcall, ExecMret
<1>4. QED
  BY <1>2, <1>3

LEMMA StepDivides ==
    ASSUME TypeOK, HartStep, retire'.op \in Divisions, retire'.rd_written,
           NEW instruction \in FetchedWord
    PROVE  LET di == Decode(instruction)
           IN  Divided(di.op, gpr[di.rs1], gpr[di.rs2], retire'.rd_value)
<1> DEFINE di == Decode(instruction)
<1>1. pc % 4 = 0 /\ Fetch.ok /\ FetchedWord = {instruction}
  BY DEF FetchedWord
<1>2. ExecIllegal(di, instruction) \/ Execute(di, instruction)
  BY <1>1 DEF HartStep, FetchMisaligned, FetchFault
<1>3. di.op \in Divisions /\ ExecOp(di)
  BY <1>2, OpOfRecord, DivisionIsOp
<1>4. di \in Decoded
  <2>1. instruction \in Word
    BY <1>1, BusReadIsWord DEF FetchedWord, Fetch, TypeOK, AccessSize
  <2>2. QED
    BY <2>1, DecodeAssumption
<1>5. gpr[di.rs1] \in Word /\ gpr[di.rs2] \in Word
  BY <1>4, OperandsAreWords
<1>6. retire'.rd_value = Alu(di.op, gpr[di.rs1], gpr[di.rs2])
  BY <1>3, <1>4 DEF ExecOp, Compute, Commit, SetRd, TypeOK, Decoded
<1>7. QED
  BY <1>3, <1>5, <1>6, AluDivides

(* The quotients and remainders of every execution are those of the manual,  *)
(* for every word size and every pair of operands.                           *)
THEOREM DivisionsAreExact == Spec => DividesByTheManual
<1> DEFINE Divides ==
    \/ retire'.op \notin Divisions \/ ~retire'.rd_written \/ RaiseInterrupt
    \/ \A instruction \in FetchedWord :
          LET di == Decode(instruction)
          IN  Divided(di.op, gpr[di.rs1], gpr[di.rs2], retire'.rd_value)
<1>1. TypeOK /\ [Next]_vars => [Divides]_vars
  <2> SUFFICES ASSUME TypeOK, HartStep PROVE Divides
    BY DEF Next
  <2>1. QED
    BY StepDivides
<1>2. QED
  BY <1>1, TypeInit, TypeStep, PTL DEF Spec, DividesByTheManual

----------------------------------------------------------------------------
(* Memory is bytes. *)

(* What the bus reads at an address of a RAM. *)
LEMMA ByteInRam ==
    ASSUME NEW d \in Devices, NEW a \in Word, InRam(a)
    PROVE  LET s == Owner(Map, a)
           IN  /\ s \in RamSlot /\ Map[s].start \in Nat /\ Map[s].size \in Nat /\ a \in Nat
               /\ RamHolds(s, a, 1) =>
                     /\ <<s, a - Map[s].start>> \in RamCell
                     /\ BusRead(d, a, 1) = Value(d.ram[<<s, a - Map[s].start>>])
               /\ ~RamHolds(s, a, 1) => BusRead(d, a, 1) = Fault
<1> DEFINE s == Owner(Map, a)
<1>1. s # NoSlot /\ Map[s].kind = "ram" /\ s \in RamSlot
  BY OwnerIsSlot DEF InRam, RamSlot
<1>2. Map[s].start \in Nat /\ Map[s].size \in Nat /\ a \in Nat
  BY <1>1, KindOfSlot, WordIsNat DEF RamSlot
<1>3. BusRead(d, a, 1) = IF RamHolds(s, a, 1) THEN Value(RamRead(d.ram, s, a, 1)) ELSE Fault
  BY <1>1, BusReadArms, Zenon
<1>4. d.ram \in [RamCell -> ByteVal]
  BY DEF Devices
<1>5. QED
  BY <1>1, <1>2, <1>3, <1>4, ReadByte

LEMMA RamAddrIsWord == ASSUME NEW a \in RamAddr PROVE a \in Word /\ InRam(a)
<1>1. PICK s \in RamSlot : a \in Map[s].start .. Map[s].end - 1
  BY DEF RamAddr
<1>2. Map[s].start \in Word /\ Map[s].end \in Word
  BY MapAssumption DEF RamSlot
<1>3. Map[s].start \in Nat /\ Map[s].end \in Nat /\ Map[s].end < WordSize /\ WordSize \in Nat
  BY <1>2, WordIsNat, WordSizeFacts
<1>4. a \in Word
  BY <1>1, <1>3 DEF Word
<1>5. QED
  BY <1>4 DEF RamAddr

(* What a write the bus accepts leaves in the RAM. *)
LEMMA StoredRam ==
    ASSUME NEW d \in Devices, NEW a \in Word, NEW v, NEW n,
           BusWrite(d, a, v, n).ok
    PROVE  /\ InRam(a) =>
                 /\ RamHolds(Owner(Map, a), a, n)
                 /\ BusWrite(d, a, v, n).dev.ram = RamWrite(d.ram, Owner(Map, a), a, v, n)
           /\ ~InRam(a) => BusWrite(d, a, v, n).dev.ram = d.ram
<1> DEFINE s == Owner(Map, a)
           e == BusWrite(d, a, v, n)
           w == RamWrite(d.ram, s, a, v, n)
           f == [d EXCEPT !.ram = w]
<1>0. e.ok
  OBVIOUS
<1>1. Owner(Map, a) # NoSlot
  <2>1. ~Refused(d).ok
    BY DEF Refused
  <2>2. QED
    BY <2>1, BusWriteArms, Zenon
<1>2. Map[s].kind \in {"ram", "tohost", "uart"}
  BY <1>1, OwnerIsSlot, KindOfSlot
<1>3. InRam(a) <=> Map[s].kind = "ram"
  BY <1>1 DEF InRam
<1>4. Map[s].kind = "tohost" => e = Accepted(TohostWrite(d, v))
  BY <1>1, BusWriteArms, Zenon
<1>5. Map[s].kind = "uart" => e = Accepted(UartStore(d, a % 8, v % Byte))
  BY <1>1, BusWriteArms, Zenon
<1>6. Map[s].kind = "ram" => e = IF RamHolds(s, a, n) THEN Accepted(f) ELSE Refused(d)
  BY <1>1, BusWriteArms, Zenon
<1>7. TohostWrite(d, v).ram = d.ram /\ UartStore(d, a % 8, v % Byte).ram = d.ram
  BY DEF TohostWrite, UartStore, Devices
<1>8. f.ram = w
  BY DEF Devices
<1>9. \A x : Accepted(x).dev = x /\ ~Refused(x).ok
  BY DEF Accepted, Refused
<1> HIDE DEF f
<1> HIDE DEF s, e, w
<1>10. CASE Map[s].kind = "ram"
  <2>1. RamHolds(s, a, n)
    BY <1>6, <1>9, <1>10, <1>0
  <2>2. e.dev.ram = w
    BY <1>6, <1>8, <1>9, <1>10, <2>1
  <2>3. QED
    BY <1>3, <1>10, <2>1, <2>2 DEF s, e, w
<1>11. CASE Map[s].kind # "ram"
  <2>1. e.dev.ram = d.ram
    BY <1>2, <1>4, <1>5, <1>7, <1>9, <1>11
  <2>2. QED
    BY <1>3, <1>11, <2>1 DEF s, e
<1>12. QED
  BY <1>10, <1>11

(* A store can be read back, and changes no other byte of a RAM. *)
LEMMA StoreIsRead ==
    ASSUME dev \in Devices, dev' \in Devices, NEW mem \in Access, mem.size \in AccessSize,
           BusWrite(dev, mem.addr, mem.value, mem.size).ok,
           dev' = BusWrite(dev, mem.addr, mem.value, mem.size).dev
    PROVE  StoreReads(mem)
<1> DEFINE addr == mem.addr
           v    == mem.value
           n    == mem.size
           s    == Owner(Map, addr)
<1>1. addr \in Word /\ v \in Word /\ n \in AccessSize /\ addr \in Nat /\ n \in Nat
  BY WordIsNat DEF Access, AccessSize
<1>2. /\ InRam(addr) => RamHolds(s, addr, n) /\ dev'.ram = RamWrite(dev.ram, s, addr, v, n)
      /\ ~InRam(addr) => dev'.ram = dev.ram
  BY <1>1, StoredRam
<1> HIDE DEF addr, v, n
<1> SUFFICES ASSUME NEW a \in RamAddr
             PROVE  BusRead(dev', a, 1) =
                      IF a - addr \in 0 .. n - 1 /\ Owner(Map, a) = s
                      THEN Value(ByteOf(v, a - addr)) ELSE BusRead(dev, a, 1)
  BY DEF StoreReads, addr, v, n
<1> DEFINE t == Owner(Map, a)
           c == <<t, a - Map[t].start>>
<1>3. /\ t \in RamSlot /\ Map[t].start \in Nat /\ Map[t].size \in Nat /\ a \in Nat
      /\ RamHolds(t, a, 1) => /\ c \in RamCell
                              /\ BusRead(dev, a, 1) = Value(dev.ram[c])
                              /\ BusRead(dev', a, 1) = Value(dev'.ram[c])
      /\ ~RamHolds(t, a, 1) => BusRead(dev, a, 1) = Fault /\ BusRead(dev', a, 1) = Fault
      /\ InRam(a)
  BY RamAddrIsWord, ByteInRam
<1>4. CASE t # s
  <2>1. dev'.ram = dev.ram \/ (InRam(addr) /\ dev'.ram = RamWrite(dev.ram, s, addr, v, n))
    BY <1>2
  <2>2. RamHolds(t, a, 1) => dev'.ram[c] = dev.ram[c]
    BY <1>3, <1>4, <2>1 DEF RamWrite
  <2>3. QED
    BY <1>3, <1>4, <2>2
<1>5. CASE t = s
  <2>1. InRam(addr) /\ RamHolds(t, addr, n) /\ dev'.ram = RamWrite(dev.ram, t, addr, v, n)
    BY <1>2, <1>3, <1>5 DEF InRam
  <2>2. a - Map[t].start - (addr - Map[t].start) = a - addr
    BY <1>1, <1>3
  <2>3. CASE ~RamHolds(t, a, 1)
    <3>1. a - addr \notin 0 .. n - 1
      BY <1>1, <1>3, <2>1, <2>3 DEF RamHolds
    <3>2. QED
      BY <1>3, <2>3, <3>1
  <2>4. CASE RamHolds(t, a, 1)
    <3>1. dev'.ram[c] = IF a - addr \in 0 .. n - 1 THEN ByteOf(v, a - addr) ELSE dev.ram[c]
      <4>1. c \in RamCell /\ c[1] = t /\ c[2] = a - Map[t].start
        BY <1>3, <2>4
      <4>2. RamWrite(dev.ram, t, addr, v, n)[c] =
              IF c[1] = t /\ c[2] - (addr - Map[t].start) \in 0 .. n - 1
              THEN ByteOf(v, c[2] - (addr - Map[t].start)) ELSE dev.ram[c]
        BY <4>1 DEF RamWrite
      <4>3. QED
        BY <2>1, <2>2, <4>1, <4>2
    <3>2. QED
      BY <1>3, <1>5, <2>4, <3>1
  <2>5. QED
    BY <2>3, <2>4
<1>6. QED
  BY <1>4, <1>5

(* A load returns the bytes of the RAM, extended. *)
LEMMA LoadIsRead ==
    ASSUME dev \in Devices, NEW op, NEW mem \in Access, mem.dir = "read",
           Accessed(op, mem), InRam(mem.addr)
    PROVE  LoadReads(op, mem)
<1> DEFINE a   == mem.addr
           n   == mem.size
           s   == Owner(Map, a)
           b   == [k \in 0 .. 3 |-> IF k < n THEN dev.ram[Cell(s, a, k)] ELSE 0]
           got == BusRead(dev, a, n)
<1>1. /\ op \in LoadOps /\ n = LoadSize[op] /\ got.ok
      /\ mem.value = IF op \in {"LB", "LH"} THEN Sext(got.val, n) ELSE got.val
  BY DEF Accessed
<1>2. n \in AccessSize /\ n \in {1, 2, 4} /\ (op \in {"LB", "LH"} => n \in {1, 2})
  BY <1>1, SizeOfAccess DEF LoadSize, LoadOps, AccessSize
<1>3. a \in Word /\ a \in Nat
  BY WordIsNat DEF Access
<1>4. s # NoSlot /\ s \in RamSlot /\ Map[s].kind = "ram"
  BY OwnerIsSlot DEF InRam, RamSlot
<1>5. Map[s].start \in Nat /\ Map[s].size \in Nat /\ Map[s].end \in Word /\ Map[s].end \in Nat
  BY <1>4, MapAssumption, WordIsNat DEF RamSlot
<1>6. got = IF RamHolds(s, a, n) THEN Value(RamRead(dev.ram, s, a, n)) ELSE Fault
  BY <1>4, BusReadArms, Zenon
<1>7. RamHolds(s, a, n) /\ got.val = RamRead(dev.ram, s, a, n)
  BY <1>1, <1>6 DEF Fault, Value
<1>8. \A k \in 0 .. n - 1 : Cell(s, a, k) \in RamCell
  BY <1>2, <1>3, <1>4, <1>7, CellInRam
<1>9. b \in [0 .. 3 -> ByteVal] /\ \A k \in 0 .. 3 : k >= n => b[k] = 0
  <2>1. dev.ram \in [RamCell -> ByteVal] /\ 0 \in ByteVal
    BY WordSizeFacts DEF Devices, ByteVal
  <2>2. \A k \in 0 .. 3 : k < n => k \in 0 .. n - 1
    BY <1>2
  <2>3. \A k \in 0 .. 3 : (IF k < n THEN dev.ram[Cell(s, a, k)] ELSE 0) \in ByteVal
    BY <1>8, <2>1, <2>2
  <2>4. QED
    BY <1>2, <2>3
<1>10. got.val = FromBytes(b)
  BY <1>7 DEF RamRead
<1> DEFINE top == b[n - 1]
<1>11. ASSUME NEW k \in 0 .. 3
       PROVE  ByteOf(mem.value, k) = IF k < n THEN b[k] ELSE Extension(op, top)
  <2> HIDE DEF b, got, n
  <2>1. CASE op \in {"LB", "LH"}
    BY <1>1, <1>2, <1>9, <1>10, <2>1, SextIsBytes DEF Extension
  <2>2. CASE op \notin {"LB", "LH"}
    BY <1>1, <1>2, <1>9, <1>10, <2>2, ByteOfFromBytes DEF Extension
  <2>3. QED
    BY <2>1, <2>2
<1>12. ASSUME NEW k \in 0 .. 3, k < n, Owner(Map, a + k) = s
       PROVE  BusRead(dev, a + k, 1) = Value(b[k])
  <2>1. Covers(Map[s], a + k)
    BY <1>4, <1>12, OwnerIsSlot
  <2>2. a + k \in Word
    BY <1>3, <1>5, <2>1, WordSizeFacts DEF Covers, Word
  <2>3. InRam(a + k)
    BY <1>4, <1>12 DEF InRam
  <2>4. RamHolds(s, a + k, 1)
    BY <1>2, <1>3, <1>5, <1>7, <1>12 DEF RamHolds
  <2>5. BusRead(dev, a + k, 1) = Value(dev.ram[<<s, (a + k) - Map[s].start>>])
    <3>1. \A x \in Word : InRam(x) /\ RamHolds(Owner(Map, x), x, 1) =>
             BusRead(dev, x, 1) = Value(dev.ram[<<Owner(Map, x), x - Map[Owner(Map, x)].start>>])
      BY ByteInRam
    <3>2. ASSUME NEW x, x = a + k
          PROVE  BusRead(dev, x, 1) = Value(dev.ram[<<s, x - Map[s].start>>])
      <4>1. x \in Word /\ InRam(x) /\ RamHolds(s, x, 1) /\ Owner(Map, x) = s
        BY <1>12, <2>2, <2>3, <2>4, <3>2
      <4> HIDE DEF s
      <4>2. QED
        BY <3>1, <4>1
    <3>3. QED
      BY <3>2
  <2>6. (a + k) - Map[s].start = a - Map[s].start + k
    BY <1>3, <1>5
  <2>7. b[k] = dev.ram[Cell(s, a, k)]
    BY <1>12
  <2>8. QED
    BY <2>5, <2>6, <2>7 DEF Cell
<1>13. top = ByteOf(mem.value, n - 1)
  <2>1. n - 1 \in 0 .. 3 /\ n - 1 < n
    BY <1>2
  <2>2. QED
    BY <1>11, <2>1
<1> HIDE DEF b, got
<1>14. \A k \in 0 .. 3 :
          IF k < n
          THEN Owner(Map, a + k) = s =>
                  BusRead(dev, a + k, 1) = Value(ByteOf(mem.value, k))
          ELSE ByteOf(mem.value, k) = Extension(op, ByteOf(mem.value, n - 1))
  BY <1>11, <1>12, <1>13
<1>15. QED
  BY <1>14 DEF LoadReads

(* Whatever a hart_step does, memory answers as bytes. *)
LEMMA ShapeIsBytes ==
    ASSUME TypeOK, TypeOK', Shape
    PROVE  /\ retire'.mem.dir = "write" => StoreReads(retire'.mem)
           /\ retire'.mem.dir = "read" /\ InRam(retire'.mem.addr) =>
                 LoadReads(retire'.op, retire'.mem)
<1>1. dev \in Devices /\ dev' \in Devices
  BY DEF TypeOK
<1>2. CASE Trapping \/ Calling
  <2>1. retire'.mem = NoAccess
    BY <1>2 DEF Trapping, CommitTrap, Calling, Bare
  <2>2. QED
    BY <2>1, NoAccessIsAccess
<1>3. ASSUME NEW di \in Decoded, NEW g \in [Reg -> Word], NEW next_pc \in Word,
             NEW mem \in Access, Retiring(di, g, next_pc, mem)
      PROVE  /\ mem.dir = "write" => StoreReads(mem)
             /\ mem.dir = "read" /\ InRam(mem.addr) => LoadReads(di.op, mem)
             /\ retire'.mem = mem /\ retire'.op = di.op
  <2>1. retire'.mem = mem /\ retire'.op = di.op
    BY <1>3 DEF Retiring, Commit
  <2>2. /\ dev' = IF mem.dir = "write"
                  THEN BusWrite(dev, mem.addr, mem.value, mem.size).dev ELSE dev
        /\ Accessed(di.op, mem)
    BY <1>3 DEF Retiring
  <2>3. ASSUME mem.dir = "write" PROVE StoreReads(mem)
    BY <1>1, <2>2, <2>3, StoreIsRead DEF Accessed
  <2>4. ASSUME mem.dir = "read", InRam(mem.addr) PROVE LoadReads(di.op, mem)
    BY <1>1, <2>2, <2>4, LoadIsRead
  <2>5. QED
    BY <2>1, <2>3, <2>4
<1>4. QED
  BY <1>2, <1>3 DEF Shape

(* memory_read and memory_write under hart_step: RAM is an array of         *)
(* bytes, whatever the sizes of the accesses. A store changes exactly the    *)
(* bytes it names and a load returns them, extended as its name says.        *)
THEOREM MemoryActsAsBytes == Spec => MemoryIsBytes
<1> DEFINE A == /\ retire'.mem.dir = "write" => StoreReads(retire'.mem)
                /\ retire'.mem.dir = "read" /\ InRam(retire'.mem.addr) =>
                      LoadReads(retire'.op, retire'.mem)
<1>1. TypeOK /\ TypeOK' /\ [Next]_vars => [RaiseInterrupt \/ A]_vars
  <2> SUFFICES ASSUME TypeOK, TypeOK', HartStep PROVE A
    BY DEF Next
  <2>1. QED
    BY StepShape, ShapeIsBytes
<1>2. QED
  BY <1>1, TypeInit, TypeStep, PTL DEF Spec, MemoryIsBytes
=============================================================================
