----------------------------- MODULE TrapProofs -----------------------------
(***************************************************************************)
(* Proofs about trap entry and return, for every handler, however deep its *)
(* traps nest and wherever interrupts arrive.                              *)
(*                                                                         *)
(* MretResumes is about the step of an MRET; it follows from FrameHeld,    *)
(* which is inductive: a trap establishes it, and only an instruction that *)
(* writes mepc or mstatus, or MRET, touches what it speaks of.             *)
(***************************************************************************)
EXTENDS Traps, HartProofs

LEMMA StatusBits == MIE \in StatusBit /\ MPIE \in StatusBit /\ MIE # MPIE
  BY DEF MIE, MPIE, StatusBit

(* Writing one status bit and reading any. *)
LEMMA PutOne ==
    ASSUME NEW x \in Word, NEW m \in StatusBit, NEW v \in {0, 1}, NEW n \in StatusBit
    PROVE  /\ PutFlag(x, m, v) \in Word
           /\ Flag(PutFlag(x, m, v), m) = v
           /\ n # m => Flag(PutFlag(x, m, v), n) = Flag(x, n)
  BY PutFlagIsWord, FlagOfPutFlag

(* What trap entry and MRET do to the two enable bits. *)
LEMMA EnableBits ==
    ASSUME NEW w \in Word
    PROVE  /\ Flag(TrapStatus(w), MPIE) = Flag(w, MIE)
           /\ Flag(TrapStatus(w), MIE) = 0
           /\ Flag(MretStatus(w), MIE) = Flag(w, MPIE)
<1>1. MIE \in StatusBit /\ MPIE \in StatusBit /\ MIE # MPIE
  BY StatusBits
<1>2. /\ 2048 \in StatusBit /\ 2048 # MIE /\ 2048 # MPIE
      /\ 4096 \in StatusBit /\ 4096 # MIE /\ 4096 # MPIE
  BY DEF MIE, MPIE, StatusBit
<1>3. ASSUME NEW x \in Word
      PROVE  /\ SetMpp(x) \in Word
             /\ Flag(SetMpp(x), MIE) = Flag(x, MIE)
             /\ Flag(SetMpp(x), MPIE) = Flag(x, MPIE)
  BY <1>1, <1>2, PutOne DEF SetMpp
<1>4. Flag(w, MIE) \in {0, 1} /\ Flag(w, MPIE) \in {0, 1}
  BY <1>1, FlagIsBit
<1>5. ASSUME NEW x \in Word, NEW v \in {0, 1}
      PROVE  /\ PutFlag(x, MIE, v) \in Word /\ PutFlag(x, MPIE, v) \in Word
             /\ Flag(PutFlag(x, MIE, v), MIE) = v
             /\ Flag(PutFlag(x, MPIE, v), MPIE) = v
             /\ Flag(PutFlag(x, MIE, v), MPIE) = Flag(x, MPIE)
             /\ Flag(PutFlag(x, MPIE, v), MIE) = Flag(x, MIE)
  BY <1>1, PutOne
<1> DEFINE saved   == PutFlag(w, MPIE, Flag(w, MIE))
           entered == PutFlag(saved, MIE, 0)
<1>6. saved \in Word /\ Flag(saved, MPIE) = Flag(w, MIE)
  BY <1>4, <1>5
<1> HIDE DEF saved
<1>7. /\ entered \in Word /\ Flag(entered, MIE) = 0
      /\ Flag(entered, MPIE) = Flag(saved, MPIE)
  BY <1>4, <1>5, <1>6
<1>8. TrapStatus(w) = SetMpp(entered)
  BY DEF TrapStatus, saved
<1> HIDE DEF entered
<1> DEFINE restored == PutFlag(w, MIE, Flag(w, MPIE))
<1>9. restored \in Word /\ Flag(restored, MIE) = Flag(w, MPIE)
  BY <1>4, <1>5
<1> HIDE DEF restored
<1>10. Flag(PutFlag(restored, MPIE, 1), MIE) = Flag(restored, MIE)
  BY <1>4, <1>5, <1>9
<1>11. MretStatus(w) = PutFlag(restored, MPIE, 1)
  BY DEF MretStatus, restored
<1>12. QED
  BY <1>3, <1>6, <1>7, <1>8, <1>9, <1>10, <1>11

(* A trap saves the frame. *)
LEMMA TrapSaves ==
    ASSUME TypeOK, NEW cause, NEW tval, csr' = TrapCsr(cause, tval), frame' = Saved
    PROVE  FrameHeld'
<1>1. csr \in [LiveCsr -> Word] /\ csr["mstatus"] \in Word
  BY DEF TypeOK, LiveCsr
<1>2. csr'["mepc"] = pc /\ csr'["mstatus"] = TrapStatus(csr["mstatus"])
  BY <1>1 DEF TrapCsr, LiveCsr
<1>3. frame'.pc = pc /\ frame'.mie = Flag(csr["mstatus"], MIE)
  BY DEF Saved, Enabled
<1>4. QED
  BY <1>1, <1>2, <1>3, EnableBits DEF FrameHeld

(* A step that traps commits a trap. *)
LEMMA ExceptionIsTrap ==
    ASSUME TypeOK, HartStep, retire'.trap \in Exception
    PROVE  \E cause \in Exception, tval \in Word : csr' = TrapCsr(cause, tval)
<1>1. Shape
  BY StepShape
<1>2. CASE Trapping
  BY <1>2 DEF Trapping, CommitTrap
<1>3. CASE Calling
  <2>1. retire'.trap = TRAP_ECALL_M
    BY <1>3 DEF Calling, Bare
  <2>2. TRAP_ECALL_M \notin Exception
    BY DEF Exception, TRAP_ECALL_M, TRAP_INSTR_MISALIGNED, TRAP_INSTR_ACCESS_FAULT,
           TRAP_ILLEGAL_INSTR, TRAP_LOAD_ACCESS_FAULT, TRAP_STORE_ACCESS_FAULT
  <2>3. QED
    BY <2>1, <2>2
<1>4. ASSUME NEW di \in Decoded, NEW g \in [Reg -> Word], NEW next_pc \in Word,
             NEW mem \in Access, Retiring(di, g, next_pc, mem)
      PROVE  retire'.trap = TRAP_NONE
  BY <1>4 DEF Retiring, Commit
<1>5. QED
  BY <1>1, <1>2, <1>3, <1>4, TrapCodes DEF Shape

(* A step that does not trap executed a valid instruction, whose record     *)
(* names it.                                                                *)
LEMMA NoTrapIsExecute ==
    ASSUME HartStep, retire'.trap \notin Exception
    PROVE  \E instruction \in FetchedWord :
              Execute(Decode(instruction), instruction)
<1>1. \A op, tval : \A cause \in Exception : ~CommitTrap(op, cause, tval)
  BY DEF CommitTrap, Bare
<1>2. ~FetchMisaligned /\ ~FetchFault
  BY <1>1, TrapCodes DEF FetchMisaligned, FetchFault
<1>3. \A di, instruction : ~ExecIllegal(di, instruction)
  BY <1>1, TrapCodes DEF ExecIllegal
<1>4. QED
  BY <1>2, <1>3 DEF HartStep

(* The groups a step without a trap can be of, by what they do to the CSRs. *)
LEMMA CsrEffect ==
    ASSUME TypeOK, NEW di, NEW instruction, retire'.trap \notin Exception,
           Execute(di, instruction)
    PROVE  \/ csr' = csr /\ (retire'.op = "MRET" => FALSE)
           \/ /\ WritesCsr(di)
              /\ csr' = [csr EXCEPT ![di.csr] = CsrNew(di, csr[di.csr])]
              /\ retire'.op # "MRET"
           \/ ExecMret(di)
<1> DEFINE Quiet == csr' = csr /\ (retire'.op = "MRET" => FALSE)
<1>1. \A op, tval : \A cause \in Exception : ~CommitTrap(op, cause, tval)
  BY DEF CommitTrap, Bare
<1>2. \A g, next_pc, mem : Commit(di, g, next_pc, mem) => retire'.op = di.op
  BY DEF Commit
<1>3. ASSUME NEW v, Compute(di, v) PROVE csr' = csr /\ retire'.op = di.op
  BY <1>2, <1>3 DEF Compute
<1>4. CASE ExecLui(di) \/ ExecAuipc(di) \/ ExecOp(di) \/ ExecOpImm(di)
  BY <1>3, <1>4 DEF ExecLui, ExecAuipc, ExecOp, ExecOpImm, AluOps, ImmOps
<1>5. CASE ExecFence(di)
  BY <1>2, <1>5 DEF ExecFence, FenceOps
<1>6. ASSUME NEW target, JumpTo(di, target) PROVE csr' = csr /\ retire'.op = di.op
  BY <1>1, <1>2, <1>6, TrapCodes DEF JumpTo
<1>7. CASE ExecJal(di) \/ ExecJalr(di)
  BY <1>6, <1>7 DEF ExecJal, ExecJalr
<1>8. CASE ExecBranch(di)
  <2>1. csr' = csr /\ retire'.op = di.op /\ di.op \in BranchOps
    BY <1>1, <1>2, <1>8, TrapCodes, Zenon DEF ExecBranch
  <2>2. QED
    BY <2>1, GroupsAreOps
<1>9. CASE ExecLoad(di)
  <2>1. csr' = csr /\ retire'.op = di.op /\ di.op \in LoadOps
    BY <1>1, <1>2, <1>9, TrapCodes, Zenon DEF ExecLoad
  <2>2. QED
    BY <2>1 DEF LoadOps
<1>10. CASE ExecStore(di)
  <2>1. csr' = csr /\ retire'.op = di.op /\ di.op \in StoreOps
    BY <1>1, <1>2, <1>10, TrapCodes, Zenon DEF ExecStore
  <2>2. QED
    BY <2>1, GroupsAreOps
<1>11. CASE ExecCsr(di, instruction)
  <2>1. di.op # "MRET" /\ ~CommitTrap(di.op, TRAP_ILLEGAL_INSTR, instruction)
    BY <1>1, <1>11, TrapCodes DEF ExecCsr, CsrOps, CsrRegOps, CsrImmOps
  <2>2. CASE Compute(di, IF di.csr = "misa" THEN Misa ELSE 0)
    BY <1>3, <2>1, <2>2
  <2>3. CASE /\ Commit(di, SetRd(di, csr[di.csr]), Pc4, NoAccess)
             /\ csr' = IF WritesCsr(di)
                       THEN [csr EXCEPT ![di.csr] = CsrNew(di, csr[di.csr])]
                       ELSE csr
    <3>1. retire'.op = di.op
      BY <1>2, <2>3
    <3>2. CASE WritesCsr(di)
      <4>1. csr' = [csr EXCEPT ![di.csr] = CsrNew(di, csr[di.csr])]
        BY <2>3, <3>2, Zenon
      <4>2. QED
        BY <2>1, <3>1, <3>2, <4>1
    <3>3. CASE ~WritesCsr(di)
      <4>1. csr' = csr
        BY <2>3, <3>3, Zenon
      <4>2. QED
        BY <2>1, <3>1, <4>1
    <3>4. QED
      BY <3>2, <3>3
  <2>4. QED
    BY <1>11, <2>1, <2>2, <2>3, Zenon DEF ExecCsr
<1>12. CASE ExecEcall(di)
  BY <1>12 DEF ExecEcall, Bare
<1>13. QED
  BY <1>4, <1>5, <1>7, <1>8, <1>9, <1>10, <1>11, <1>12 DEF Execute

----------------------------------------------------------------------------
TrapInv == TrapTypeOK /\ FrameHeld

LEMMA SavedIsFrame == TypeOK => Saved \in Frame
<1>1. TypeOK => csr["mstatus"] \in Word /\ pc \in Word
  BY DEF TypeOK, LiveCsr
<1>2. QED
  BY <1>1, FlagIsBit, StatusBits DEF Saved, Enabled, Frame

LEMMA EmptyIsFrame == EmptyFrame \in Frame /\ ~EmptyFrame.live
<1>1. 0 \in Word
  BY SmallIsWord
<1>2. QED
  BY <1>1 DEF EmptyFrame, Frame

LEMMA TrapInvInit == TrapInit => TrapInv
  BY TypeInit, EmptyIsFrame DEF TrapInit, TrapInv, TrapTypeOK, FrameHeld

LEMMA TrapInvStep == TrapInv /\ [TrapNext]_trapVars => TrapInv'
<1> SUFFICES ASSUME TrapInv, [TrapNext]_trapVars PROVE TrapInv'
  OBVIOUS
<1>1. TypeOK /\ frame \in Frame /\ FrameHeld
  BY DEF TrapInv, TrapTypeOK
<1>2. TypeOK'
  BY <1>1, TypeStep DEF TrapNext, Next, trapVars, vars
<1>3. CASE RaiseInterrupt /\ frame' = Saved
  <2>1. FrameHeld'
    BY <1>1, <1>3, TrapSaves DEF RaiseInterrupt
  <2>2. QED
    BY <1>1, <1>2, <1>3, <2>1, SavedIsFrame DEF TrapInv, TrapTypeOK
<1>4. CASE HartStep /\ retire'.trap \in Exception /\ frame' = Saved
  <2>1. FrameHeld'
    BY <1>1, <1>4, ExceptionIsTrap, TrapSaves
  <2>2. QED
    BY <1>1, <1>2, <1>4, <2>1, SavedIsFrame DEF TrapInv, TrapTypeOK
<1>5. CASE HartStep /\ frame' = EmptyFrame
  BY <1>2, <1>5, EmptyIsFrame DEF TrapInv, TrapTypeOK, FrameHeld
<1>6. CASE /\ HartStep /\ retire'.trap \notin Exception
           /\ ~Overwrites /\ retire'.op # "MRET"
           /\ frame' = frame
  <2>1. PICK instruction \in FetchedWord : Execute(Decode(instruction), instruction)
    BY <1>6, NoTrapIsExecute
  <2> DEFINE di == Decode(instruction)
  <2>2. di.valid /\ ~(WritesCsr(di) /\ di.csr \in {"mepc", "mstatus"})
    BY <1>6, <2>1 DEF Execute, Overwrites
  <2>3. csr \in [LiveCsr -> Word]
    BY <1>1 DEF TypeOK
  <2>4. csr'["mepc"] = csr["mepc"] /\ csr'["mstatus"] = csr["mstatus"]
    <3>1. CASE csr' = csr
      BY <3>1
    <3>2. CASE WritesCsr(di) /\ csr' = [csr EXCEPT ![di.csr] = CsrNew(di, csr[di.csr])]
      BY <2>2, <2>3, <3>2 DEF LiveCsr
    <3>3. CASE ExecMret(di)
      <4>1. retire'.op = "MRET"
        BY <3>3 DEF ExecMret, Commit
      <4>2. QED
        BY <1>6, <4>1
    <3> HIDE DEF di
    <3>4. Execute(di, instruction)
      BY <2>1 DEF di
    <3>5. QED
      BY <1>1, <1>6, <3>1, <3>2, <3>3, <3>4, CsrEffect
  <2>5. FrameHeld'
    BY <1>1, <1>6, <2>4 DEF FrameHeld
  <2>6. QED
    BY <1>1, <1>2, <1>6, <2>5 DEF TrapInv, TrapTypeOK
<1>7. CASE UNCHANGED trapVars
  BY <1>1, <1>2, <1>7 DEF trapVars, TrapInv, TrapTypeOK, FrameHeld
<1>8. QED
  BY <1>3, <1>4, <1>5, <1>6, <1>7 DEF TrapNext

(* The hart and the history of the last trap keep their types through any    *)
(* nesting of traps, handlers and returns.                                   *)
THEOREM HistoryIsTyped == TrapSpec => []TrapTypeOK
  BY TrapInvInit, TrapInvStep, PTL DEF TrapSpec, TrapInv

(* While a handler has not written mepc or mstatus, the hart holds the      *)
(* interrupted pc and enable bit, with interrupts disabled.                 *)
THEOREM HandlerKeepsFrame == TrapSpec => []FrameHeld
  BY TrapInvInit, TrapInvStep, PTL DEF TrapSpec, TrapInv

(* MRET from a live frame resumes the interrupted instruction with the      *)
(* interrupt enable it ran under.                                           *)
THEOREM MretReturns == TrapSpec => MretResumes
<1> DEFINE Resumes ==
      frame.live /\ HartStep /\ retire'.op = "MRET" /\ retire'.trap = TRAP_NONE
        => /\ pc' = frame.pc
           /\ Flag(csr'["mstatus"], MIE) = frame.mie
<1>1. TrapInv /\ [TrapNext]_trapVars => [Resumes]_trapVars
  <2> SUFFICES ASSUME TrapInv, frame.live, HartStep, retire'.op = "MRET",
                      retire'.trap = TRAP_NONE
               PROVE  /\ pc' = frame.pc
                      /\ Flag(csr'["mstatus"], MIE) = frame.mie
    OBVIOUS
  <2>1. TypeOK /\ FrameHeld /\ csr \in [LiveCsr -> Word] /\ csr["mstatus"] \in Word
    BY DEF TrapInv, TrapTypeOK, TypeOK, LiveCsr
  <2>2. retire'.trap \notin Exception
    BY TrapCodes
  <2>3. PICK instruction \in FetchedWord : Execute(Decode(instruction), instruction)
    BY <2>2, NoTrapIsExecute
  <2>4. ExecMret(Decode(instruction))
    BY <2>1, <2>2, <2>3, CsrEffect
  <2>5. pc' = csr["mepc"] /\ csr'["mstatus"] = MretStatus(csr["mstatus"])
    BY <2>1, <2>4 DEF ExecMret, Commit, LiveCsr
  <2>6. QED
    BY <2>1, <2>5, EnableBits DEF FrameHeld
<1>2. QED
  BY <1>1, TrapInvInit, TrapInvStep, PTL DEF TrapSpec, MretResumes
=============================================================================
