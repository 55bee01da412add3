--------------------------- MODULE EmulatorProofs ---------------------------
(***************************************************************************)
(* Proofs about whole runs of the emulator, for every program, memory map, *)
(* step limit, buffer of a write call and order of calls, under rve and    *)
(* under any other program.                                                *)
(*                                                                         *)
(* EmuInv is inductive.  StepsBounded needs to know that the loop head is  *)
(* reached below the limit after the first step; HaltsForCause and         *)
(* GuestStopsAtHalt that a halt never meets a pending system call, and     *)
(* that one that is pending came from an ECALL.                            *)
(***************************************************************************)
EXTENDS Main, HartProofs, FiniteSetTheorems

(* Where the calls are, and how far the one in progress has come. *)
BelowLimit == /\ ctl \in {"run", "limit"} => caller = "run"
              /\ ctl = "step" => caller = "step"
              /\ ctl = "run" /\ max_steps # 0 /\ taken # 0 => cycle_count < max_steps

(* No system call is pending on a halted machine, and one that is comes from *)
(* an ECALL.                                                                 *)
CallsAreLive == /\ ctl \in {"new", "syscall", "write"} => ~dev.halted
                /\ ctl \in {"syscall", "write"} => retire.trap = TRAP_ECALL_M

EmuInv == EmuTypeOK /\ StepsBounded /\ BelowLimit /\ CallsAreLive

(* The steps of the emulator under any caller. *)
AnyCall == \/ \E p \in Word : CallInit(p)
           \/ \E h \in {"default", "custom", "none"} : CallSetHandler(h)
           \/ \E file \in Seq(ByteVal), addr \in Word : CallLoad(file, addr)
           \/ \E m \in Limits : CallRun(m)
           \/ CallStep
           \/ CallInterrupt
AnyNext == Internal \/ AnyCall

LEMMA CallsAreAnyCalls == EmuNext => AnyNext
<1>1. ASSUME NEW l \in Loads, CallLoad(l.file, l.addr)
      PROVE  \E file \in Seq(ByteVal), addr \in Word : CallLoad(file, addr)
  BY <1>1, CallAssumption
<1>2. QED
  BY <1>1, CallAssumption DEF EmuNext, Calls, AnyNext, AnyCall

----------------------------------------------------------------------------
LEMMA DevicesRecord ==
    ASSUME NEW d \in Devices
    PROVE  \E ram, uart, halted, exit_code, stdout :
              d = [ram |-> ram, uart |-> uart, halted |-> halted,
                   exit_code |-> exit_code, stdout |-> stdout]
  BY DEF Devices

(* A bus write changes the halted flag and the exit code only by reaching    *)
(* TOHOST.                                                                   *)
SameHalt(d, e) == e.halted = d.halted /\ e.exit_code = d.exit_code

LEMMA OnlyTohostHalts ==
    ASSUME NEW d \in Devices, NEW a, NEW v, NEW n,
           ~SameHalt(d, BusWrite(d, a, v, n).dev)
    PROVE  /\ Owner(Map, a) # NoSlot
           /\ Map[Owner(Map, a)].kind = "tohost"
           /\ BusWrite(d, a, v, n).dev.halted
           /\ BusWrite(d, a, v, n).dev.exit_code = TohostExit(v)
<1> DEFINE s == Owner(Map, a)
<1>0. PICK ram0, uart0, halted0, exit_code0, stdout0 :
         d = [ram |-> ram0, uart |-> uart0, halted |-> halted0,
              exit_code |-> exit_code0, stdout |-> stdout0]
  BY DevicesRecord
<1>1. s # NoSlot
  <2>1. SUFFICES ASSUME s = NoSlot PROVE FALSE
    OBVIOUS
  <2>2. BusWrite(d, a, v, n) = Refused(d)
    BY <2>1, BusWriteArms, Zenon
  <2>3. QED
    BY <2>2 DEF Refused, SameHalt
<1>2. Map[s].kind # "uart"
  <2>1. SUFFICES ASSUME Map[s].kind = "uart" PROVE FALSE
    OBVIOUS
  <2>2. BusWrite(d, a, v, n) = Accepted(UartStore(d, a % 8, v % Byte))
    BY <1>1, <2>1, BusWriteArms, Zenon
  <2>3. SameHalt(d, UartStore(d, a % 8, v % Byte))
    <3> DEFINE u   == UartWrite(d.uart, a % 8, v % Byte)
               out == IF UartTransmits(d.uart, a % 8)
                      THEN Append(d.stdout, v % Byte) ELSE d.stdout
    <3>1. UartStore(d, a % 8, v % Byte) = [d EXCEPT !.uart = u, !.stdout = out]
      BY DEF UartStore
    <3> HIDE DEF u, out
    <3>2. QED
      BY <1>0, <3>1 DEF SameHalt
  <2>4. QED
    BY <2>2, <2>3 DEF Accepted
<1>3. Map[s].kind # "ram"
  <2>1. SUFFICES ASSUME Map[s].kind = "ram" PROVE FALSE
    OBVIOUS
  <2>2. BusWrite(d, a, v, n) =
          IF RamHolds(s, a, n)
          THEN Accepted([d EXCEPT !.ram = RamWrite(d.ram, s, a, v, n)])
          ELSE Refused(d)
    BY <1>1, <2>1, BusWriteArms, Zenon
  <2> DEFINE ram == RamWrite(d.ram, s, a, v, n)
  <2>a. SameHalt(d, [d EXCEPT !.ram = ram])
    <3> HIDE DEF ram
    <3>1. QED
      BY <1>0 DEF SameHalt
  <2>3. SameHalt(d, BusWrite(d, a, v, n).dev)
    BY <2>2, <2>a DEF Accepted, Refused, SameHalt
  <2>4. QED
    BY <2>3
<1>4. Map[s].kind = "tohost"
  BY <1>1, <1>2, <1>3, OwnerIsSlot, KindOfSlot
<1>5. BusWrite(d, a, v, n) = Accepted(TohostWrite(d, v))
  BY <1>1, <1>4, BusWriteArms, Zenon
<1>6. TohostWrite(d, v).halted /\ TohostWrite(d, v).exit_code = TohostExit(v)
  <2> DEFINE code == TohostExit(v)
             up   == TRUE
  <2>1. TohostWrite(d, v) = [d EXCEPT !.halted = up, !.exit_code = code]
    BY DEF TohostWrite
  <2>2. up
    OBVIOUS
  <2> HIDE DEF code, up
  <2>3. TohostWrite(d, v).exit_code = code /\ TohostWrite(d, v).halted = up
    BY <1>0, <2>1
  <2>4. QED
    BY <2>2, <2>3 DEF code
<1>7. QED
  BY <1>1, <1>4, <1>5, <1>6 DEF Accepted

(* What one hart_step can do to the halted flag and to the call it is in. *)
LEMMA StepHalts ==
    ASSUME TypeOK, HartStep
    PROVE  /\ SameHalt(dev, dev') \/ (dev'.halted /\ TohostHalt' /\ retire'.trap = TRAP_NONE)
           /\ retire'.trap = TRAP_ECALL_M => dev' = dev
<1>1. Shape
  BY StepShape
<1>2. CASE Trapping \/ Calling
  BY <1>2, TrapCodes DEF Trapping, Calling, CommitTrap, SameHalt
<1>3. ASSUME NEW di \in Decoded, NEW g \in [Reg -> Word], NEW next_pc \in Word,
             NEW mem \in Access, Retiring(di, g, next_pc, mem)
      PROVE  /\ SameHalt(dev, dev') \/ (dev'.halted /\ TohostHalt' /\ retire'.trap = TRAP_NONE)
             /\ retire'.trap # TRAP_ECALL_M
  <2>1. retire'.trap = TRAP_NONE /\ retire'.mem = mem
    BY <1>3 DEF Retiring, Commit
  <2>2. retire'.trap # TRAP_ECALL_M
    BY <2>1 DEF TRAP_NONE, TRAP_ECALL_M
  <2>3. ASSUME ~SameHalt(dev, dev') PROVE dev'.halted /\ TohostHalt'
    <3>1. mem.dir = "write" /\ dev' = BusWrite(dev, mem.addr, mem.value, mem.size).dev
      BY <1>3, <2>3 DEF Retiring, SameHalt
    <3>2. dev \in Devices
      BY DEF TypeOK
    <3>3. ~SameHalt(dev, BusWrite(dev, mem.addr, mem.value, mem.size).dev)
      BY <3>1, <2>3
    <3>4. /\ Owner(Map, mem.addr) # NoSlot
          /\ Map[Owner(Map, mem.addr)].kind = "tohost"
          /\ dev'.halted /\ dev'.exit_code = TohostExit(mem.value)
      BY <3>1, <3>2, <3>3, OnlyTohostHalts
    <3>5. QED
      BY <3>1, <3>4, <2>1 DEF TohostHalt
  <2>4. QED
    BY <2>1, <2>2, <2>3
<1>4. QED
  BY <1>1, <1>2, <1>3 DEF Shape

----------------------------------------------------------------------------
LEMMA StepKeepsTypes == TypeOK /\ HartStep => TypeOK'
  BY TypeStep DEF Next

LEMMA EmuInitHolds == EmuInit => EmuInv
<1> SUFFICES ASSUME EmuInit PROVE EmuInv
  OBVIOUS
<1>1. TypeOK
  BY TypeInit DEF EmuInit
<1>2. EmuTypeOK
  <2>1. 0 \in Word /\ 0 \in 0 .. CycleCap
    BY SmallIsWord, LimitAssumption
  <2>2. <<>> \in Seq(ByteVal)
    OBVIOUS
  <2>3. QED
    BY <1>1, <2>1, <2>2, Zenon DEF EmuInit, EmuTypeOK, Control
<1>3. ~dev.halted
  BY DEF EmuInit, Init
<1>4. QED
  BY <1>2, <1>3 DEF EmuInit, EmuInv, StepsBounded, BelowLimit, CallsAreLive

(* The devices after a halt by the harness, and after a byte of output. *)
Halted(d, v)  == [d EXCEPT !.halted = TRUE, !.exit_code = v]
Printed(d, b) == [d EXCEPT !.stdout = Append(d.stdout, b)]

LEMMA HaltedFields ==
    ASSUME NEW d \in Devices, NEW v \in Word
    PROVE  /\ Halted(d, v) \in Devices /\ Halted(d, v).halted
           /\ Halted(d, v).exit_code = v
           /\ Halted(d, v).ram = d.ram /\ Halted(d, v).uart = d.uart
           /\ Halted(d, v).stdout = d.stdout
<1>1. Halted(d, v) \in Devices
  BY DEF Halted, Devices
<1>2. QED
  BY <1>1, DevicesRecord DEF Halted, Devices

LEMMA PrintedFields ==
    ASSUME NEW d \in Devices, NEW b \in ByteVal
    PROVE  /\ Printed(d, b) \in Devices /\ Printed(d, b).halted = d.halted
           /\ Printed(d, b).exit_code = d.exit_code
           /\ Printed(d, b).ram = d.ram /\ Printed(d, b).uart = d.uart
           /\ Printed(d, b).stdout = Append(d.stdout, b)
<1> DEFINE out == Append(d.stdout, b)
<1>1. out \in Seq(ByteVal)
  BY DEF Devices
<1>2. Printed(d, b) = [d EXCEPT !.stdout = out]
  BY DEF Printed
<1> HIDE DEF out
<1>3. Printed(d, b) \in Devices
  BY <1>1, <1>2 DEF Devices
<1>4. /\ Printed(d, b).halted = d.halted /\ Printed(d, b).exit_code = d.exit_code
      /\ Printed(d, b).ram = d.ram /\ Printed(d, b).uart = d.uart
      /\ Printed(d, b).stdout = out
  BY <1>2 DEF Devices
<1>5. QED
  BY <1>3, <1>4 DEF out

LEMMA ArgumentsAreWords ==
    ASSUME TypeOK
    PROVE  /\ gpr[A0] \in Word /\ gpr[A1] \in Word /\ gpr[A2] \in Word
           /\ gpr[A7] \in Word /\ A0 \in Reg /\ A0 # 0
  BY AbiAssumption DEF TypeOK

(* The write call reads bytes. *)
LEMMA NextByteIsByte ==
    ASSUME EmuTypeOK
    PROVE  NextByte.val % Byte \in ByteVal
<1>1. Add(gpr[A1], written) \in Word
  BY ArgumentsAreWords, AddIsWord DEF EmuTypeOK
<1>2. NextByte.val \in Word
  BY <1>1, BusReadIsWord DEF NextByte, AccessSize, EmuTypeOK, TypeOK
<1>3. QED
  BY <1>2, WordIsNat, ByteAssumption DEF ByteVal

----------------------------------------------------------------------------
(* EmuInv, action by action. *)
LEMMA CountedIsCount ==
    ASSUME NEW n \in 0 .. CycleCap
    PROVE  /\ Counted(n) \in 0 .. CycleCap /\ Counted(n) <= n + 1
           /\ \A m \in Limits : n < m => Counted(n) <= m
  BY LimitAssumption DEF Counted

LEMMA StepHolds == EmuInv /\ Step => EmuInv'
<1> SUFFICES ASSUME EmuInv, Step PROVE EmuInv'
  OBVIOUS
<1>0. UNCHANGED <<handler, caller, max_steps, rc, written, stderr>>
  BY DEF Step, callVars
<1>1. /\ cycle_count \in 0 .. CycleCap /\ taken \in 0 .. CycleCap
      /\ cycle_count' = Counted(cycle_count) /\ taken' = Counted(taken)
      /\ ctl' = IF retire'.trap = TRAP_ECALL_M THEN "syscall" ELSE AfterStep
      /\ ctl \in {"run", "step"} /\ ~dev.halted /\ HartStep
  BY DEF EmuInv, EmuTypeOK, Step
<1>2. EmuTypeOK'
  <2>1. TypeOK'
    BY <1>1, StepKeepsTypes DEF EmuInv, EmuTypeOK
  <2>2. cycle_count' \in 0 .. CycleCap /\ taken' \in 0 .. CycleCap
    BY <1>1, CountedIsCount
  <2>3. ctl' \in Control
    BY <1>1 DEF AfterStep, Control
  <2>4. QED
    BY <1>0, <2>1, <2>2, <2>3 DEF EmuInv, EmuTypeOK
<1>3. StepsBounded'
  <2>1. SUFFICES ASSUME caller = "run", max_steps # 0
                 PROVE  taken' <= 1 \/ cycle_count' <= max_steps
    BY <1>0 DEF StepsBounded
  <2>2. CASE taken = 0
    BY <1>1, <2>2, CountedIsCount
  <2>3. CASE taken # 0
    <3>1. cycle_count < max_steps /\ max_steps \in Limits
      BY <1>1, <2>1, <2>3 DEF EmuInv, EmuTypeOK, BelowLimit
    <3>2. QED
      BY <1>1, <3>1, CountedIsCount
  <2>4. QED
    BY <2>2, <2>3
<1>4. BelowLimit'
  BY <1>0, <1>1 DEF AfterStep, BelowLimit
<1>5. CallsAreLive'
  <2>1. retire'.trap = TRAP_ECALL_M => dev' = dev
    BY <1>1, StepHalts DEF EmuInv, EmuTypeOK
  <2>2. QED
    BY <1>1, <2>1 DEF AfterStep, CallsAreLive
<1>6. QED
  BY <1>2, <1>3, <1>4, <1>5 DEF EmuInv

(* A step that ends the emulator_step or emulator_run in progress, or returns *)
(* to its loop below the limit.                                               *)
Leaves == /\ ctl' \in {"idle", "limit"} /\ (ctl' = "limit" => caller = "run")
          /\ UNCHANGED <<handler, cycle_count, caller, max_steps, taken, rc>>

LEMMA LeavingHolds == EmuInv /\ EmuTypeOK' /\ Leaves => EmuInv'
  BY DEF EmuInv, Leaves, StepsBounded, BelowLimit, CallsAreLive

LEMMA SetA0KeepsType ==
    ASSUME TypeOK, NEW v \in Word
    PROVE  /\ [gpr EXCEPT ![A0] = v] \in [Reg -> Word] /\ [gpr EXCEPT ![A0] = v][0] = 0
           /\ [gpr EXCEPT ![A0] = v][A0] = v
<1>1. A0 \in Reg /\ A0 # 0 /\ 0 \in Reg
  BY ArgumentsAreWords, ZeroIsReg
<1>2. QED
  BY <1>1 DEF TypeOK

LEMMA UnhandledDevices ==
    ASSUME dev \in Devices, gpr'[A0] \in Word, Unhandled
    PROVE  /\ dev' \in Devices /\ dev'.halted /\ dev'.exit_code = gpr'[A0]
           /\ dev'.ram = dev.ram /\ dev'.stdout = dev.stdout
<1>1. dev' = Halted(dev, gpr'[A0])
  BY DEF Unhandled, Halted
<1>2. QED
  BY <1>1, HaltedFields

LEMMA HandledRecord == ASSUME retire \in Retirement, Handled PROVE retire' \in Retirement
  BY DEF Handled, Retirement

(* A system call that does not go on: refused, or answered at once. *)
SysEnds == SysHalt \/ SysCustom \/ SysWriteBadFd \/ SysWriteEnd

LEMMA SysEndsHolds == EmuInv /\ SysEnds => EmuInv' /\ Leaves
<1> SUFFICES ASSUME EmuInv, SysEnds PROVE EmuInv' /\ Leaves
  OBVIOUS
<1>0. TypeOK /\ dev \in Devices /\ retire \in Retirement
  BY DEF EmuInv, EmuTypeOK, TypeOK
<1>1. /\ ctl' = AfterStep
      /\ UNCHANGED <<csr, pc, handler, caller, max_steps, rc, cycle_count, taken, written, stderr>>
  BY DEF SysEnds, SysHalt, SysCustom, SysWriteBadFd, SysWriteEnd, Handled, Unhandled, callVars
<1>2. gpr' \in [Reg -> Word] /\ gpr'[0] = 0 /\ gpr'[A0] \in Word
  <2>1. CASE SysHalt
    BY <1>0, <2>1, ArgumentsAreWords DEF SysHalt, TypeOK
  <2>2. ASSUME NEW v \in Word, gpr' = [gpr EXCEPT ![A0] = v]
        PROVE  gpr' \in [Reg -> Word] /\ gpr'[0] = 0 /\ gpr'[A0] \in Word
    BY <1>0, <2>2, SetA0KeepsType
  <2>3. WordSize - 1 \in Word /\ written \in Word /\ Verdicts \subseteq Word
    BY WordSizeFacts, CallAssumption DEF Word, EmuInv, EmuTypeOK
  <2>4. CASE SysCustom
    BY <2>2, <2>3, <2>4 DEF SysCustom
  <2>5. CASE SysWriteBadFd
    BY <2>2, <2>3, <2>5 DEF SysWriteBadFd
  <2>6. CASE SysWriteEnd
    BY <2>2, <2>3, <2>6 DEF SysWriteEnd
  <2>7. QED
    BY <2>1, <2>4, <2>5, <2>6 DEF SysEnds
<1>3. dev' \in Devices /\ retire' \in Retirement
  <2>1. CASE Unhandled
    BY <1>0, <1>2, <2>1, UnhandledDevices DEF Unhandled
  <2>2. CASE Handled /\ dev' = dev
    BY <1>0, <2>2, HandledRecord
  <2>3. QED
    BY <2>1, <2>2 DEF SysEnds, SysHalt, SysCustom, SysWriteBadFd, SysWriteEnd
<1>4. ctl' \in Control
  BY <1>1 DEF AfterStep, Control
<1>5. EmuTypeOK'
  BY <1>0, <1>1, <1>2, <1>3, <1>4 DEF EmuInv, EmuTypeOK, TypeOK
<1>6. Leaves
  BY <1>1 DEF Leaves, AfterStep
<1>7. QED
  BY <1>5, <1>6, LeavingHolds

(* One that does. *)
SysGoesOn == SysWriteBegin \/ SysWriteByte

LEMMA ByteOut ==
    ASSUME EmuTypeOK, SysWriteByte
    PROVE  /\ dev' \in Devices /\ SameHalt(dev, dev') /\ stderr' \in Seq(ByteVal)
           /\ dev'.ram = dev.ram /\ dev'.uart = dev.uart
<1>0. NextByte.val % Byte \in ByteVal /\ dev \in Devices
  BY NextByteIsByte DEF EmuTypeOK, TypeOK
<1>1. CASE gpr[A0] = 1
  <2>1. dev' = Printed(dev, NextByte.val % Byte) /\ stderr' = stderr
    BY <1>1 DEF SysWriteByte, Printed
  <2>2. QED
    BY <1>0, <2>1, PrintedFields DEF EmuTypeOK, SameHalt
<1>2. CASE gpr[A0] # 1
  BY <1>0, <1>2 DEF SysWriteByte, EmuTypeOK, SameHalt
<1>3. QED
  BY <1>1, <1>2

LEMMA SysGoesOnHolds == EmuInv /\ SysGoesOn => EmuInv'
<1> SUFFICES ASSUME EmuInv, SysGoesOn PROVE EmuInv'
  OBVIOUS
<1>1. /\ ctl \in {"syscall", "write"} /\ ctl' = "write"
      /\ UNCHANGED <<gpr, csr, pc, retire, handler, caller, max_steps, rc, cycle_count, taken>>
  BY DEF SysGoesOn, SysWrite, SysWriteBegin, SysWriteByte, callVars, hartVars
<1>2. dev' \in Devices /\ SameHalt(dev, dev') /\ stderr' \in Seq(ByteVal)
  <2>1. CASE SysWriteBegin
    BY <2>1 DEF SysWriteBegin, hartVars, EmuInv, EmuTypeOK, TypeOK, SameHalt
  <2>2. QED
    BY <2>1, ByteOut DEF SysGoesOn, EmuInv
<1>3. written' \in Word
  <2>1. CASE SysWriteBegin
    BY <2>1, SmallIsWord DEF SysWriteBegin
  <2>2. CASE SysWriteByte
    <3>1. gpr[A2] \in Word /\ written \in Word /\ written < gpr[A2]
      BY <2>2, ArgumentsAreWords DEF SysWriteByte, MoreBytes, EmuInv, EmuTypeOK
    <3>2. WordSize \in Nat
      BY WordSizeFacts
    <3>3. QED
      BY <2>2, <3>1, <3>2 DEF SysWriteByte, Word
  <2>3. QED
    BY <2>1, <2>2 DEF SysGoesOn
<1>4. EmuTypeOK'
  BY <1>1, <1>2, <1>3 DEF EmuInv, EmuTypeOK, TypeOK, Control
<1>5. QED
  BY <1>1, <1>2, <1>4
     DEF EmuInv, StepsBounded, BelowLimit, CallsAreLive, SameHalt

LEMMA StepHaltedHolds == EmuInv /\ StepHalted => EmuInv'
<1> SUFFICES ASSUME EmuInv, StepHalted PROVE EmuInv'
  OBVIOUS
<1>1. retire' \in Retirement
  <2>1. NoAccess \in Access /\ 0 \in Word /\ 0 \in Reg /\ "UNKNOWN" \in Op
    BY NoAccessIsAccess, SmallIsWord, ZeroIsReg DEF Op, IllegalOps
  <2>2. QED
    BY <2>1 DEF StepHalted, Retirement, Exception, TRAP_ILLEGAL_INSTR
<1>2. ctl' = "idle" /\ UNCHANGED <<gpr, csr, pc, dev, handler, caller, max_steps, rc,
                                    cycle_count, taken, written, stderr>>
  BY DEF StepHalted, callVars
<1>3. EmuTypeOK' /\ Leaves
  BY <1>1, <1>2 DEF EmuInv, EmuTypeOK, TypeOK, Control, Leaves
<1>4. QED
  BY <1>3, LeavingHolds

LEMMA LimitDevices ==
    ASSUME EmuTypeOK, StopAtLimit
    PROVE  /\ dev' \in Devices /\ dev'.halted /\ dev'.exit_code = 1
           /\ dev'.ram = dev.ram /\ dev'.stdout = dev.stdout
<1>1. dev \in Devices /\ 1 \in Word /\ dev' = Halted(dev, 1)
  BY SmallIsWord DEF EmuTypeOK, TypeOK, StopAtLimit, Halted
<1>2. QED
  BY <1>1, HaltedFields

LEMMA StopAtLimitHolds == EmuInv /\ StopAtLimit => EmuInv'
<1> SUFFICES ASSUME EmuInv, StopAtLimit PROVE EmuInv'
  OBVIOUS
<1>1. dev' \in Devices
  BY LimitDevices DEF EmuInv
<1>2. ctl' = "idle" /\ UNCHANGED <<gpr, csr, pc, retire, handler, caller, max_steps, rc,
                                    cycle_count, taken, written, stderr>>
  BY DEF StopAtLimit, callVars
<1>3. EmuTypeOK' /\ Leaves
  BY <1>1, <1>2 DEF EmuInv, EmuTypeOK, TypeOK, Control, Leaves
<1>4. QED
  BY <1>3, LeavingHolds

LEMMA LoopHolds == EmuInv /\ (GoOn \/ Return) => EmuInv'
<1> SUFFICES ASSUME EmuInv, GoOn \/ Return PROVE EmuInv'
  OBVIOUS
<1>1. UNCHANGED <<gpr, csr, pc, dev, retire, handler, caller, max_steps, rc, cycle_count,
                  taken, written, stderr>>
  BY DEF GoOn, Return, hartVars, callVars
<1>2. CASE GoOn
  <2>1. EmuTypeOK'
    BY <1>1, <1>2 DEF GoOn, EmuInv, EmuTypeOK, TypeOK, Control
  <2>2. BelowLimit'
    BY <1>1, <1>2, LimitAssumption DEF GoOn, LimitReached, EmuInv, EmuTypeOK, BelowLimit
  <2>3. QED
    BY <1>1, <1>2, <2>1, <2>2 DEF GoOn, EmuInv, StepsBounded, CallsAreLive
<1>3. CASE Return
  <2>1. EmuTypeOK' /\ Leaves
    BY <1>1, <1>3 DEF Return, EmuInv, EmuTypeOK, TypeOK, Control, Leaves
  <2>2. QED
    BY <2>1, LeavingHolds
<1>4. QED
  BY <1>2, <1>3

LEMMA InternalHolds == EmuInv /\ Internal => EmuInv'
  BY StepHolds, StepHaltedHolds, SysEndsHolds, SysGoesOnHolds, StopAtLimitHolds, LoopHolds
     DEF Internal, SysEnds, SysGoesOn

----------------------------------------------------------------------------
(* The calls. *)
LEMMA CopiedIsRam ==
    ASSUME NEW ram \in [RamCell -> ByteVal], NEW file \in Seq(ByteVal), NEW addr \in Word
    PROVE  Copied(ram, file, addr) \in [RamCell -> ByteVal]
<1> DEFINE s == Owner(Map, addr)
           At(c) == c[2] - (addr - Map[s].start)
<1>1. ASSUME NEW c \in RamCell, At(c) \in 0 .. Len(file) - 1
      PROVE  file[At(c) + 1] \in ByteVal
  <2>1. At(c) + 1 \in 1 .. Len(file)
    BY <1>1
  <2>2. QED
    BY <2>1
<1>2. ASSUME NEW c \in RamCell
      PROVE  (IF c[1] = s /\ At(c) \in 0 .. Len(file) - 1 THEN file[At(c) + 1] ELSE ram[c])
                \in ByteVal
  BY <1>1, <1>2
<1> HIDE DEF At
<1>3. Copied(ram, file, addr) =
        [c \in RamCell |-> IF c[1] = s /\ At(c) \in 0 .. Len(file) - 1
                           THEN file[At(c) + 1] ELSE ram[c]]
  BY DEF Copied, At
<1>4. QED
  BY <1>2, <1>3

(* What a load does to the devices. *)
LEMMA LoadDevices ==
    ASSUME dev \in Devices, NEW file \in Seq(ByteVal), NEW addr \in Word,
           CallLoad(file, addr)
    PROVE  /\ dev' \in Devices /\ SameHalt(dev, dev') /\ dev'.stdout = dev.stdout
           /\ dev'.uart = dev.uart
<1>1. CASE dev' = dev
  BY <1>1 DEF SameHalt
<1>2. CASE dev' = [dev EXCEPT !.ram = Copied(dev.ram, file, addr)]
  <2> DEFINE new == Copied(dev.ram, file, addr)
  <2>1. new \in [RamCell -> ByteVal]
    BY CopiedIsRam DEF Devices
  <2> HIDE DEF new
  <2>2. dev' = [dev EXCEPT !.ram = new]
    BY <1>2 DEF new
  <2>3. QED
    BY <2>1, <2>2 DEF Devices, SameHalt
<1>3. QED
  BY <1>1, <1>2 DEF CallLoad

LEMMA CallHolds == EmuInv /\ AnyCall => EmuInv'
<1> SUFFICES ASSUME EmuInv, AnyCall PROVE EmuInv'
  OBVIOUS
<1>1. ASSUME NEW p \in Word, CallInit(p) PROVE EmuInv'
  <2>1. retire' \in Retirement
    BY <1>1 DEF CallInit, EmuInv, EmuTypeOK, TypeOK, Retirement
  <2>2. ctl' = "idle" /\ pc' = p /\ UNCHANGED <<gpr, csr, dev, handler, caller, max_steps, rc,
                                              cycle_count, taken, written, stderr>>
    BY <1>1 DEF CallInit, callVars
  <2>3. EmuTypeOK' /\ Leaves
    BY <2>1, <2>2 DEF EmuInv, EmuTypeOK, TypeOK, Control, Leaves
  <2>4. QED
    BY <2>3, LeavingHolds
<1>2. ASSUME NEW h \in {"default", "custom", "none"}, CallSetHandler(h) PROVE EmuInv'
  BY <1>2 DEF CallSetHandler, hartVars, EmuInv, EmuTypeOK, TypeOK, StepsBounded, BelowLimit,
     CallsAreLive
<1>3. ASSUME NEW file \in Seq(ByteVal), NEW addr \in Word, CallLoad(file, addr)
      PROVE  EmuInv'
  <2>1. dev' \in Devices
    BY <1>3, LoadDevices DEF EmuInv, EmuTypeOK, TypeOK
  <2>2. /\ ctl = "idle" /\ rc' \in {0, -1}
        /\ UNCHANGED <<gpr, csr, pc, retire, handler, cycle_count, caller, max_steps, taken,
                       ctl, written, stderr>>
    BY <1>3 DEF CallLoad
  <2>3. EmuTypeOK'
    BY <2>1, <2>2 DEF EmuInv, EmuTypeOK, TypeOK
  <2>4. QED
    BY <2>2, <2>3 DEF EmuInv, StepsBounded, BelowLimit, CallsAreLive
<1>4. ASSUME CallStep \/ \E m \in Limits : CallRun(m) PROVE EmuInv'
  <2>1. /\ UNCHANGED <<gpr, csr, pc, dev, retire, handler, cycle_count, rc, written, stderr>>
        /\ caller' \in {"run", "step"} /\ ctl' = caller' /\ taken' = 0
        /\ max_steps' \in Limits \cup {0}
    BY <1>4 DEF CallRun, CallStep, hartVars, EmuInv, EmuTypeOK
  <2>2. 0 \in 0 .. CycleCap
    BY LimitAssumption
  <2>3. EmuTypeOK'
    BY <2>1, <2>2 DEF EmuInv, EmuTypeOK, TypeOK, Control
  <2>4. QED
    BY <2>1, <2>3 DEF EmuInv, StepsBounded, BelowLimit, CallsAreLive
<1>5. CASE CallInterrupt
  <2>1. TypeOK'
    BY <1>5, InterruptKeepsType DEF CallInterrupt, EmuInv, EmuTypeOK
  <2>2. /\ ctl = "idle"
        /\ UNCHANGED <<handler, caller, max_steps, rc, cycle_count, taken, ctl, written, stderr>>
    BY <1>5 DEF CallInterrupt, callVars
  <2>3. QED
    BY <2>1, <2>2 DEF EmuInv, EmuTypeOK, StepsBounded, BelowLimit, CallsAreLive
<1>6. QED
  BY <1>1, <1>2, <1>3, <1>4, <1>5 DEF AnyCall

LEMMA EmuStepHolds == EmuInv /\ [AnyNext]_emuVars => EmuInv'
<1>1. EmuInv /\ UNCHANGED emuVars => EmuInv'
  BY DEF emuVars, EmuInv, EmuTypeOK, TypeOK, StepsBounded, BelowLimit, CallsAreLive
<1>2. QED
  BY <1>1, InternalHolds, CallHolds DEF AnyNext

LEMMA EmuInvHolds == EmuSpec => []EmuInv
  BY EmuInitHolds, EmuStepHolds, CallsAreAnyCalls, PTL DEF EmuSpec

----------------------------------------------------------------------------
(* What the steps leave alone, under any caller. *)
LEMMA HaltIsFinal ==
    ASSUME EmuInv, AnyNext, dev.halted
    PROVE  /\ dev'.halted /\ dev'.stdout = dev.stdout
           /\ UNCHANGED <<gpr, cycle_count, stderr>>
           /\ ctl # "idle" => UNCHANGED <<csr, pc>> /\ dev'.ram = dev.ram
<1>1. ctl \notin {"new", "syscall", "write"}
  BY DEF EmuInv, CallsAreLive
<1>2. CASE Internal
  <2>1. StepHalted \/ StopAtLimit \/ GoOn \/ Return
    BY <1>1, <1>2 DEF Internal, Step, SysHalt, SysCustom, SysWrite, SysWriteBadFd,
       SysWriteBegin, SysWriteByte, SysWriteEnd
  <2>2. CASE StopAtLimit
    BY <2>2, LimitDevices DEF EmuInv, StopAtLimit
  <2>3. QED
    BY <2>1, <2>2 DEF StepHalted, GoOn, Return, hartVars
<1>3. CASE AnyCall
  <2>1. ASSUME NEW file \in Seq(ByteVal), NEW addr \in Word, CallLoad(file, addr)
        PROVE  /\ dev'.halted /\ dev'.stdout = dev.stdout /\ ctl = "idle"
               /\ UNCHANGED <<gpr, cycle_count, stderr>>
    <3>1. SameHalt(dev, dev') /\ dev'.stdout = dev.stdout
      BY <2>1, LoadDevices DEF EmuInv, EmuTypeOK, TypeOK
    <3>2. QED
      BY <2>1, <3>1 DEF CallLoad, SameHalt
  <2>2. QED
    BY <1>1, <1>3, <2>1
       DEF AnyCall, CallInit, CallSetHandler, CallRun, CallStep, CallInterrupt, RaiseInterrupt,
           hartVars
<1>4. QED
  BY <1>2, <1>3 DEF AnyNext

HaltCause == \/ ctl \in {"run", "step"} /\ TohostHalt' /\ retire'.trap = TRAP_NONE
             \/ ctl = "syscall" /\ dev'.exit_code = gpr'[A0] /\ retire'.trap = TRAP_ECALL_M
             \/ caller = "run" /\ max_steps # 0 /\ cycle_count >= max_steps
                  /\ dev'.exit_code = 1

LEMMA HaltHasCause ==
    ASSUME EmuInv, AnyNext
    PROVE  SameHalt(dev, dev') \/ (dev'.halted /\ HaltCause)
<1>0. TypeOK /\ dev \in Devices
  BY DEF EmuInv, EmuTypeOK, TypeOK
<1>1. CASE Step
  BY <1>0, <1>1, StepHalts DEF Step, HaltCause
<1>2. CASE SysEnds
  <2>1. CASE dev' = dev
    BY <2>1 DEF SameHalt
  <2>2. CASE Unhandled /\ (SysHalt \/ SysCustom)
    <3>1. gpr'[A0] \in Word
      BY <1>0, <2>2, ArgumentsAreWords, SetA0KeepsType, CallAssumption DEF SysHalt, SysCustom
    <3>2. dev'.halted /\ dev'.exit_code = gpr'[A0]
      BY <1>0, <2>2, <3>1, UnhandledDevices
    <3>3. ctl = "syscall" /\ retire' = retire
      BY <2>2 DEF SysHalt, SysCustom, Unhandled
    <3>4. QED
      BY <3>2, <3>3 DEF HaltCause, EmuInv, CallsAreLive
  <2>3. QED
    BY <1>2, <2>1, <2>2 DEF SysEnds, SysHalt, SysCustom, SysWriteBadFd, SysWriteEnd
<1>3. CASE SysGoesOn
  BY <1>3, ByteOut DEF SysGoesOn, SysWriteBegin, hartVars, SameHalt, EmuInv
<1>4. CASE StopAtLimit
  BY <1>4, LimitDevices DEF StopAtLimit, LimitReached, HaltCause, EmuInv, BelowLimit
<1>5. CASE StepHalted \/ GoOn \/ Return
  BY <1>5 DEF StepHalted, GoOn, Return, hartVars, SameHalt
<1>6. CASE AnyCall
  BY <1>0, <1>6, LoadDevices
     DEF AnyCall, CallInit, CallSetHandler, CallRun, CallStep, CallInterrupt, RaiseInterrupt,
         hartVars, SameHalt
<1>7. QED
  BY <1>1, <1>2, <1>3, <1>4, <1>5, <1>6 DEF AnyNext, Internal, SysEnds, SysGoesOn

----------------------------------------------------------------------------
(* The write call.  What it has put out so far is the end of its stream, so  *)
(* the stream is at least that long; printing changes no byte the bus reads. *)
Stream  == IF gpr[A0] = 1 THEN dev.stdout ELSE stderr
InStream == ctl = "write" => written <= Len(Stream)
ByteAt(n) == BusRead(dev, Add(gpr[A1], n), 1)

PrefixInv == EmuTypeOK /\ InStream /\ WriteIsPrefix

LEMMA ReadsIgnoreOutput ==
    ASSUME NEW d, NEW e, d.ram = e.ram, d.uart = e.uart, NEW a, NEW n
    PROVE  BusRead(d, a, n) = BusRead(e, a, n)
<1> DEFINE s == Owner(Map, a)
<1>1. CASE s = NoSlot
  BY <1>1, BusReadArms
<1>2. CASE s # NoSlot
  <2>1. Map[s].kind \in {"ram", "tohost", "uart"}
    BY <1>2, OwnerIsSlot, KindOfSlot
  <2>2. CASE Map[s].kind = "tohost"
    BY <1>2, <2>2, BusReadArms
  <2>3. CASE Map[s].kind = "uart"
    <3>1. /\ BusRead(d, a, n) = Value(UartRead(d.uart, a % 8))
          /\ BusRead(e, a, n) = Value(UartRead(e.uart, a % 8))
      BY <1>2, <2>3, BusReadArms, Zenon
    <3>2. QED
      BY <3>1
  <2>4. CASE Map[s].kind = "ram"
    <3>1. /\ BusRead(d, a, n) = IF RamHolds(s, a, n)
                                THEN Value(RamRead(d.ram, s, a, n)) ELSE Fault
          /\ BusRead(e, a, n) = IF RamHolds(s, a, n)
                                THEN Value(RamRead(e.ram, s, a, n)) ELSE Fault
      BY <1>2, <2>4, BusReadArms, Zenon
    <3>2. QED
      BY <3>1
  <2>5. QED
    BY <2>1, <2>2, <2>3, <2>4
<1>3. QED
  BY <1>1, <1>2

(* One turn of the byte loop. *)
LEMMA ByteKeepsPrefix ==
    ASSUME PrefixInv, EmuTypeOK', SysWriteByte
    PROVE  PrefixInv'
<1> DEFINE b == NextByte.val % Byte
<1>1. /\ b \in ByteVal /\ dev \in Devices /\ written \in Nat
      /\ ctl = "write" /\ ctl' = "write" /\ written' = written + 1 /\ gpr' = gpr
      /\ Stream \in Seq(ByteVal) /\ written <= Len(Stream)
  BY NextByteIsByte, WordIsNat
     DEF PrefixInv, EmuTypeOK, TypeOK, Devices, InStream, Stream, SysWriteByte
<1>2. /\ Stream' = Append(Stream, b)
      /\ dev'.ram = dev.ram /\ dev'.uart = dev.uart
  <2>1. CASE gpr[A0] = 1
    <3>1. dev' = Printed(dev, b)
      BY <2>1 DEF SysWriteByte, Printed
    <3>2. QED
      BY <1>1, <2>1, <3>1, PrintedFields DEF Stream
  <2>2. CASE gpr[A0] # 1
    BY <1>1, <2>2 DEF SysWriteByte, Stream
  <2>3. QED
    BY <2>1, <2>2
<1>3. \A n : ByteAt(n)' = ByteAt(n)
  <2> SUFFICES ASSUME NEW n
               PROVE  BusRead(dev', Add(gpr'[A1], n), 1) = BusRead(dev, Add(gpr[A1], n), 1)
    BY DEF ByteAt
  <2>1. BusRead(dev', Add(gpr[A1], n), 1) = BusRead(dev, Add(gpr[A1], n), 1)
    BY <1>2, ReadsIgnoreOutput
  <2>2. QED
    BY <2>1, <1>1
<1>4. /\ written < gpr[A2] /\ ByteAt(written).ok
      /\ b = ByteAt(written).val % Byte
  BY DEF SysWriteByte, MoreBytes, NextByte, ByteAt
<1> HIDE DEF b
<1>5. Len(Stream') = Len(Stream) + 1 /\ Stream'[Len(Stream) + 1] = b
      /\ \A k \in 1 .. Len(Stream) : Stream'[k] = Stream[k]
  BY <1>1, <1>2
<1>6. \A n \in 0 .. written - 1 :
         /\ n < gpr[A2] /\ ByteAt(n).ok
         /\ Stream[Len(Stream) - written + 1 + n] = ByteAt(n).val % Byte
  BY <1>1 DEF PrefixInv, WriteIsPrefix, Readable, ByteAt, Stream
<1>7. ASSUME NEW n \in 0 .. written' - 1
      PROVE  /\ n < gpr'[A2] /\ ByteAt(n)'.ok
             /\ Stream'[Len(Stream') - written' + 1 + n] = ByteAt(n)'.val % Byte
  <2>1. Len(Stream') - written' + 1 + n = Len(Stream) - written + 1 + n
    BY <1>1, <1>5
  <2>2. CASE n = written
    BY <1>1, <1>3, <1>4, <1>5, <2>1, <2>2
  <2>3. CASE n # written
    <3>1. n \in 0 .. written - 1
      BY <1>1, <2>3
    <3>2. Len(Stream) - written + 1 + n \in 1 .. Len(Stream)
      BY <1>1, <3>1
    <3>3. QED
      BY <1>1, <1>3, <1>5, <1>6, <2>1, <3>1, <3>2
  <2>4. QED
    BY <2>2, <2>3
<1>8. WriteIsPrefix'
  BY <1>7 DEF WriteIsPrefix, Readable, ByteAt, Stream
<1>9. InStream'
  BY <1>1, <1>5 DEF InStream
<1>10. QED
  BY <1>8, <1>9 DEF PrefixInv

LEMMA PrefixInit == EmuInit => PrefixInv
  BY EmuInitHolds DEF EmuInv, PrefixInv, EmuInit, InStream, WriteIsPrefix

LEMMA WriteGoesOn ==
    ASSUME AnyNext, ctl' = "write"
    PROVE  SysWriteByte \/ SysWriteBegin
  BY DEF AnyNext, AnyCall, Internal, Step, StepHalted, SysHalt, SysCustom, SysWriteBadFd,
     SysWriteEnd, Handled, Unhandled, AfterStep, StopAtLimit, GoOn, Return, CallInit,
     CallSetHandler, CallLoad, CallRun, CallStep, CallInterrupt

LEMMA PrefixStep == PrefixInv /\ EmuTypeOK' /\ [AnyNext]_emuVars => PrefixInv'
<1> SUFFICES ASSUME PrefixInv, EmuTypeOK', [AnyNext]_emuVars PROVE PrefixInv'
  OBVIOUS
<1>1. CASE SysWriteByte
  BY <1>1, ByteKeepsPrefix
<1>2. CASE SysWriteBegin
  <2>1. written' = 0 /\ gpr' = gpr /\ dev' = dev /\ stderr' = stderr
    BY <1>2 DEF SysWriteBegin, hartVars
  <2>2. Stream' = Stream /\ Stream \in Seq(ByteVal)
    BY <2>1 DEF Stream, PrefixInv, EmuTypeOK, TypeOK, Devices
  <2>3. InStream'
    BY <2>1, <2>2 DEF InStream
  <2>4. WriteIsPrefix'
    BY <2>1 DEF WriteIsPrefix
  <2>5. QED
    BY <2>3, <2>4 DEF PrefixInv
<1>3. CASE UNCHANGED emuVars
  BY <1>3 DEF emuVars, PrefixInv, InStream, WriteIsPrefix, Readable, Stream
<1>4. CASE ctl' # "write"
  BY <1>4 DEF PrefixInv, InStream, WriteIsPrefix
<1>5. QED
  BY <1>1, <1>2, <1>3, <1>4, WriteGoesOn

(* In the byte loop there is either another byte or the end of the call. *)
LEMMA WriteTurns ==
    ASSUME AnyNext, ctl = "write"
    PROVE  SysWriteByte \/ SysWriteEnd
  BY DEF AnyNext, AnyCall, Internal, Step, StepHalted, SysHalt, SysCustom, SysWrite,
     SysWriteBadFd, SysWriteBegin, StopAtLimit, GoOn, Return, CallInit, CallSetHandler,
     CallLoad, CallRun, CallStep, CallInterrupt

(* What WriteReturnsCount says of a step. *)
Counting ==
    /\ ctl # "write" /\ ctl' = "write" => written' = 0 /\ BytesOut' = BytesOut
    /\ ctl = "write" => BytesOut' - BytesOut = written' - written
    /\ ctl = "write" /\ ctl' # "write" =>
          /\ written' = written
          /\ gpr'[A0] = written /\ gpr'[A0] <= gpr[A2]
          /\ \A n \in 0 .. gpr'[A0] - 1 : Readable(n)
          /\ gpr'[A0] < gpr[A2] => ~Readable(gpr'[A0])

LEMMA ByteIsCounted ==
    ASSUME EmuTypeOK, SysWriteByte
    PROVE  BytesOut' = BytesOut + 1 /\ BytesOut \in Nat
<1> DEFINE b == NextByte.val % Byte
<1>1. b \in ByteVal /\ dev \in Devices /\ dev.stdout \in Seq(ByteVal) /\ stderr \in Seq(ByteVal)
  BY NextByteIsByte DEF EmuTypeOK, TypeOK, Devices
<1> HIDE DEF b
<1>2. /\ Len(dev.stdout) \in Nat /\ Len(Append(dev.stdout, b)) = Len(dev.stdout) + 1
      /\ Len(stderr) \in Nat /\ Len(Append(stderr, b)) = Len(stderr) + 1
  BY <1>1
<1>3. \/ dev'.stdout = Append(dev.stdout, b) /\ stderr' = stderr
      \/ dev'.stdout = dev.stdout /\ stderr' = Append(stderr, b)
  <2>1. CASE gpr[A0] = 1
    <3>1. dev' = Printed(dev, b) /\ stderr' = stderr
      BY <2>1 DEF SysWriteByte, Printed, b
    <3>2. QED
      BY <1>1, <3>1, PrintedFields
  <2>2. CASE gpr[A0] # 1
    BY <2>2 DEF SysWriteByte, b
  <2>3. QED
    BY <2>1, <2>2
<1>4. \/ Len(dev'.stdout) = Len(dev.stdout) + 1 /\ Len(stderr') = Len(stderr)
      \/ Len(dev'.stdout) = Len(dev.stdout) /\ Len(stderr') = Len(stderr) + 1
  BY <1>2, <1>3, Zenon
<1>5. QED
  BY <1>2, <1>4 DEF BytesOut

LEMMA EndIsCounted ==
    ASSUME PrefixInv, SysWriteEnd
    PROVE  /\ BytesOut' = BytesOut /\ BytesOut \in Nat /\ written' = written
           /\ gpr'[A0] = written /\ written <= gpr[A2]
           /\ \A n \in 0 .. written - 1 : Readable(n)
           /\ written < gpr[A2] => ~Readable(written)
<1>1. ctl = "write" /\ dev' = dev /\ stderr' = stderr /\ written' = written
  BY DEF SysWriteEnd
<1>2. dev.stdout \in Seq(ByteVal) /\ stderr \in Seq(ByteVal)
  BY DEF PrefixInv, EmuTypeOK, TypeOK, Devices
<1>3. BytesOut' = BytesOut /\ BytesOut \in Nat
  BY <1>1, <1>2 DEF BytesOut
<1>4. gpr'[A0] = written
  BY SetA0KeepsType DEF SysWriteEnd, PrefixInv, EmuTypeOK
<1>5. \A n \in 0 .. written - 1 : n < gpr[A2] /\ Readable(n)
  BY <1>1 DEF PrefixInv, WriteIsPrefix
<1>6. written \in Nat /\ gpr[A2] \in Nat
  BY ArgumentsAreWords, WordIsNat DEF PrefixInv, EmuTypeOK
<1>7. written <= gpr[A2]
  <2>1. CASE written = 0
    BY <1>6, <2>1
  <2>2. CASE written # 0
    <3>1. written - 1 \in 0 .. written - 1
      BY <1>6, <2>2
    <3>2. written - 1 < gpr[A2]
      BY <1>5, <3>1
    <3>3. QED
      BY <1>6, <3>2
  <2>3. QED
    BY <2>1, <2>2
<1>8. written < gpr[A2] => ~Readable(written)
  BY DEF SysWriteEnd, MoreBytes, NextByte, Readable
<1>9. QED
  BY <1>1, <1>3, <1>4, <1>5, <1>7, <1>8

LEMMA WriteCounts == PrefixInv /\ [AnyNext]_emuVars => [Counting]_emuVars
<1> SUFFICES ASSUME PrefixInv, AnyNext PROVE Counting
  OBVIOUS
<1>1. CASE ctl # "write" /\ ctl' = "write"
  <2>1. SysWriteBegin
    BY <1>1, WriteGoesOn DEF SysWriteByte
  <2>2. written' = 0 /\ dev' = dev /\ stderr' = stderr
    BY <2>1 DEF SysWriteBegin, hartVars
  <2>3. QED
    BY <1>1, <2>2 DEF Counting, BytesOut
<1>2. CASE ctl = "write"
  <2>1. CASE SysWriteByte
    <3>1. /\ BytesOut' = BytesOut + 1 /\ BytesOut \in Nat /\ written \in Nat
          /\ written' = written + 1 /\ ctl' = "write"
      BY <2>1, ByteIsCounted, WordIsNat DEF PrefixInv, EmuTypeOK, SysWriteByte
    <3>2. QED
      BY <1>2, <3>1 DEF Counting
  <2>2. CASE SysWriteEnd
    <3>1. written \in Nat
      BY WordIsNat DEF PrefixInv, EmuTypeOK
    <3>2. QED
      BY <1>2, <2>2, <3>1, EndIsCounted DEF Counting
  <2>3. QED
    BY <1>2, <2>1, <2>2, WriteTurns
<1>3. CASE ctl # "write" /\ ctl' # "write"
  BY <1>3 DEF Counting
<1>4. QED
  BY <1>1, <1>2, <1>3

----------------------------------------------------------------------------
(* A load. *)
LEMMA LoadIsVisible ==
    ASSUME TypeOK, NEW file \in Seq(ByteVal), NEW addr \in Word
    PROVE  LoadShows(file, addr)
<1> SUFFICES ASSUME CallLoad(file, addr), rc' = 0, NEW a \in Mapped
             PROVE  BusRead(dev', a, 1) =
                      IF a \in ImageOf(file, addr) /\ Owner(Map, a) = Owner(Map, addr)
                      THEN Value(file[a - addr + 1]) ELSE BusRead(dev, a, 1)
  BY DEF LoadShows, CallLoad, hartVars
<1> DEFINE s == Owner(Map, a)
           o == Owner(Map, addr)
<1>1. /\ Holds(file, addr)
      /\ dev' = [dev EXCEPT !.ram = Copied(dev.ram, file, addr)]
  BY DEF CallLoad
<1>2. o # NoSlot /\ Map[o].kind = "ram" /\ RamHolds(o, addr, Len(file))
  BY <1>1 DEF Holds
<1>3. /\ dev.ram \in [RamCell -> ByteVal] /\ Copied(dev.ram, file, addr) \in [RamCell -> ByteVal]
      /\ dev'.ram = Copied(dev.ram, file, addr) /\ dev'.uart = dev.uart
  <2>1. dev.ram \in [RamCell -> ByteVal]
    BY DEF TypeOK, Devices
  <2> DEFINE new == Copied(dev.ram, file, addr)
  <2>2. new \in [RamCell -> ByteVal]
    BY <2>1, CopiedIsRam
  <2> HIDE DEF new
  <2>3. dev' = [dev EXCEPT !.ram = new]
    BY <1>1 DEF new
  <2>4. dev'.ram = new /\ dev'.uart = dev.uart
    BY <2>3 DEF TypeOK, Devices
  <2>5. QED
    BY <2>1, <2>2, <2>4 DEF new
<1>4. a \in Nat /\ addr \in Nat /\ a \in Word
  <2>1. PICK t \in Slot : a \in Map[t].start .. Map[t].end - 1
    BY DEF Mapped
  <2>2. Map[t].start \in Word /\ Map[t].end \in Word
    BY <2>1, MapAssumption
  <2>3. WordSize \in Nat
    BY WordSizeFacts
  <2>4. QED
    BY <2>1, <2>2, <2>3, WordIsNat DEF Word
<1>5. CASE s = NoSlot
  BY <1>2, <1>5, BusReadArms
<1>6. CASE s # NoSlot
  <2>1. s \in Slot /\ Map[s].kind \in {"ram", "tohost", "uart"}
    BY <1>6, OwnerIsSlot, KindOfSlot
  <2>2. CASE Map[s].kind = "tohost"
    BY <1>2, <1>6, <2>2, BusReadArms
  <2>3. CASE Map[s].kind = "uart"
    <3>1. /\ BusRead(dev', a, 1) = Value(UartRead(dev'.uart, a % 8))
          /\ BusRead(dev, a, 1) = Value(UartRead(dev.uart, a % 8))
      BY <1>6, <2>3, BusReadArms, Zenon
    <3>2. QED
      BY <1>2, <1>3, <2>3, <3>1
  <2>4. CASE Map[s].kind = "ram"
    <3>0. /\ s \in RamSlot /\ Map[s].start \in Nat /\ Map[s].size \in Nat
          /\ Len(file) \in Nat
      BY <2>1, <2>4, MapAssumption, WordIsNat DEF RamSlot
    <3>1. /\ BusRead(dev', a, 1) = IF RamHolds(s, a, 1)
                                   THEN Value(RamRead(dev'.ram, s, a, 1)) ELSE Fault
          /\ BusRead(dev, a, 1) = IF RamHolds(s, a, 1)
                                  THEN Value(RamRead(dev.ram, s, a, 1)) ELSE Fault
      BY <1>6, <2>4, BusReadArms, Zenon
    <3>2. CASE ~RamHolds(s, a, 1)
      <4>1. ~(a \in ImageOf(file, addr) /\ s = o)
        BY <1>2, <1>4, <3>0, <3>2 DEF RamHolds, ImageOf
      <4>2. QED
        BY <3>1, <3>2, <4>1
    <3>3. CASE RamHolds(s, a, 1)
      <4> DEFINE c == <<s, a - Map[s].start>>
      <4>1. /\ RamRead(dev'.ram, s, a, 1) = Copied(dev.ram, file, addr)[c]
            /\ RamRead(dev.ram, s, a, 1) = dev.ram[c]
            /\ c \in RamCell
        BY <1>3, <1>4, <3>0, <3>3, ReadByte
      <4>2. Copied(dev.ram, file, addr)[c] =
              IF s = o /\ a - Map[s].start - (addr - Map[o].start) \in 0 .. Len(file) - 1
              THEN file[a - Map[s].start - (addr - Map[o].start) + 1] ELSE dev.ram[c]
        BY <4>1 DEF Copied
      <4>3. CASE a \in ImageOf(file, addr) /\ s = o
        <5>1. a - Map[s].start - (addr - Map[o].start) = a - addr
          BY <1>4, <3>0, <4>3
        <5>2. a - addr \in 0 .. Len(file) - 1
          BY <1>4, <3>0, <4>3 DEF ImageOf
        <5>3. QED
          BY <3>1, <3>3, <4>1, <4>2, <4>3, <5>1, <5>2
      <4>4. CASE ~(a \in ImageOf(file, addr) /\ s = o)
        <5>1. s = o => a - Map[s].start - (addr - Map[o].start) = a - addr
          BY <1>4, <3>0
        <5>2. s = o => a - addr \notin 0 .. Len(file) - 1
          BY <1>4, <3>0, <4>4 DEF ImageOf
        <5>3. QED
          BY <3>1, <3>3, <4>1, <4>2, <4>4, <5>1, <5>2
      <4>5. QED
        BY <4>3, <4>4
    <3>4. QED
      BY <3>2, <3>3
  <2>5. QED
    BY <2>1, <2>2, <2>3, <2>4
<1>7. QED
  BY <1>5, <1>6

----------------------------------------------------------------------------
(* The library under any caller: EmuSpec. *)

(* Type correctness of whole runs: a write call's counter and results stay   *)
(* words, what goes out are bytes, and counts stay in bounds.                *)
THEOREM RunsAreTyped == EmuSpec => []EmuTypeOK
  BY EmuInvHolds, PTL DEF EmuInv

(* emulator_run takes no step beyond max_steps but the first.                *)
THEOREM RunsAreBounded == EmuSpec => []StepsBounded
  BY EmuInvHolds, PTL DEF EmuInv

(* Nothing halts the machine, and no exit code is set, but by a store to     *)
(* TOHOST, an ECALL that was not handled, or the step limit.                 *)
THEOREM HaltsHaveCauses == EmuSpec => HaltsForCause
<1> DEFINE Caused == (dev.halted # dev'.halted \/ dev.exit_code # dev'.exit_code) =>
                        dev'.halted /\ HaltCause
<1>1. EmuInv /\ [EmuNext]_emuVars => [Caused]_emuVars
  BY HaltHasCause, CallsAreAnyCalls DEF SameHalt
<1>2. QED
  BY <1>1, EmuInvHolds, PTL DEF EmuSpec, HaltsForCause, HaltCause

(* A halted guest runs no further, whatever its caller does.                 *)
THEOREM HaltStopsGuest == EmuSpec => GuestStopsAtHalt
<1> DEFINE Still == dev.halted =>
                      /\ dev'.halted /\ dev'.stdout = dev.stdout
                      /\ UNCHANGED <<gpr, cycle_count, stderr>>
                      /\ ctl # "idle" => UNCHANGED <<csr, pc>> /\ dev'.ram = dev.ram
<1>1. EmuInv /\ [EmuNext]_emuVars => [Still]_emuVars
  BY HaltIsFinal, CallsAreAnyCalls
<1>2. QED
  BY <1>1, EmuInvHolds, PTL DEF EmuSpec, GuestStopsAtHalt

LEMMA PrefixHolds == EmuSpec => []PrefixInv
  BY RunsAreTyped, PrefixInit, PrefixStep, CallsAreAnyCalls, PTL DEF EmuSpec

(* What a write call has put out is a readable prefix of the guest's buffer, *)
(* byte for byte, also where the buffer lies in a device or wraps around.    *)
THEOREM WritesArePrefixes == EmuSpec => []WriteIsPrefix
  BY PrefixHolds, PTL DEF PrefixInv

(* A write call returns the length of the longest prefix the bus can read,   *)
(* at most the requested length, and has put out exactly that many bytes.    *)
THEOREM WritesReturnCounts == EmuSpec => WriteReturnsCount
<1>1. PrefixInv /\ [EmuNext]_emuVars => [Counting]_emuVars
  BY WriteCounts, CallsAreAnyCalls
<1>2. QED
  BY <1>1, PrefixHolds, PTL DEF EmuSpec, WriteReturnsCount, Counting

----------------------------------------------------------------------------
(* The harness implements RunLoop, step by step.  A call that is in progress *)
(* has taken a step exactly when it is past its first.                       *)
Fresh == /\ ctl \in {"syscall", "write", "limit"} => taken # 0
         /\ ctl = "step" => taken = 0
         /\ ctl \notin {"new", "idle"} => caller \in {"run", "step"}

Phase == IF ctl \in {"new", "idle"} THEN "idle" ELSE caller

LEMMA CapIsPositive == CycleCap \in Nat /\ CycleCap > 0
<1>1. 0 \in 0 .. CycleCap - 1 /\ CycleCap \in Nat
  BY LimitAssumption, ScenarioAssumption
<1>2. QED
  BY <1>1

LEMMA StepLoops ==
    ASSUME EmuInv, EmuInv', Fresh, Step
    PROVE  Fresh' /\ Loop!Step
<1>1. /\ ctl \in {"run", "step"} /\ ~dev.halted
      /\ cycle_count' = Counted(cycle_count) /\ taken' = Counted(taken)
      /\ ctl' = IF retire'.trap = TRAP_ECALL_M THEN "syscall" ELSE AfterStep
      /\ caller' = caller /\ max_steps' = max_steps
      /\ taken \in 0 .. CycleCap /\ cycle_count \in 0 .. CycleCap
  BY DEF Step, callVars, EmuInv, EmuTypeOK
<1>2. taken' # 0
  BY <1>1, CapIsPositive DEF Counted
<1>3. caller = ctl
  BY <1>1 DEF EmuInv, BelowLimit
<1>4. Fresh'
  BY <1>1, <1>2, <1>3 DEF Fresh, AfterStep
<1>5. /\ Phase = ctl
      /\ Phase' = Phase \/ (Phase = "step" /\ Phase' = "idle")
  BY <1>1, <1>3 DEF Phase, AfterStep
<1>6. (~dev.halted /\ dev'.halted = TRUE /\ dev'.exit_code \in Word) \/ SameHalt(dev, dev')
  <2>1. SameHalt(dev, dev') \/ dev'.halted
    BY StepHalts DEF EmuInv, EmuTypeOK, Step
  <2>2. dev'.exit_code \in Word /\ dev'.halted \in BOOLEAN
    BY DEF EmuInv, EmuTypeOK, TypeOK, Devices
  <2>3. QED
    BY <1>1, <2>1, <2>2
<1>7. ~(Phase = "run" /\ max_steps # 0 /\ cycle_count >= max_steps /\ ~(taken = 0))
  <2>1. max_steps \in Nat
    BY LimitAssumption DEF EmuInv, EmuTypeOK
  <2>2. QED
    BY <1>1, <1>5, <2>1 DEF EmuInv, BelowLimit
<1>8. Loop!Step
  BY <1>1, <1>2, <1>5, <1>6, <1>7
     DEF Loop!Step, Loop!Stops, Loop!Exhausted, Phase, Fresh, Counted, SameHalt
<1>9. QED
  BY <1>4, <1>8

LEMMA ServeLoops ==
    ASSUME EmuInv, EmuInv', Fresh, SysEnds \/ SysGoesOn
    PROVE  Fresh' /\ Loop!Serve
<1>1. /\ ctl \in {"syscall", "write"} /\ ~dev.halted /\ taken # 0
      /\ UNCHANGED <<caller, max_steps, cycle_count, taken>>
  BY DEF SysEnds, SysGoesOn, SysHalt, SysCustom, SysWrite, SysWriteBadFd, SysWriteBegin,
     SysWriteByte, SysWriteEnd, callVars, EmuInv, CallsAreLive, Fresh
<1>2. ctl' = AfterStep \/ ctl' = "write"
  BY DEF SysEnds, SysGoesOn, SysHalt, SysCustom, SysWrite, SysWriteBadFd, SysWriteBegin,
     SysWriteByte, SysWriteEnd, Handled, Unhandled
<1>3. Fresh'
  BY <1>1, <1>2 DEF Fresh, AfterStep
<1>4. Phase # "idle" /\ (Phase' = Phase \/ (Phase = "step" /\ Phase' = "idle"))
  BY <1>1, <1>2 DEF Phase, AfterStep, Fresh
<1>5. (dev'.halted = TRUE /\ dev'.exit_code \in Word) \/ SameHalt(dev, dev')
  <2>1. SameHalt(dev, dev') \/ dev'.halted
    BY HaltHasCause DEF AnyNext, Internal, SysEnds, SysGoesOn
  <2>2. dev'.exit_code \in Word /\ dev'.halted \in BOOLEAN
    BY DEF EmuInv, EmuTypeOK, TypeOK, Devices
  <2>3. QED
    BY <2>1, <2>2
<1>6. Loop!Serve
  BY <1>1, <1>4, <1>5 DEF Loop!Serve, Loop!Stops, Phase, SameHalt
<1>7. QED
  BY <1>3, <1>6

LEMMA EndLoops ==
    ASSUME EmuInv, Fresh, StopAtLimit \/ GoOn \/ Return \/ StepHalted
    PROVE  Fresh' /\ [Loop!Next]_(Loop!loopVars)
<1>0. UNCHANGED <<caller, max_steps, cycle_count, taken>> /\ max_steps \in Nat
  BY LimitAssumption
     DEF StopAtLimit, GoOn, Return, StepHalted, callVars, EmuInv, EmuTypeOK
<1>1. CASE StopAtLimit
  <2>1. /\ ctl = "limit" /\ ctl' = "idle" /\ max_steps # 0 /\ cycle_count >= max_steps
        /\ caller = "run" /\ taken # 0
    BY <1>1 DEF StopAtLimit, LimitReached, EmuInv, BelowLimit, Fresh
  <2>2. dev'.halted = TRUE /\ dev'.exit_code = 1
    <3>1. dev' \in Devices /\ dev'.halted /\ dev'.exit_code = 1
      BY <1>1, LimitDevices DEF EmuInv
    <3>2. QED
      BY <3>1 DEF Devices
  <2>3. Loop!Exhaust
    BY <1>0, <2>1, <2>2 DEF Loop!Exhaust, Loop!Exhausted
  <2>4. QED
    BY <1>0, <2>1, <2>3 DEF Loop!Next, Fresh
<1>2. CASE GoOn
  BY <1>0, <1>2 DEF GoOn, hartVars, Loop!loopVars, Fresh
<1>3. CASE Return \/ StepHalted
  <2>1. /\ ctl \in {"run", "step"} /\ ctl = caller /\ ctl' = "idle" /\ dev.halted
        /\ dev' = dev
    BY <1>3 DEF Return, StepHalted, hartVars, EmuInv, BelowLimit
  <2>2. dev.halted = TRUE
    BY <2>1 DEF EmuInv, EmuTypeOK, TypeOK, Devices
  <2>3. ~(caller = "run" /\ max_steps # 0 /\ cycle_count >= max_steps /\ ~(taken = 0))
    <3>1. cycle_count \in Int
      BY DEF EmuInv, EmuTypeOK
    <3>2. QED
      BY <1>0, <2>1, <3>1 DEF EmuInv, BelowLimit
  <2>4. caller = "step" => taken = 0
    BY <2>1 DEF Fresh
  <2>5. Loop!Return
    BY <1>0, <2>1, <2>2, <2>3, <2>4 DEF Loop!Return, Loop!Exhausted
  <2>6. QED
    BY <1>0, <2>1, <2>5 DEF Loop!Next, Fresh
<1>4. QED
  BY <1>1, <1>2, <1>3

LEMMA CallLoops ==
    ASSUME EmuInv, Fresh, AnyCall
    PROVE  Fresh' /\ [Loop!Next]_(Loop!loopVars)
<1>1. ASSUME CallStep \/ \E m \in Limits : CallRun(m)
      PROVE  Fresh' /\ [Loop!Next]_(Loop!loopVars)
  <2>1. /\ ctl = "idle" /\ caller' \in {"run", "step"} /\ ctl' = caller' /\ taken' = 0
        /\ caller' = "run" => max_steps' \in Limits
        /\ caller' = "step" => max_steps' = max_steps
        /\ UNCHANGED <<cycle_count, dev>>
    BY <1>1 DEF CallStep, CallRun, hartVars
  <2>2. Loop!Call
    BY <2>1 DEF Loop!Call
  <2>3. QED
    BY <2>1, <2>2 DEF Loop!Next, Fresh
<1>2. ASSUME SameHalt(dev, dev'), ctl \in {"new", "idle"}, ctl' = "idle",
             UNCHANGED <<caller, max_steps, cycle_count, taken>>
      PROVE  Fresh' /\ [Loop!Next]_(Loop!loopVars)
  BY <1>2 DEF SameHalt, Loop!loopVars, Fresh
<1>3. ASSUME NEW file \in Seq(ByteVal), NEW addr \in Word, CallLoad(file, addr)
      PROVE  Fresh' /\ [Loop!Next]_(Loop!loopVars)
  <2>1. SameHalt(dev, dev')
    BY <1>3, LoadDevices DEF EmuInv, EmuTypeOK, TypeOK
  <2>2. QED
    BY <1>2, <1>3, <2>1 DEF CallLoad
<1>4. CASE CallInterrupt
  BY <1>2, <1>4 DEF CallInterrupt, RaiseInterrupt, callVars, SameHalt
<1>5. ASSUME NEW h, CallSetHandler(h) PROVE Fresh' /\ [Loop!Next]_(Loop!loopVars)
  BY <1>2, <1>5 DEF CallSetHandler, hartVars, SameHalt
<1>6. ASSUME NEW p, CallInit(p) PROVE Fresh' /\ [Loop!Next]_(Loop!loopVars)
  BY <1>2, <1>6 DEF CallInit, callVars, SameHalt
<1>7. QED
  BY <1>1, <1>3, <1>4, <1>5, <1>6 DEF AnyCall

LEMMA LoopStep ==
    EmuInv /\ EmuInv' /\ Fresh /\ [AnyNext]_emuVars
       => Fresh' /\ [Loop!Next]_(Loop!loopVars)
<1> SUFFICES ASSUME EmuInv, EmuInv', Fresh, [AnyNext]_emuVars
             PROVE  Fresh' /\ [Loop!Next]_(Loop!loopVars)
  OBVIOUS
<1>1. CASE UNCHANGED emuVars
  BY <1>1 DEF emuVars, Fresh, Loop!loopVars
<1>2. CASE Internal
  BY <1>2, StepLoops, ServeLoops, EndLoops
     DEF Internal, SysEnds, SysGoesOn, Loop!Next
<1>3. CASE AnyCall
  BY <1>3, CallLoops
<1>4. QED
  BY <1>1, <1>2, <1>3 DEF AnyNext

LEMMA LoopInit == EmuInit => Loop!Init /\ Fresh
<1> SUFFICES ASSUME EmuInit PROVE Loop!Init /\ Fresh
  OBVIOUS
<1>1. /\ ctl = "new" /\ caller = "none" /\ max_steps = 0 /\ taken = 0 /\ cycle_count = 0
      /\ Init
  BY DEF EmuInit
<1>2. dev.halted = FALSE /\ dev.exit_code = 0
  BY <1>1 DEF Init
<1>3. QED
  BY <1>1, <1>2 DEF Loop!Init, Fresh

(* Every call of the library behaves as RunLoop says, whatever the guest     *)
(* does: the safety half of RunsTheLoop.                                     *)
THEOREM LoopRefined == EmuSpec => Loop!Init /\ [][Loop!Next]_(Loop!loopVars)
  BY EmuInvHolds, LoopInit, LoopStep, CallsAreAnyCalls, PTL DEF EmuSpec

----------------------------------------------------------------------------
(* A call that steps once or has a limit comes nearer to its end. *)
Nearer == /\ StepsLeft \in Nat /\ PlacesLeft \in Nat
          /\ \/ StepsLeft' < StepsLeft
             \/ StepsLeft' = StepsLeft /\ PlacesLeft' < PlacesLeft

(* The places, one by one. *)
LEMMA Places ==
    /\ ctl = "syscall" => PlacesLeft = WordSize + 2
    /\ ctl = "write" => PlacesLeft = WordSize + 1 - written
    /\ ctl = "limit" => PlacesLeft = 1
    /\ ctl \in {"run", "step"} => PlacesLeft = 0
  BY DEF PlacesLeft

LEMMA PlacesAfter ==
    /\ ctl' = "syscall" => PlacesLeft' = WordSize + 2
    /\ ctl' = "write" => PlacesLeft' = WordSize + 1 - written'
    /\ ctl' = "limit" => PlacesLeft' = 1
    /\ ctl' \in {"run", "step"} => PlacesLeft' = 0
  BY DEF PlacesLeft

LEMMA CallDrawsNearer ==
    ASSUME EmuInv, Internal, InCall', caller = "run" => max_steps # 0
    PROVE  Nearer
<1>1. /\ cycle_count \in 0 .. CycleCap /\ max_steps \in Nat /\ max_steps <= CycleCap
      /\ CycleCap \in Nat /\ WordSize \in Nat /\ WordSize > 4
      /\ written \in Nat /\ written < WordSize
      /\ ctl \in {"run", "limit"} => caller = "run"
      /\ ctl = "step" => caller = "step"
  BY LimitAssumption, WordSizeFacts, WordIsNat DEF EmuInv, EmuTypeOK, BelowLimit
<1>2. caller' = caller /\ max_steps' = max_steps
  BY DEF Internal, Step, StepHalted, SysHalt, SysCustom, SysWriteBadFd, SysWriteBegin,
         SysWriteByte, SysWriteEnd, StopAtLimit, GoOn, Return, callVars
<1>3. ctl \in {"run", "step", "syscall", "write", "limit"}
  BY DEF Internal, Step, StepHalted, SysHalt, SysCustom, SysWriteBadFd, SysWrite,
         SysWriteBegin, SysWriteByte, SysWriteEnd, StopAtLimit, GoOn, Return
<1>4. StepsLeft \in Nat /\ PlacesLeft \in Nat
  <2>1. PlacesLeft \in Nat
    BY <1>1, <1>3, Places
  <2>2. QED
    BY <1>1, <2>1 DEF StepsLeft
(* A step takes one of those left. *)
<1>5. CASE Step
  <2>1. /\ cycle_count' = Counted(cycle_count) /\ ctl \in {"run", "step"}
        /\ ctl' = IF retire'.trap = TRAP_ECALL_M THEN "syscall" ELSE AfterStep
    BY <1>5 DEF Step
  <2>2. ctl' \notin {"run", "step"}
    BY <2>1 DEF AfterStep
  <2>3. CASE caller = "run" /\ max_steps > cycle_count
    <3>1. cycle_count' = cycle_count + 1 /\ StepsLeft = max_steps - cycle_count
      BY <1>1, <2>1, <2>3 DEF Counted, StepsLeft
    <3>2. StepsLeft' = max_steps - (cycle_count + 1) \/ StepsLeft' = 0
      BY <1>2, <2>2, <3>1 DEF StepsLeft
    <3>3. QED
      BY <1>1, <1>4, <2>3, <3>1, <3>2 DEF Nearer
  <2>4. CASE ~(caller = "run" /\ max_steps > cycle_count)
    <3>1. ~(caller = "run" /\ max_steps > cycle_count')
      BY <1>1, <2>1, <2>4 DEF Counted
    <3>2. StepsLeft = 1 /\ StepsLeft' = 0
      BY <1>2, <2>1, <2>2, <2>4, <3>1 DEF StepsLeft
    <3>3. QED
      BY <1>4, <3>2 DEF Nearer
  <2>5. QED
    BY <2>3, <2>4
(* Everything else goes on to a later place in the same step. *)
<1>6. ASSUME cycle_count' = cycle_count, ctl \notin {"run", "step"}, ctl' \notin {"run", "step"},
             PlacesLeft' < PlacesLeft
      PROVE  Nearer
  BY <1>2, <1>4, <1>6 DEF StepsLeft, Nearer
<1>7. CASE SysEnds
  <2>1. ctl \in {"syscall", "write"} /\ Leaves
    BY <1>7, SysEndsHolds
       DEF SysEnds, SysHalt, SysCustom, SysWriteBadFd, SysWrite, SysWriteEnd
  <2>2. ctl' = "limit" /\ cycle_count' = cycle_count
    BY <2>1 DEF Leaves, InCall
  <2>3. PlacesLeft' < PlacesLeft
    BY <1>1, <2>1, <2>2, Places, PlacesAfter
  <2>4. QED
    BY <1>6, <2>1, <2>2, <2>3
<1>8. CASE SysWriteBegin
  <2>1. /\ ctl = "syscall" /\ ctl' = "write" /\ written' = 0 /\ cycle_count' = cycle_count
    BY <1>8 DEF SysWriteBegin, SysWrite
  <2>2. PlacesLeft' < PlacesLeft
    BY <1>1, <2>1, Places, PlacesAfter
  <2>3. QED
    BY <1>6, <2>1, <2>2
<1>9. CASE SysWriteByte
  <2>1. /\ ctl = "write" /\ ctl' = "write" /\ written' = written + 1
        /\ cycle_count' = cycle_count
    BY <1>9 DEF SysWriteByte
  <2>2. PlacesLeft' < PlacesLeft
    BY <1>1, <2>1, Places, PlacesAfter
  <2>3. QED
    BY <1>6, <2>1, <2>2
<1>10. CASE GoOn
  <2>1. /\ ctl = "limit" /\ ctl' = "run" /\ cycle_count' = cycle_count /\ caller = "run"
        /\ cycle_count < max_steps
    BY <1>1, <1>10 DEF GoOn, LimitReached
  <2>2. StepsLeft' = StepsLeft
    BY <1>1, <1>2, <2>1 DEF StepsLeft
  <2>3. PlacesLeft' < PlacesLeft
    BY <2>1, Places, PlacesAfter
  <2>4. QED
    BY <1>4, <2>2, <2>3 DEF Nearer
<1>11. ctl' # "idle"
  BY DEF InCall
<1>12. QED
  BY <1>5, <1>7, <1>8, <1>9, <1>10, <1>11
     DEF Internal, SysEnds, StepHalted, StopAtLimit, Return

LEMMA StepDrawsNearer ==
    EmuInv /\ [AnyNext]_emuVars =>
       [InCall /\ InCall' /\ (caller = "run" => max_steps # 0) => Nearer]_emuVars
<1>1. AnyCall => ~InCall
  BY DEF AnyCall, CallInit, CallSetHandler, CallLoad, CallRun, CallStep, CallInterrupt, InCall
<1>2. QED
  BY <1>1, CallDrawsNearer DEF AnyNext

(* emulator_step, and emulator_run under a limit, come nearer to their end   *)
(* with every step the library makes: no program keeps them from returning   *)
(* but by a library that stops.                                              *)
THEOREM CallsComeToEnd == EmuSpec => CallsDrawToEnd
<1> DEFINE Draws == InCall /\ InCall' /\ (caller = "run" => max_steps # 0) => Nearer
<1>1. EmuInv /\ [EmuNext]_emuVars => [Draws]_emuVars
  BY StepDrawsNearer, CallsAreAnyCalls
<1>2. QED
  BY <1>1, EmuInvHolds, PTL DEF EmuSpec, CallsDrawToEnd, Nearer

----------------------------------------------------------------------------
(* The library inside rve and inside another program: MainSpec.              *)

(* The command line is one of the scenarios'.                                *)
Reading == /\ argv \in Seq(STRING)
           /\ mctl # "embed" => \E s \in Scenarios : argv = s.argv /\ disk = s.disk

MainInv == EmuInv /\ PrefixInv /\ MainTypeOK /\ Reading

LEMMA ContentsAreBytes ==
    ASSUME Reading, mctl # "embed", NEW path
    PROVE  Contents(path) \in Seq(ByteVal)
<1>1. PICK s \in Scenarios : disk = s.disk
  BY DEF Reading
<1>2. QED
  BY <1>1, ScenarioAssumption DEF Contents

(* rve and other programs make only calls the lemmas above are about. *)
LEMMA MainMakesCalls ==
    ASSUME MainTypeOK, Reading, [MainNext]_procVars
    PROVE  [AnyNext]_emuVars
<1>1. CASE InitEmulator
  BY <1>1 DEF InitEmulator, MainTypeOK, Arguments, AnyNext, AnyCall
<1>2. CASE LoadBinary
  <2>1. args.load_addr \in Word /\ Contents(args.binary[1]) \in Seq(ByteVal)
    BY <1>2, ContentsAreBytes DEF LoadBinary, MainTypeOK, Arguments
  <2>2. CallLoad(Contents(args.binary[1]), args.load_addr)
    BY <1>2 DEF LoadBinary
  <2>3. QED
    BY <2>1, <2>2 DEF AnyNext, AnyCall
<1>3. CASE RunEmulator
  BY <1>3 DEF RunEmulator, MainTypeOK, Arguments, AnyNext, AnyCall
<1>4. CASE Emulate
  BY <1>4 DEF Emulate, AnyNext
<1>5. CASE Embed
  BY <1>5, CallsAreAnyCalls DEF Embed, EmuNext
<1>6. CASE ParseArgs \/ Exit
  BY <1>6 DEF ParseArgs, ParseFlag, ParseValue, ParseBinary, ParseError, ParseNoBinary,
     ParseDone, Reject, Exit
<1>7. CASE UNCHANGED procVars
  BY <1>7 DEF procVars
<1>8. QED
  BY <1>1, <1>2, <1>3, <1>4, <1>5, <1>6, <1>7 DEF MainNext, Rve

LEMMA MainInitHolds == MainInit => MainInv
<1> SUFFICES ASSUME MainInit PROVE MainInv
  OBVIOUS
<1>1. EmuInv /\ PrefixInv
  BY EmuInitHolds, PrefixInit DEF MainInit
<1>2. Reading /\ Len(argv) \in Nat
  <2>1. CASE mctl = "parse" /\ \E s \in Scenarios : argv = s.argv /\ disk = s.disk
    BY <2>1, ScenarioAssumption DEF Reading
  <2>2. CASE mctl = "embed" /\ argv = <<>>
    BY <2>2 DEF Reading
  <2>3. QED
    BY <2>1, <2>2 DEF MainInit
<1>3. 0 \in Word /\ 0 \in ByteVal /\ 0 \in Limits
  BY SmallIsWord, ByteAssumption, ScenarioAssumption DEF ByteVal
<1>4. args \in Arguments
  BY <1>3 DEF MainInit, Arguments
<1>5. i \in 1 .. Len(argv) + 1
  <2>1. i = 1
    BY DEF MainInit
  <2>2. QED
    BY <1>2, <2>1
<1>6. QED
  BY <1>1, <1>2, <1>3, <1>4, <1>5 DEF MainInv, MainTypeOK, EmuInv, MainInit

LEMMA ParseKeepsType ==
    ASSUME MainTypeOK, Reading, ParseArgs
    PROVE  /\ i' \in 1 .. Len(argv) + 1 /\ argv' = argv /\ disk' = disk
           /\ args' \in Arguments
           /\ mctl' \in {"parse", "init", "exited"} /\ mctl = "parse"
           /\ status' \in ByteVal
<1>0. i \in 1 .. Len(argv) + 1 /\ Len(argv) \in Nat /\ 1 \in ByteVal
  BY ByteAssumption DEF MainTypeOK, Reading, ByteVal
<1>1. CASE ParseFlag
  <2>1. mctl = "parse" /\ i <= Len(argv) /\ Token \in FlagOpt
    BY <1>1 DEF ParseFlag, Parsing
  <2>2. args' \in Arguments
    BY <1>1, <2>1 DEF ParseFlag, MainTypeOK, Arguments
  <2>3. QED
    BY <1>0, <1>1, <2>1, <2>2 DEF ParseFlag, MainTypeOK
<1>2. CASE ParseValue
  <2>0. i < Len(argv) /\ mctl = "parse"
    BY <1>2 DEF ParseValue, Parsing
  <2>1. PICK s \in Scenarios : argv = s.argv
    BY <2>0 DEF Reading
  <2>2. HexValue[argv[i + 1]] \in Word /\ DecValue[argv[i + 1]] \in Limits
    BY <1>0, <2>0, <2>1, ScenarioAssumption
  <2>3. \/ args' = [args EXCEPT !.reset_pc  = HexValue[argv[i + 1]]]
        \/ args' = [args EXCEPT !.load_addr = HexValue[argv[i + 1]]]
        \/ args' = [args EXCEPT !.max_steps = DecValue[argv[i + 1]]]
    <3>1. CASE Token = "--pc"
      BY <1>2, <3>1, Zenon DEF ParseValue
    <3>2. CASE Token = "--load"
      BY <1>2, <3>2, Zenon DEF ParseValue
    <3>3. CASE Token = "--max"
      BY <1>2, <3>3, Zenon DEF ParseValue
    <3>4. QED
      BY <1>2, <3>1, <3>2, <3>3 DEF ParseValue, ValueOpt
  <2>4. args' \in Arguments
    BY <2>2, <2>3 DEF MainTypeOK, Arguments
  <2>5. i' \in 1 .. Len(argv) + 1
    BY <1>0, <1>2, <2>0 DEF ParseValue
  <2>6. QED
    BY <1>2, <2>0, <2>4, <2>5 DEF ParseValue, MainTypeOK
<1>3. CASE ParseBinary
  <2>1. mctl = "parse" /\ i <= Len(argv)
    BY <1>3 DEF ParseBinary, Parsing
  <2>2. <<Token>> \in {<<argv[p]>> : p \in 1 .. Len(argv)}
    BY <1>0, <2>1 DEF Token
  <2>3. args' \in Arguments
    BY <1>3, <2>2 DEF ParseBinary, MainTypeOK, Arguments
  <2>4. i' = i + 1 /\ UNCHANGED <<argv, disk, mctl, status>> /\ status \in ByteVal
    BY <1>3 DEF ParseBinary, MainTypeOK
  <2>5. QED
    BY <1>0, <2>1, <2>3, <2>4
<1>4. CASE ParseError \/ ParseNoBinary \/ ParseDone
  BY <1>0, <1>4 DEF ParseError, ParseNoBinary, ParseDone, Parsing, Reject, EXIT_FAILURE,
     MainTypeOK
<1>5. QED
  BY <1>1, <1>2, <1>3, <1>4 DEF ParseArgs

LEMMA MainStepHolds == MainInv /\ [MainNext]_procVars => MainInv'
<1> SUFFICES ASSUME MainInv, [MainNext]_procVars PROVE MainInv'
  OBVIOUS
<1>1. [AnyNext]_emuVars
  BY MainMakesCalls DEF MainInv
<1>2. EmuInv' /\ EmuTypeOK'
  BY <1>1, EmuStepHolds DEF MainInv, EmuInv
<1>3. PrefixInv'
  BY <1>1, <1>2, PrefixStep DEF MainInv
<1>4. MainTypeOK' /\ Reading'
  <2>1. CASE ParseArgs
    <3>1. argv' = argv /\ Arguments' = Arguments
      BY <2>1, ParseKeepsType DEF MainInv, Arguments
    <3>2. QED
      BY <1>2, <2>1, <3>1, ParseKeepsType DEF MainInv, MainTypeOK, Reading
  <2>2. CASE InitEmulator \/ LoadBinary \/ RunEmulator
    <3>1. 1 \in ByteVal
      BY ByteAssumption DEF ByteVal
    <3>2. QED
      BY <1>2, <2>2, <3>1
         DEF InitEmulator, LoadBinary, RunEmulator, EXIT_FAILURE, MainInv, MainTypeOK, Arguments, Reading
  <2>3. CASE Exit
    <3>1. dev.exit_code % Byte \in ByteVal
      <4>1. dev.exit_code \in Word
        BY DEF MainInv, EmuInv, EmuTypeOK, TypeOK, Devices
      <4>2. QED
        BY <4>1, WordIsNat, ByteAssumption DEF ByteVal
    <3>2. QED
      BY <1>2, <2>3, <3>1 DEF Exit, MainInv, MainTypeOK, Arguments, Reading
  <2>4. CASE Emulate \/ Embed
    BY <1>2, <2>4 DEF Emulate, Embed, mainVars, MainInv, MainTypeOK, Arguments, Reading
  <2>5. CASE UNCHANGED procVars
    BY <1>2, <2>5 DEF procVars, mainVars, MainInv, MainTypeOK, Arguments, Reading
  <2>6. QED
    BY <2>1, <2>2, <2>3, <2>4, <2>5 DEF MainNext, Rve
<1>5. QED
  BY <1>2, <1>3, <1>4 DEF MainInv

LEMMA MainInvHolds == MainSpec => []MainInv
  BY MainInitHolds, MainStepHolds, PTL DEF MainSpec

(* Type correctness of a process, from its command line to its exit status. *)
THEOREM ProcessIsTyped == MainSpec => []MainTypeOK
  BY MainInvHolds, PTL DEF MainInv

(* What the library promises holds in rve and in any program that embeds it. *)
THEOREM ProcessInherits ==
    MainSpec => []StepsBounded /\ []WriteIsPrefix /\ GuestStopsAtHalt /\ HaltsForCause
                   /\ WriteReturnsCount /\ CallsDrawToEnd
<1> DEFINE Still == dev.halted =>
                      /\ dev'.halted /\ dev'.stdout = dev.stdout
                      /\ UNCHANGED <<gpr, cycle_count, stderr>>
                      /\ ctl # "idle" => UNCHANGED <<csr, pc>> /\ dev'.ram = dev.ram
           Caused == (dev.halted # dev'.halted \/ dev.exit_code # dev'.exit_code) =>
                        dev'.halted /\ HaltCause
           Draws == InCall /\ InCall' /\ (caller = "run" => max_steps # 0) => Nearer
<1>1. MainInv /\ [MainNext]_procVars => [Still]_emuVars /\ [Caused]_emuVars /\ [Counting]_emuVars
                                              /\ [Draws]_emuVars
  <2> SUFFICES ASSUME MainInv, [MainNext]_procVars
               PROVE  [Still]_emuVars /\ [Caused]_emuVars /\ [Counting]_emuVars /\ [Draws]_emuVars
    OBVIOUS
  <2>1. [AnyNext]_emuVars /\ EmuInv /\ PrefixInv
    BY MainMakesCalls DEF MainInv
  <2>2. [Still]_emuVars
    BY <2>1, HaltIsFinal
  <2>3. [Caused]_emuVars
    BY <2>1, HaltHasCause DEF SameHalt
  <2>4. [Counting]_emuVars
    BY <2>1, WriteCounts
  <2>5. [Draws]_emuVars
    BY <2>1, StepDrawsNearer
  <2>6. QED
    BY <2>2, <2>3, <2>4, <2>5
<1>2. MainInv => StepsBounded /\ WriteIsPrefix
  BY DEF MainInv, EmuInv, PrefixInv
<1>3. QED
  BY <1>1, <1>2, MainInvHolds, PTL
     DEF MainSpec, GuestStopsAtHalt, HaltsForCause, HaltCause, WriteReturnsCount, Counting,
         CallsDrawToEnd, Nearer

(* A load that succeeds is what the guest will read, whichever peripherals   *)
(* lie over the image, and one that fails leaves everything as it was.       *)
THEOREM LoadsShow == MainSpec => LoadsAreVisible
<1> DEFINE Shows == /\ \A l \in Loads : LoadShows(l.file, l.addr)
                    /\ mctl = "load" => LoadShows(Contents(args.binary[1]), args.load_addr)
<1>1. MainInv /\ [MainNext]_procVars => [Shows]_procVars
  <2> SUFFICES ASSUME MainInv PROVE Shows
    OBVIOUS
  <2>1. TypeOK
    BY DEF MainInv, EmuInv, EmuTypeOK
  <2>2. \A l \in Loads : LoadShows(l.file, l.addr)
    BY <2>1, CallAssumption, LoadIsVisible
  <2>3. ASSUME mctl = "load" PROVE LoadShows(Contents(args.binary[1]), args.load_addr)
    BY <2>1, <2>3, ContentsAreBytes, LoadIsVisible DEF MainInv, MainTypeOK, Arguments
  <2>4. QED
    BY <2>2, <2>3
<1>2. QED
  BY <1>1, MainInvHolds, PTL DEF MainSpec, LoadsAreVisible

(* A machine that has halted, or a step that is not over, has taken a step;  *)
(* a run returns only on a halted machine.                                   *)
Moved == dev.halted \/ ctl \in {"syscall", "write", "limit"} => cycle_count > 0

Earned == /\ Moved
          /\ mctl \in {"parse", "init", "load", "run"} => cycle_count = 0 /\ rc = 0
          /\ mctl = "wait" => caller = "run" /\ rc = 0 /\ (ctl = "idle" => dev.halted)
          /\ SuccessMeansGuestExit

LEMMA InternalMoves ==
    ASSUME EmuInv, Moved, Internal
    PROVE  /\ UNCHANGED <<caller, rc>> /\ Moved'
           /\ caller = "run" /\ ctl' = "idle" => dev'.halted
<1>0. UNCHANGED <<caller, rc>>
  BY DEF Internal, Step, StepHalted, SysHalt, SysCustom, SysWriteBadFd, SysWriteBegin,
     SysWriteByte, SysWriteEnd, StopAtLimit, GoOn, Return, callVars
<1>1. CASE Step
  <2>1. cycle_count' > 0
    <3>1. 0 \in 0 .. CycleCap - 1 /\ CycleCap \in Nat /\ cycle_count \in 0 .. CycleCap
      BY LimitAssumption, ScenarioAssumption DEF EmuInv, EmuTypeOK
    <3>2. QED
      BY <1>1, <3>1 DEF Step, Counted
  <2>2. ctl' = "idle" => caller # "run"
    BY <1>1 DEF Step, AfterStep
  <2>3. QED
    BY <1>0, <2>1, <2>2 DEF Moved
<1>2. CASE SysEnds \/ SysGoesOn
  <2>1. ctl \in {"syscall", "write"} /\ cycle_count' = cycle_count
    BY <1>2 DEF SysEnds, SysGoesOn, SysHalt, SysCustom, SysWrite, SysWriteBadFd, SysWriteBegin,
       SysWriteByte, SysWriteEnd
  <2>2. ctl' = "idle" => caller # "run"
    BY <1>2 DEF SysEnds, SysGoesOn, SysHalt, SysCustom, SysWriteBadFd, SysWriteBegin,
       SysWriteByte, SysWriteEnd, Handled, Unhandled, AfterStep
  <2>3. QED
    BY <1>0, <2>1, <2>2 DEF Moved
<1>3. CASE StopAtLimit
  BY <1>0, <1>3, LimitDevices DEF StopAtLimit, EmuInv, Moved
<1>4. CASE StepHalted
  BY <1>0, <1>4 DEF StepHalted, EmuInv, BelowLimit, Moved
<1>5. CASE GoOn \/ Return
  BY <1>0, <1>5 DEF GoOn, Return, hartVars, Moved
<1>6. QED
  BY <1>1, <1>2, <1>3, <1>4, <1>5 DEF Internal, SysEnds, SysGoesOn

LEMMA CallsMove ==
    ASSUME EmuInv, Moved, Calls
    PROVE  Moved'
<1>1. ASSUME NEW l \in Loads, CallLoad(l.file, l.addr) PROVE Moved'
  <2>1. SameHalt(dev, dev')
    BY <1>1, LoadDevices, CallAssumption DEF EmuInv, EmuTypeOK, TypeOK
  <2>2. QED
    BY <1>1, <2>1 DEF CallLoad, SameHalt, Moved
<1>2. QED
  BY <1>1 DEF Calls, CallInit, CallSetHandler, CallRun, CallStep, CallInterrupt,
     RaiseInterrupt, hartVars, Moved

LEMMA EarnedInit == MainInit => Earned
<1> SUFFICES ASSUME MainInit PROVE Earned
  OBVIOUS
<1>1. mctl \in {"parse", "embed"} /\ cycle_count = 0 /\ rc = 0 /\ ctl = "new"
  BY DEF MainInit, EmuInit
<1>2. Init
  BY DEF MainInit, EmuInit
<1>3. ~dev.halted
  BY <1>2 DEF Init
<1>4. QED
  BY <1>1, <1>3 DEF Earned, Moved, SuccessMeansGuestExit

LEMMA EarnedStep == MainInv /\ Earned /\ [MainNext]_procVars => Earned'
<1> SUFFICES ASSUME MainInv, Earned, [MainNext]_procVars PROVE Earned'
  OBVIOUS
<1>0. EmuInv /\ Moved
  BY DEF MainInv, Earned
<1>1. CASE ParseArgs
  <2>1. mctl = "parse" /\ mctl' \in {"parse", "init", "exited"} /\ UNCHANGED emuVars
    BY <1>1 DEF ParseArgs, ParseFlag, ParseValue, ParseBinary, ParseError, ParseNoBinary,
       ParseDone, Parsing, Reject
  <2>2. mctl' = "exited" => status' = 1
    BY <1>1, <2>1 DEF ParseArgs, ParseFlag, ParseValue, ParseBinary, ParseError, ParseNoBinary,
       ParseDone, Reject, EXIT_FAILURE
  <2>3. QED
    BY <1>0, <2>1, <2>2 DEF Earned, Moved, SuccessMeansGuestExit, emuVars
<1>2. CASE InitEmulator
  BY <1>2 DEF InitEmulator, CallInit, callVars, Earned, Moved, SuccessMeansGuestExit
<1>3. CASE LoadBinary
  <2>1. args.load_addr \in Word /\ Contents(args.binary[1]) \in Seq(ByteVal)
    BY <1>3, ContentsAreBytes DEF LoadBinary, MainInv, MainTypeOK, Arguments
  <2>2. CallLoad(Contents(args.binary[1]), args.load_addr)
    BY <1>3 DEF LoadBinary
  <2>3. SameHalt(dev, dev')
    BY <1>0, <2>1, <2>2, LoadDevices DEF EmuInv, EmuTypeOK, TypeOK
  <2>4. QED
    BY <1>3, <2>2, <2>3
       DEF LoadBinary, CallLoad, SameHalt, EXIT_FAILURE, Earned, Moved, SuccessMeansGuestExit
<1>4. CASE RunEmulator
  BY <1>4 DEF RunEmulator, CallRun, hartVars, Earned, Moved, SuccessMeansGuestExit
<1>5. CASE Exit
  <2>1. dev.halted /\ cycle_count > 0 /\ rc = 0 /\ status' = dev.exit_code % Byte
        /\ mctl' = "exited" /\ UNCHANGED emuVars
    BY <1>5 DEF Exit, Earned, Moved
  <2>2. QED
    BY <2>1 DEF Earned, Moved, SuccessMeansGuestExit, emuVars
<1>6. CASE Emulate
  <2>1. /\ mctl \in {"wait", "embed"} /\ mctl' = mctl /\ Internal
    BY <1>6 DEF Emulate, mainVars
  <2>2. /\ UNCHANGED <<caller, rc>> /\ Moved'
        /\ caller = "run" /\ ctl' = "idle" => dev'.halted
    BY <1>0, <2>1, InternalMoves
  <2>3. QED
    BY <2>1, <2>2 DEF Earned, SuccessMeansGuestExit
<1>7. CASE Embed
  BY <1>0, <1>7, CallsMove DEF Embed, mainVars, Earned, SuccessMeansGuestExit
<1>8. CASE UNCHANGED procVars
  BY <1>8 DEF procVars, emuVars, mainVars, Earned, Moved, SuccessMeansGuestExit
<1>9. QED
  BY <1>1, <1>2, <1>3, <1>4, <1>5, <1>6, <1>7, <1>8 DEF MainNext, Rve

(* rve reports success only for a program that was loaded, ran and halted by *)
(* itself with an exit code whose low byte is 0.                             *)
THEOREM SuccessIsEarned == MainSpec => []SuccessMeansGuestExit
<1>1. Earned => SuccessMeansGuestExit
  BY DEF Earned
<1>2. QED
  BY <1>1, MainInvHolds, EarnedInit, EarnedStep, PTL DEF MainSpec

----------------------------------------------------------------------------
(* The command line: what the loop of parse_args has stored when it is at     *)
(* token k is what the tokens before k mean.                                  *)

(* Which tokens are values is decided from the left, one token after another. *)
LEMMA ValuesExist ==
    ASSUME NEW line
    PROVE  \A n \in Nat : \E V \in SUBSET (1 .. n) :
              \A p \in 1 .. n : p \in V <=> p > 1 /\ p - 1 \notin V /\ line[p - 1] \in ValueOpt
<1> DEFINE Values(V, n) ==
              /\ V \subseteq 1 .. n
              /\ \A p \in 1 .. n :
                    p \in V <=> p > 1 /\ p - 1 \notin V /\ line[p - 1] \in ValueOpt
           S == {n \in Nat : \E V : Values(V, n)}
<1> HIDE DEF Values
<1>1. 0 \in S
  <2>1. Values({}, 0)
    BY DEF Values
  <2>2. QED
    BY <2>1
<1>2. ASSUME NEW n \in Nat, n \in S PROVE n + 1 \in S
  <2>1. PICK V : Values(V, n)
    BY <1>2
  <2> DEFINE next == n + 1 > 1 /\ n \notin V /\ line[n] \in ValueOpt
             W == IF next THEN V \cup {n + 1} ELSE V
  <2>2. \A p \in 1 .. n : p \in W <=> p \in V
    OBVIOUS
  <2>3. n + 1 \notin V
    BY <2>1 DEF Values
  <2>4. n + 1 \in W <=> next
    BY <2>3
  <2>5. W \subseteq 1 .. n + 1
    BY <2>1 DEF Values
  <2>6. n \in W <=> n \in V
    OBVIOUS
  <2> HIDE DEF W
  <2>7. ASSUME NEW p \in 1 .. n + 1
        PROVE  p \in W <=> p > 1 /\ p - 1 \notin W /\ line[p - 1] \in ValueOpt
    <3>1. CASE p = n + 1
      <4>1. p - 1 = n
        BY <3>1
      <4>2. QED
        BY <2>4, <2>6, <3>1, <4>1
    <3>2. CASE p # n + 1
      <4>1. p \in 1 .. n
        BY <3>2
      <4>2. p \in V <=> p > 1 /\ p - 1 \notin V /\ line[p - 1] \in ValueOpt
        BY <2>1, <4>1 DEF Values
      <4>3. p > 1 => (p - 1 \in W <=> p - 1 \in V)
        <5>1. p > 1 => p - 1 \in 1 .. n
          BY <4>1
        <5>2. QED
          BY <2>2, <5>1
      <4>4. QED
        BY <2>2, <4>1, <4>2, <4>3
    <3>3. QED
      BY <3>1, <3>2
  <2>8. Values(W, n + 1)
    BY <2>5, <2>7 DEF Values
  <2>9. QED
    BY <2>8
<1> HIDE DEF S
<1>3. Nat \subseteq S
  BY <1>1, <1>2, SetInduction
<1>4. QED
  BY <1>3 DEF S, Values

(* ValueAt is such a set for the whole line.                                  *)
LEMMA ValueFacts ==
    ASSUME argv \in Seq(STRING)
    PROVE  /\ ValueAt \subseteq 1 .. Len(argv)
           /\ \A p \in 1 .. Len(argv) :
                 p \in ValueAt <=> p > 1 /\ p - 1 \notin ValueAt /\ argv[p - 1] \in ValueOpt
<1>1. Len(argv) \in Nat
  OBVIOUS
<1>2. \E V \in SUBSET (1 .. Len(argv)) :
         \A p \in 1 .. Len(argv) : p \in V <=> p > 1 /\ p - 1 \notin V /\ argv[p - 1] \in ValueOpt
  BY <1>1, ValuesExist
<1>3. QED
  BY <1>2, Zenon DEF ValueAt

(* Nothing of this changes with the state, as long as the line does not.      *)
LEMMA SameLine == ASSUME argv' = argv PROVE ValueAt' = ValueAt /\ Items' = Items
<1>1. ValueAt' = ValueAt
  BY DEF ValueAt
<1>2. QED
  BY <1>1 DEF Items

(* The items before token k, and the last value they give an option.          *)
ItemsTo(k)      == {p \in Items : p < k}
GivenTo(opt, k) == {p \in ItemsTo(k) : argv[p] = opt}
LastTo(opt, values, k) ==
    IF GivenTo(opt, k) = {} THEN 0 ELSE values[argv[Max(GivenTo(opt, k)) + 1]]

(* The binary before token k, no error among the items, and their values.     *)
PathsTo(k)     == {p \in ItemsTo(k) : IsPath(argv[p])}
BinaryTo(k, a) == \/ a.binary = NoPath /\ PathsTo(k) = {}
                  \/ \E q \in PathsTo(k) : a.binary = <<argv[q]>> /\ PathsTo(k) = {q}
FaultlessTo(k) == \A p \in ItemsTo(k) : /\ argv[p] \notin {"--help"} \cup Unknown
                                        /\ argv[p] \in ValueOpt => p < Len(argv)
ValuesTo(k, a) == /\ a.flags = {argv[p] : p \in ItemsTo(k)} \cap FlagOpt
                  /\ a.reset_pc = LastTo("--pc", HexValue, k)
                  /\ a.load_addr = LastTo("--load", HexValue, k)
                  /\ a.max_steps = LastTo("--max", DecValue, k)

(* "a" is what the items before token k mean, and token k is an item.         *)
ReadTo(k, a) == k \notin ValueAt /\ BinaryTo(k, a) /\ FaultlessTo(k) /\ ValuesTo(k, a)

(* ParsedAsWritten, with what has been read so far.                           *)
ParseInv == ParsedAsWritten /\ (mctl = "parse" => ReadTo(i, args))

(* The last of the positions before k, and k.                                 *)
LEMMA MaxOfNext ==
    ASSUME NEW k \in Nat, NEW S, S \subseteq Nat, \A p \in S : p < k
    PROVE  Max(S \cup {k}) = k
<1> DEFINE T == S \cup {k}
<1>1. k \in T /\ \A y \in T : k >= y
  OBVIOUS
<1>2. \A x \in T : x >= k => x = k
  OBVIOUS
<1> HIDE DEF T
<1>3. Max(T) \in T /\ \A y \in T : Max(T) >= y
  BY <1>1, Zenon DEF Max
<1>4. Max(T) = k
  BY <1>1, <1>2, <1>3
<1>5. QED
  BY <1>4 DEF T

(* The tokens parse_args looks at next. *)
LEMMA NextItem ==
    ASSUME argv \in Seq(STRING), i \in 1 .. Len(argv), i \notin ValueAt
    PROVE  /\ i \in ItemsTo(i + 1) /\ ItemsTo(i + 1) = ItemsTo(i) \cup {i}
           /\ argv[i] \notin ValueOpt => i + 1 \notin ValueAt
           /\ argv[i] \in ValueOpt /\ i < Len(argv) =>
                 i + 2 \notin ValueAt /\ ItemsTo(i + 2) = ItemsTo(i) \cup {i}
           /\ \A p \in ItemsTo(i) : p < i /\ p \in Nat
<1>0. Len(argv) \in Nat
  OBVIOUS
<1>1. i \in Items
  BY DEF Items
<1>2. ItemsTo(i + 1) = ItemsTo(i) \cup {i}
  <2>1. \A p \in Items : p < i + 1 <=> p < i \/ p = i
    BY <1>0 DEF Items
  <2>2. QED
    BY <1>1, <2>1 DEF ItemsTo
<1>3. argv[i] \notin ValueOpt => i + 1 \notin ValueAt
  <2>1. i + 1 \in 1 .. Len(argv) => (i + 1) - 1 = i
    BY <1>0
  <2>2. QED
    BY <2>1, ValueFacts
<1>4. ASSUME argv[i] \in ValueOpt, i < Len(argv)
      PROVE  i + 2 \notin ValueAt /\ ItemsTo(i + 2) = ItemsTo(i) \cup {i}
  <2>1. i + 1 \in 1 .. Len(argv) /\ i + 1 > 1 /\ (i + 1) - 1 = i
    BY <1>0, <1>4
  <2>2. i + 1 \in ValueAt
    <3>1. i + 1 \in ValueAt <=>
             i + 1 > 1 /\ (i + 1) - 1 \notin ValueAt /\ argv[(i + 1) - 1] \in ValueOpt
      BY <2>1, ValueFacts
    <3>2. QED
      BY <1>4, <2>1, <3>1
  <2>3. i + 2 \notin ValueAt
    <3>1. i + 2 \in 1 .. Len(argv) => (i + 2) - 1 = i + 1
      BY <1>0
    <3>2. QED
      BY <2>2, <3>1, ValueFacts
  <2>4. \A p \in Items : p < i + 2 <=> p < i \/ p = i
    BY <1>0, <2>2 DEF Items
  <2>5. QED
    BY <1>1, <2>3, <2>4 DEF ItemsTo
<1>5. \A p \in ItemsTo(i) : p < i /\ p \in Nat
  BY DEF ItemsTo, Items
<1>6. QED
  BY <1>1, <1>2, <1>3, <1>4, <1>5

(* One more item: what the options given so far say. *)
LEMMA LastOfNext ==
    ASSUME NEW k, NEW opt, NEW values,
           i \in Nat, ItemsTo(k) = ItemsTo(i) \cup {i}, \A p \in ItemsTo(i) : p < i /\ p \in Nat
    PROVE  LastTo(opt, values, k) = IF argv[i] = opt THEN values[argv[i + 1]]
                                                     ELSE LastTo(opt, values, i)
<1>1. CASE argv[i] = opt
  <2>1. GivenTo(opt, k) = GivenTo(opt, i) \cup {i}
    BY <1>1 DEF GivenTo
  <2>2. GivenTo(opt, i) \subseteq Nat /\ \A p \in GivenTo(opt, i) : p < i
    BY DEF GivenTo
  <2>3. Max(GivenTo(opt, k)) = i
    BY <2>1, <2>2, MaxOfNext
  <2>4. QED
    BY <1>1, <2>1, <2>3 DEF LastTo
<1>2. CASE argv[i] # opt
  <2>1. GivenTo(opt, k) = GivenTo(opt, i)
    BY <1>2 DEF GivenTo
  <2>2. QED
    BY <1>2, <2>1 DEF LastTo
<1>3. QED
  BY <1>1, <1>2


(* What was read to the next token, in the state that is there.               *)
LEMMA SameReading ==
    ASSUME argv' = argv, ReadTo(i', args')
    PROVE  ReadTo(i, args)'
  BY SameLine, Zenon DEF ReadTo, BinaryTo, FaultlessTo, ValuesTo, LastTo, GivenTo, ItemsTo, PathsTo

(* Each turn of the loop reads one more item: a flag, an option with its      *)
(* value, the binary.                                                         *)
LEMMA ReadFlag ==
    ASSUME MainTypeOK, Reading, ReadTo(i, args), ParseFlag
    PROVE  ReadTo(i, args)'
<1>1. /\ argv \in Seq(STRING) /\ Len(argv) \in Nat /\ i \in 1 .. Len(argv) /\ i \notin ValueAt
      /\ argv' = argv /\ i' = i + 1 /\ args' = [args EXCEPT !.flags = @ \cup {argv[i]}]
      /\ argv[i] \in FlagOpt /\ args \in Arguments
  BY DEF ParseFlag, Parsing, Token, MainTypeOK, Reading, ReadTo
<1>2. /\ argv[i] \notin ValueOpt /\ ~IsPath(argv[i]) /\ argv[i] \notin {"--help"} \cup Unknown
      /\ \A opt \in ValueOpt : argv[i] # opt
  BY <1>1, OptionAssumption DEF IsPath, Option, FlagOpt, ValueOpt
<1>3. /\ ItemsTo(i + 1) = ItemsTo(i) \cup {i} /\ i + 1 \notin ValueAt
      /\ \A p \in ItemsTo(i) : p < i /\ p \in Nat
  BY <1>1, <1>2, NextItem
<1>4. PathsTo(i + 1) = PathsTo(i)
  BY <1>2, <1>3 DEF PathsTo
<1>5. BinaryTo(i + 1, args')
  BY <1>1, <1>4 DEF ReadTo, BinaryTo, Arguments
<1>6. FaultlessTo(i + 1)
  BY <1>2, <1>3 DEF ReadTo, FaultlessTo
<1>7. ValuesTo(i + 1, args')
  <2>1. \A opt \in ValueOpt : \A values : LastTo(opt, values, i + 1) = LastTo(opt, values, i)
    BY <1>1, <1>2, <1>3, LastOfNext
  <2>2. {argv[p] : p \in ItemsTo(i + 1)} \cap FlagOpt = args'.flags
    BY <1>1, <1>3 DEF ReadTo, ValuesTo, Arguments
  <2>3. QED
    BY <1>1, <2>1, <2>2 DEF ReadTo, ValuesTo, ValueOpt, Arguments
<1>8. QED
  BY <1>1, <1>3, <1>5, <1>6, <1>7, SameReading DEF ReadTo

LEMMA ReadValue ==
    ASSUME MainTypeOK, Reading, ReadTo(i, args), ParseValue
    PROVE  ReadTo(i, args)'
<1>1. /\ argv \in Seq(STRING) /\ Len(argv) \in Nat /\ i \in 1 .. Len(argv) /\ i < Len(argv)
      /\ i \notin ValueAt /\ argv' = argv /\ i' = i + 2 /\ argv[i] \in ValueOpt
      /\ args \in Arguments
  BY DEF ParseValue, Parsing, Token, MainTypeOK, Reading, ReadTo
<1>2. argv[i] \notin FlagOpt /\ ~IsPath(argv[i]) /\ argv[i] \notin {"--help"} \cup Unknown
  BY <1>1, OptionAssumption DEF IsPath, Option, FlagOpt, ValueOpt
<1>3. /\ ItemsTo(i + 2) = ItemsTo(i) \cup {i} /\ i + 2 \notin ValueAt
      /\ \A p \in ItemsTo(i) : p < i /\ p \in Nat
  BY <1>1, NextItem
<1>4. \A opt, values : LastTo(opt, values, i + 2) = IF argv[i] = opt THEN values[argv[i + 1]]
                                                    ELSE LastTo(opt, values, i)
  BY <1>1, <1>3, LastOfNext
<1>5. /\ args'.binary = args.binary /\ args'.flags = args.flags
      /\ args'.reset_pc = LastTo("--pc", HexValue, i + 2)
      /\ args'.load_addr = LastTo("--load", HexValue, i + 2)
      /\ args'.max_steps = LastTo("--max", DecValue, i + 2)
  <2>1. CASE argv[i] = "--pc"
    <3>1. args' = [args EXCEPT !.reset_pc = HexValue[argv[i + 1]]]
      BY <2>1, Zenon DEF ParseValue, Token
    <3>2. QED
      BY <1>1, <1>4, <2>1, <3>1 DEF ReadTo, ValuesTo, Arguments
  <2>2. CASE argv[i] = "--load"
    <3>1. args' = [args EXCEPT !.load_addr = HexValue[argv[i + 1]]]
      BY <2>2, Zenon DEF ParseValue, Token
    <3>2. QED
      BY <1>1, <1>4, <2>2, <3>1 DEF ReadTo, ValuesTo, Arguments
  <2>3. CASE argv[i] = "--max"
    <3>1. args' = [args EXCEPT !.max_steps = DecValue[argv[i + 1]]]
      BY <2>3, Zenon DEF ParseValue, Token
    <3>2. QED
      BY <1>1, <1>4, <2>3, <3>1 DEF ReadTo, ValuesTo, Arguments
  <2>4. QED
    BY <1>1, <2>1, <2>2, <2>3 DEF ValueOpt
<1>6. PathsTo(i + 2) = PathsTo(i)
  BY <1>2, <1>3 DEF PathsTo
<1>7. BinaryTo(i + 2, args')
  BY <1>5, <1>6 DEF ReadTo, BinaryTo
<1>8. FaultlessTo(i + 2)
  BY <1>1, <1>2, <1>3 DEF ReadTo, FaultlessTo
<1>9. {argv[p] : p \in ItemsTo(i + 2)} \cap FlagOpt = args'.flags
  BY <1>2, <1>3, <1>5 DEF ReadTo, ValuesTo
<1>10. QED
  BY <1>1, <1>3, <1>5, <1>7, <1>8, <1>9, SameReading DEF ReadTo, ValuesTo

LEMMA ReadBinary ==
    ASSUME MainTypeOK, Reading, ReadTo(i, args), ParseBinary
    PROVE  ReadTo(i, args)'
<1>1. /\ argv \in Seq(STRING) /\ Len(argv) \in Nat /\ i \in 1 .. Len(argv) /\ i \notin ValueAt
      /\ argv' = argv /\ i' = i + 1 /\ args' = [args EXCEPT !.binary = <<argv[i]>>]
      /\ IsPath(argv[i]) /\ args \in Arguments /\ args.binary = NoPath
  BY DEF ParseBinary, Parsing, Token, MainTypeOK, Reading, ReadTo
<1>2. /\ argv[i] \notin ValueOpt /\ argv[i] \notin FlagOpt /\ argv[i] \notin {"--help"} \cup Unknown
      /\ \A opt \in ValueOpt : argv[i] # opt
  BY <1>1 DEF IsPath, Option
<1>3. /\ ItemsTo(i + 1) = ItemsTo(i) \cup {i} /\ i + 1 \notin ValueAt
      /\ \A p \in ItemsTo(i) : p < i /\ p \in Nat
  BY <1>1, <1>2, NextItem
<1>4. PathsTo(i) = {}
  BY <1>1 DEF ReadTo, BinaryTo, NoPath
<1>5. PathsTo(i + 1) = {i}
  BY <1>1, <1>3, <1>4 DEF PathsTo
<1>6. BinaryTo(i + 1, args')
  BY <1>1, <1>5 DEF BinaryTo, Arguments
<1>7. FaultlessTo(i + 1)
  BY <1>2, <1>3 DEF ReadTo, FaultlessTo
<1>8. ValuesTo(i + 1, args')
  <2>1. \A opt \in ValueOpt : \A values : LastTo(opt, values, i + 1) = LastTo(opt, values, i)
    BY <1>1, <1>2, <1>3, LastOfNext
  <2>2. {argv[p] : p \in ItemsTo(i + 1)} \cap FlagOpt = args'.flags
    BY <1>1, <1>2, <1>3 DEF ReadTo, ValuesTo, Arguments
  <2>3. QED
    BY <1>1, <2>1, <2>2 DEF ReadTo, ValuesTo, ValueOpt, Arguments
<1>9. QED
  BY <1>1, <1>3, <1>6, <1>7, <1>8, SameReading DEF ReadTo

(* A line that names one binary names it once. *)
LEMMA OnePath == ASSUME argv \in Seq(STRING) PROVE WellFormed => \E q : Paths = {q}
<1>1. IsFiniteSet(1 .. Len(argv)) /\ Paths \in SUBSET (1 .. Len(argv))
  BY FS_Interval DEF Paths, Items
<1>2. IsFiniteSet(Paths)
  BY <1>1, FS_Subset
<1>3. QED
  BY <1>2, FS_Singleton DEF WellFormed

(* parse_args gives up only on a line that is in error.                       *)
LEMMA ErrorIsReal ==
    ASSUME MainTypeOK, Reading, mctl = "parse" => ReadTo(i, args), ParseError \/ ParseNoBinary
    PROVE  ~WellFormed
<1>1. argv \in Seq(STRING) /\ Len(argv) \in Nat /\ ReadTo(i, args) /\ i \in 1 .. Len(argv) + 1
  BY DEF ParseError, ParseNoBinary, Parsing, MainTypeOK, Reading
<1>2. CASE ParseError
  <2>1. i \in Items
    BY <1>1, <1>2 DEF ParseError, Parsing, ReadTo, Items
  <2>2. CASE argv[i] = "--help" \/ argv[i] \in Unknown
    BY <2>1, <2>2 DEF WellFormed
  <2>3. CASE argv[i] \in ValueOpt /\ i = Len(argv)
    BY <2>1, <2>3 DEF WellFormed, Given
  <2>4. CASE IsPath(argv[i]) /\ args.binary # NoPath
    <3>1. PICK q \in PathsTo(i) : TRUE
      BY <1>1, <2>4 DEF ReadTo, BinaryTo
    <3>2. q \in Paths /\ i \in Paths /\ q # i
      BY <2>1, <2>4, <3>1 DEF PathsTo, ItemsTo, Paths, Items
    <3>3. QED
      BY <1>1, <3>2, OnePath
  <2>5. QED
    BY <1>2, <2>2, <2>3, <2>4 DEF ParseError, Token
<1>3. CASE ParseNoBinary
  <2>1. i = Len(argv) + 1 /\ args.binary = NoPath
    BY <1>1, <1>3 DEF ParseNoBinary
  <2>2. PathsTo(i) = {}
    BY <1>1, <2>1 DEF ReadTo, BinaryTo, NoPath
  <2>3. Paths = {}
    BY <1>1, <2>1, <2>2 DEF PathsTo, ItemsTo, Paths, Items
  <2>4. QED
    BY <1>1, <2>3, OnePath
<1>4. QED
  BY <1>2, <1>3

(* A line that was read to its end means what was read. *)
Read == /\ WellFormed
        /\ \E p \in Paths : args.binary = <<argv[p]>>
        /\ args.flags = {argv[p] : p \in Items} \cap FlagOpt
        /\ args.reset_pc = Last("--pc", HexValue)
        /\ args.load_addr = Last("--load", HexValue)
        /\ args.max_steps = Last("--max", DecValue)

(* At the end of the line every item has been read.                           *)
LEMMA EndIsReached ==
    ASSUME MainTypeOK, Reading, ReadTo(i, args), ParseDone
    PROVE  Read
<1>1. /\ argv \in Seq(STRING) /\ Len(argv) \in Nat /\ i = Len(argv) + 1 /\ args.binary # NoPath
  BY DEF ParseDone, MainTypeOK, Reading
<1>2. ItemsTo(i) = Items
  BY <1>1 DEF ItemsTo, Items
<1>3. PathsTo(i) = Paths /\ \A opt : GivenTo(opt, i) = Given(opt)
  BY <1>2 DEF PathsTo, Paths, GivenTo, Given
<1>4. \A opt, values : LastTo(opt, values, i) = Last(opt, values)
  BY <1>3 DEF LastTo, Last
<1>5. PICK q \in Paths : args.binary = <<argv[q]>> /\ Paths = {q}
  BY <1>1, <1>3 DEF ReadTo, BinaryTo
<1>6. WellFormed
  <2>1. Cardinality(Paths) = 1
    BY <1>5, FS_Singleton
  <2>2. Len(argv) < Len(argv) => FALSE
    BY <1>1
  <2>3. QED
    BY <1>2, <2>1, <2>2 DEF ReadTo, FaultlessTo, WellFormed, Given
<1>7. QED
  BY <1>2, <1>4, <1>5, <1>6 DEF ReadTo, ValuesTo, Read

LEMMA ParseInit == MainInit => ParseInv
<1> SUFFICES ASSUME MainInit PROVE ParseInv
  OBVIOUS
<1>1. Reading /\ argv \in Seq(STRING)
  BY MainInitHolds DEF MainInv, Reading
<1>2. i = 1 /\ mctl \in {"parse", "embed"}
  BY DEF MainInit
<1>3. ItemsTo(1) = {} /\ 1 \notin ValueAt
  BY <1>1, ValueFacts DEF ItemsTo, Items
<1>4. PathsTo(1) = {} /\ \A opt : GivenTo(opt, 1) = {}
  BY <1>3 DEF PathsTo, GivenTo
<1>5. ReadTo(1, args)
  BY <1>3, <1>4 DEF MainInit, ReadTo, BinaryTo, FaultlessTo, ValuesTo, LastTo
<1>6. QED
  BY <1>2, <1>5 DEF ParseInv, ParsedAsWritten

LEMMA ParseStep == MainInv /\ ParseInv /\ [MainNext]_procVars => ParseInv'
<1> SUFFICES ASSUME MainInv, ParseInv, [MainNext]_procVars PROVE ParseInv'
  OBVIOUS
<1>1. MainTypeOK /\ Reading
  BY DEF MainInv
<1>2. /\ mctl = "parse" => ReadTo(i, args)
      /\ mctl \in {"init", "load", "run", "wait"} => Read
      /\ mctl = "exited" /\ ctl = "new" => ~WellFormed
  BY DEF ParseInv, ParsedAsWritten, Read
<1>3. ASSUME argv' = argv PROVE WellFormed' <=> WellFormed
  BY <1>3, SameLine, Zenon DEF WellFormed, Paths, Given
<1>4. ASSUME argv' = argv, args' = args PROVE Read' <=> Read
  BY <1>3, <1>4, SameLine, Zenon DEF Read, Paths, Given, Last
<1>5. SUFFICES /\ mctl' = "parse" => ReadTo(i, args)'
               /\ mctl' \in {"init", "load", "run", "wait"} => Read'
               /\ mctl' = "exited" /\ ctl' = "new" => ~WellFormed'
  BY DEF ParseInv, ParsedAsWritten, Read
<1>6. CASE ParseFlag \/ ParseValue \/ ParseBinary
  <2>1. mctl = "parse" /\ mctl' = "parse"
    BY <1>6 DEF ParseFlag, ParseValue, ParseBinary, Parsing
  <2>2. ReadTo(i, args)'
    BY <1>1, <1>2, <1>6, <2>1, ReadFlag, ReadValue, ReadBinary
  <2>3. QED
    BY <2>1, <2>2
<1>7. CASE ParseError \/ ParseNoBinary
  <2>1. ~WellFormed
    BY <1>1, <1>2, <1>7, ErrorIsReal
  <2>2. mctl' = "exited" /\ argv' = argv
    BY <1>7 DEF ParseError, ParseNoBinary, Reject
  <2>3. QED
    BY <1>3, <2>1, <2>2
<1>8. CASE ParseDone
  <2>1. mctl = "parse" /\ mctl' = "init" /\ argv' = argv /\ args' = args
    BY <1>8 DEF ParseDone
  <2>2. Read
    BY <1>1, <1>2, <1>8, <2>1, EndIsReached
  <2>3. QED
    BY <1>4, <2>1, <2>2
<1>9. CASE InitEmulator \/ LoadBinary \/ RunEmulator
  <2>1. /\ mctl \in {"init", "load", "run"} /\ mctl' \in {"load", "run", "wait", "exited"}
        /\ argv' = argv /\ args' = args /\ (mctl' = "exited" => ctl' # "new")
    BY <1>9 DEF InitEmulator, LoadBinary, RunEmulator, CallLoad
  <2>2. QED
    BY <1>2, <1>4, <2>1
<1>10. CASE Exit
  <2>1. mctl' = "exited" /\ ctl' # "new"
    BY <1>10 DEF Exit, emuVars
  <2>2. QED
    BY <2>1
<1>11. CASE Emulate \/ Embed
  <2>1. mctl \in {"wait", "embed"} /\ mctl' = mctl /\ argv' = argv /\ args' = args
    BY <1>11 DEF Emulate, Embed, mainVars
  <2>2. QED
    BY <1>2, <1>4, <2>1
<1>12. CASE UNCHANGED procVars
  <2>1. mctl' = mctl /\ argv' = argv /\ args' = args /\ i' = i /\ ctl' = ctl
    BY <1>12 DEF procVars, mainVars, emuVars
  <2>2. mctl = "parse" => ReadTo(i, args)'
    BY <1>2, <2>1, SameReading
  <2>3. QED
    BY <1>2, <1>3, <1>4, <2>1, <2>2
<1>13. QED
  BY <1>6, <1>7, <1>8, <1>9, <1>10, <1>11, <1>12 DEF MainNext, Rve, ParseArgs

(* rve does what its command line says, for every line: the binary it names,  *)
(* its flags and the last value of each option, whatever the order and        *)
(* whatever the values look like; and it refuses only lines in error.         *)
THEOREM LineIsObeyed == MainSpec => []ParsedAsWritten
<1>1. ParseInv => ParsedAsWritten
  BY DEF ParseInv
<1>2. QED
  BY <1>1, MainInvHolds, ParseInit, ParseStep, PTL DEF MainSpec
=============================================================================
