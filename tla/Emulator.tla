------------------------------ MODULE Emulator ------------------------------
(***************************************************************************)
(* The harness around the SoC (src/emulator.c) as a library: the calls a   *)
(* program may make on an emulator, one after the other, and what happens  *)
(* inside them.                                                            *)
(*                                                                         *)
(* Everything runs on one thread.  "ctl" is where that thread is:          *)
(*   new      before emulator_init                                         *)
(*   idle     in the caller, between two calls                             *)
(*   run      at the head of emulator_run's loop                           *)
(*   step     at the head of an emulator_step the caller made itself       *)
(*   syscall  in emulator_step, after hart_step returned an ECALL          *)
(*   write    in the byte loop of the built-in handler's write call        *)
(*   limit    in emulator_run after emulator_step, at the max_steps test   *)
(* The calls are actions enabled when idle; the library's own steps are    *)
(* Internal.  A trace callback only reads the record it is handed.         *)
(***************************************************************************)
EXTENDS Hart

CONSTANTS
    A0, A1, A2, A7,    \* the argument registers: 10, 11, 12 and 17
    Limits,            \* the values of max_steps callers pass, 0 for unlimited
    ResetPcs,          \* the reset pcs callers pass
    Loads,             \* the loads callers ask for: a file's bytes, an address
    Verdicts,          \* what a caller's own system call handler leaves in a0
    CycleCap           \* bound on cycle_count, which is compared with nothing
                       \* above Limits

ASSUME AbiAssumption   == {A0, A1, A2, A7} \subseteq Reg \ {0}
ASSUME LimitAssumption == CycleCap \in Nat /\ Limits \subseteq 0 .. CycleCap - 1
ASSUME CallAssumption  == /\ ResetPcs \subseteq Word /\ Verdicts \subseteq Word
                          /\ Loads \subseteq [file : Seq(ByteVal), addr : Word]

VARIABLES
    handler,           \* e->syscall_handler: the built-in one, another or NULL
    cycle_count,       \* e->cycle_count
    caller,            \* the current or last call: "run", "step" or "none"
    max_steps,         \* the argument of the last emulator_run
    taken,             \* the steps the current or last call has taken
    rc,                \* what the last emulator_load_binary returned
    ctl,               \* where the thread is
    written,           \* the write call's byte counter
    stderr             \* bytes written to file descriptor 2

emuVars == <<gpr, csr, pc, dev, retire, handler, cycle_count, caller, max_steps, taken,
             rc, ctl, written, stderr>>
hartVars == <<gpr, csr, pc, dev, retire>>
callVars == <<handler, caller, max_steps, rc>>

SYS_WRITE == 64

Control == {"new", "idle", "run", "step", "syscall", "write", "limit"}

EmuTypeOK == /\ TypeOK
             /\ handler \in {"default", "custom", "none"}
             /\ cycle_count \in 0 .. CycleCap
             /\ caller \in {"none", "run", "step"}
             /\ max_steps \in Limits \cup {0}
             /\ taken \in 0 .. CycleCap
             /\ rc \in {0, -1}
             /\ ctl \in Control
             /\ written \in Word
             /\ stderr \in Seq(ByteVal)

(* The emulator that emulator_init will leave, but for its reset pc. *)
EmuInit == /\ Init
           /\ handler = "default"
           /\ cycle_count = 0
           /\ caller = "none" /\ max_steps = 0 /\ taken = 0
           /\ rc = 0
           /\ ctl = "new"
           /\ written = 0
           /\ stderr = <<>>

----------------------------------------------------------------------------
(* The calls. *)
CallInit(p) ==
    /\ ctl = "new"
    /\ pc' = p
    /\ retire' = [retire EXCEPT !.pc = p, !.next_pc = p]
    /\ ctl' = "idle"
    /\ UNCHANGED <<gpr, csr, dev, callVars, cycle_count, taken, written, stderr>>

CallSetHandler(h) ==
    /\ ctl = "idle"
    /\ handler' = h
    /\ UNCHANGED <<hartVars, cycle_count, caller, max_steps, taken, rc, ctl, written, stderr>>

CallInterrupt ==
    /\ ctl = "idle"
    /\ RaiseInterrupt
    /\ UNCHANGED <<callVars, cycle_count, taken, ctl, written, stderr>>

(* memory_load_file: the image must lie inside the RAM as a whole. *)
Holds(file, addr) ==
    LET s == Owner(Map, addr)
    IN  s # NoSlot /\ Map[s].kind = "ram" /\ RamHolds(s, addr, Len(file))

(* Mutant of Copied: the image starts at the RAM's base. *)
CopiedToBase(ram, file, addr) ==
    LET s == Owner(Map, addr) IN
    [c \in RamCell |-> IF c[1] = s /\ c[2] \in 0 .. Len(file) - 1
                       THEN file[c[2] + 1] ELSE ram[c]]

Copied(ram, file, addr) ==
    LET s == Owner(Map, addr)
        At(c) == c[2] - (addr - Map[s].start)
    IN  [c \in RamCell |-> IF c[1] = s /\ At(c) \in 0 .. Len(file) - 1
                           THEN file[At(c) + 1] ELSE ram[c]]

(* emulator_load_binary and soc_load_binary.  A file that is missing, empty  *)
(* or unreadable has no bytes.  The context of the load address's owner is   *)
(* taken for a memory_t: the UART's reads as one of size 0, its receive file *)
(* being NULL, and TOHOST is excluded by the precondition of soc.h 81, "The  *)
(* target range must have a memory peripheral already registered".           *)
ToTohost(addr) == Owner(Map, addr) # NoSlot /\ Map[Owner(Map, addr)].kind = "tohost"

CallLoad(file, addr) ==
    /\ ctl = "idle" /\ ~ToTohost(addr)
    /\ UNCHANGED <<gpr, csr, pc, retire, handler, cycle_count, caller, max_steps, taken,
                   ctl, written, stderr>>
    /\ \/ /\ file # <<>> /\ Holds(file, addr)
          /\ dev' = [dev EXCEPT !.ram = Copied(dev.ram, file, addr)]
          /\ rc' = 0
       \/ /\ ~(file # <<>> /\ Holds(file, addr))
          /\ dev' = dev
          /\ rc' = -1

(* emulator_run and emulator_step, entered.  Runs of the model end at        *)
(* CycleCap.                                                                 *)
CallRun(m) ==
    /\ ctl = "idle" /\ cycle_count < CycleCap
    /\ ctl' = "run" /\ caller' = "run"
    /\ max_steps' = m
    /\ taken' = 0
    /\ UNCHANGED <<hartVars, handler, cycle_count, rc, written, stderr>>

CallStep ==
    /\ ctl = "idle" /\ cycle_count < CycleCap
    /\ ctl' = "step" /\ caller' = "step"
    /\ taken' = 0
    /\ UNCHANGED <<hartVars, handler, cycle_count, max_steps, rc, written, stderr>>

Calls == \/ \E p \in ResetPcs : CallInit(p)
         \/ \E h \in {"default", "custom", "none"} : CallSetHandler(h)
         \/ \E l \in Loads : CallLoad(l.file, l.addr)
         \/ \E m \in Limits : CallRun(m)
         \/ CallStep
         \/ CallInterrupt

----------------------------------------------------------------------------
(* Where emulator_step returns to. *)
AfterStep == IF caller = "run" THEN "limit" ELSE "idle"

Counted(n) == IF n < CycleCap THEN n + 1 ELSE CycleCap

(* Mutants of Step: the halted flag is not tested; steps that trap are not   *)
(* counted.                                                                  *)
StepWhenHalted ==
    /\ ctl \in {"run", "step"}
    /\ HartStep
    /\ cycle_count' = Counted(cycle_count) /\ taken' = Counted(taken)
    /\ ctl' = IF retire'.trap = TRAP_ECALL_M THEN "syscall" ELSE AfterStep
    /\ UNCHANGED <<callVars, written, stderr>>
StepCountsClean ==
    /\ ctl \in {"run", "step"} /\ ~dev.halted
    /\ HartStep
    /\ cycle_count' = IF retire'.trap = TRAP_NONE THEN Counted(cycle_count) ELSE cycle_count
    /\ taken' = Counted(taken)
    /\ ctl' = IF retire'.trap = TRAP_ECALL_M THEN "syscall" ELSE AfterStep
    /\ UNCHANGED <<callVars, written, stderr>>

(* emulator_step as far as hart_step and the count of steps.  TOHOST may set *)
(* the halted flag in here; a trap never does.                               *)
Step == /\ ctl \in {"run", "step"} /\ ~dev.halted
        /\ HartStep
        /\ cycle_count' = Counted(cycle_count) /\ taken' = Counted(taken)
        /\ ctl' = IF retire'.trap = TRAP_ECALL_M THEN "syscall" ELSE AfterStep
        /\ UNCHANGED <<callVars, written, stderr>>

(* emulator_step on a halted emulator: a dummy record and nothing else. *)
StepHalted ==
    /\ ctl = "step" /\ dev.halted
    /\ retire' = [pc |-> 0, next_pc |-> 0, op |-> "UNKNOWN", rd_written |-> FALSE, rd |-> 0,
                  rd_value |-> 0, mem |-> NoAccess, trap |-> TRAP_ILLEGAL_INSTR]
    /\ ctl' = "idle"
    /\ UNCHANGED <<gpr, csr, pc, dev, callVars, cycle_count, taken, written, stderr>>

----------------------------------------------------------------------------
(* System calls.  A call that was handled leaves no trap in the record. *)
Handled == /\ retire' = [retire EXCEPT !.trap = TRAP_NONE]
           /\ ctl' = AfterStep

(* One that was not halts the emulator with a0 as its exit code. *)
Unhandled == /\ dev' = [dev EXCEPT !.halted = TRUE, !.exit_code = gpr'[A0]]
             /\ ctl' = AfterStep
             /\ UNCHANGED retire

(* Mutant of SysHalt: the exit code is not taken over. *)
SysHaltNoCode == /\ ctl = "syscall"
                 /\ handler = "none" \/ (handler = "default" /\ gpr[A7] # SYS_WRITE)
                 /\ dev' = [dev EXCEPT !.halted = TRUE]
                 /\ ctl' = AfterStep
                 /\ UNCHANGED <<gpr, csr, pc, retire, callVars, cycle_count, taken, written, stderr>>

(* No handler, the exit call, and a call the built-in handler does not know. *)
SysHalt == /\ ctl = "syscall"
           /\ handler = "none" \/ (handler = "default" /\ gpr[A7] # SYS_WRITE)
           /\ gpr' = gpr
           /\ Unhandled
           /\ UNCHANGED <<csr, pc, callVars, cycle_count, taken, written, stderr>>

(* A handler the caller installed: it answers in a0 and says whether it has  *)
(* handled the call.                                                         *)
SysCustom == /\ ctl = "syscall" /\ handler = "custom"
             /\ \E v \in Verdicts : gpr' = [gpr EXCEPT ![A0] = v]
             /\ \/ Handled /\ UNCHANGED dev
                \/ Unhandled
             /\ UNCHANGED <<csr, pc, callVars, cycle_count, taken, written, stderr>>

SysWrite == ctl = "syscall" /\ handler = "default" /\ gpr[A7] = SYS_WRITE

(* Mutant of SysWriteBadFd: -1 is not converted to a word. *)
BadFdSigned == /\ SysWrite /\ gpr[A0] \notin {1, 2}
               /\ gpr' = [gpr EXCEPT ![A0] = -1]
               /\ Handled
               /\ UNCHANGED <<csr, pc, dev, callVars, cycle_count, taken, written, stderr>>

SysWriteBadFd == /\ SysWrite /\ gpr[A0] \notin {1, 2}
                 /\ gpr' = [gpr EXCEPT ![A0] = WordSize - 1]
                 /\ Handled
                 /\ UNCHANGED <<csr, pc, dev, callVars, cycle_count, taken, written, stderr>>

SysWriteBegin == /\ SysWrite /\ gpr[A0] \in {1, 2}
                 /\ written' = 0
                 /\ ctl' = "write"
                 /\ UNCHANGED <<hartVars, callVars, cycle_count, taken, stderr>>

(* Mutant of NextByte: one byte ahead. *)
NextByteAhead == BusRead(dev, Add(gpr[A1], written + 1), 1)

(* One turn of the byte loop, and its end: count bytes are out or the next  *)
(* one cannot be read.                                                      *)
NextByte == BusRead(dev, Add(gpr[A1], written), 1)
MoreBytes == written < gpr[A2] /\ NextByte.ok

SysWriteByte ==
    /\ ctl = "write" /\ MoreBytes
    /\ IF gpr[A0] = 1
       THEN /\ dev' = [dev EXCEPT !.stdout = Append(dev.stdout, NextByte.val % Byte)]
            /\ UNCHANGED stderr
       ELSE /\ stderr' = Append(stderr, NextByte.val % Byte)
            /\ UNCHANGED dev
    /\ written' = written + 1
    /\ UNCHANGED <<gpr, csr, pc, retire, callVars, cycle_count, taken, ctl>>

(* Mutant of SysWriteEnd: one byte too many is reported if the buffer goes on. *)
WriteEndOneMore ==
    /\ ctl = "write" /\ ~MoreBytes
    /\ gpr' = [gpr EXCEPT ![A0] = IF NextByte.ok THEN written + 1 ELSE written]
    /\ Handled
    /\ UNCHANGED <<csr, pc, dev, callVars, cycle_count, taken, written, stderr>>

SysWriteEnd ==
    /\ ctl = "write" /\ ~MoreBytes
    /\ gpr' = [gpr EXCEPT ![A0] = written]
    /\ Handled
    /\ UNCHANGED <<csr, pc, dev, callVars, cycle_count, taken, written, stderr>>

----------------------------------------------------------------------------
(* Mutant of LimitReached: one step too many. *)
LimitExceeded == max_steps # 0 /\ cycle_count > max_steps

(* The max_steps test after each step of a run.  It looks at the steps since *)
(* emulator_init, not at those of this run, and halts the emulator with exit *)
(* code 1 whether or not the step has halted it already.                     *)
LimitReached == max_steps # 0 /\ cycle_count >= max_steps

StopAtLimit == /\ ctl = "limit" /\ LimitReached
               /\ dev' = [dev EXCEPT !.halted = TRUE, !.exit_code = 1]
               /\ ctl' = "idle"
               /\ UNCHANGED <<gpr, csr, pc, retire, callVars, cycle_count, taken, written, stderr>>

GoOn == /\ ctl = "limit" /\ ~LimitReached
        /\ ctl' = "run"
        /\ UNCHANGED <<hartVars, callVars, cycle_count, taken, written, stderr>>

Return == /\ ctl = "run" /\ dev.halted
          /\ ctl' = "idle"
          /\ UNCHANGED <<hartVars, callVars, cycle_count, taken, written, stderr>>

Internal == \/ Step \/ StepHalted \/ SysHalt \/ SysCustom \/ SysWriteBadFd
            \/ SysWriteBegin \/ SysWriteByte \/ SysWriteEnd
            \/ StopAtLimit \/ GoOn \/ Return

EmuNext == Internal \/ Calls

(* The library never blocks inside a call; no caller has to call it again. *)
EmuSpec == EmuInit /\ [][EmuNext]_emuVars /\ WF_emuVars(Internal)

----------------------------------------------------------------------------
(* Once a TOHOST store, a system call or a limit has halted the emulator it   *)
(* stays halted, and the guest runs no further in whatever call: registers,   *)
(* CSRs, RAM, the count and the output stay as they are.  Only the caller can *)
(* still load an image or inject an interrupt.                                *)
GuestStopsAtHalt ==
    [][dev.halted =>
          /\ dev'.halted /\ dev'.stdout = dev.stdout
          /\ UNCHANGED <<gpr, cycle_count, stderr>>
          /\ ctl # "idle" => UNCHANGED <<csr, pc>> /\ dev'.ram = dev.ram]_emuVars

(* A run takes no step beyond max_steps, counted since emulator_init, but for *)
(* the one step every run of an emulator that is not halted takes.            *)
StepsBounded == caller = "run" /\ max_steps # 0 => taken <= 1 \/ cycle_count <= max_steps

(* The halted flag and the exit code change together, and only for a cause:   *)
(* a store the bus routed to TOHOST, an ECALL that nobody handled, or the     *)
(* step limit of a run.  A trap halts nothing, whatever call it happens in.   *)
TohostHalt == /\ retire.mem.dir = "write"
              /\ Owner(Map, retire.mem.addr) # NoSlot
              /\ Map[Owner(Map, retire.mem.addr)].kind = "tohost"
              /\ dev.exit_code = TohostExit(retire.mem.value)
HaltsForCause ==
    [][(dev.halted # dev'.halted \/ dev.exit_code # dev'.exit_code) =>
          /\ dev'.halted
          /\ \/ ctl \in {"run", "step"} /\ TohostHalt' /\ retire'.trap = TRAP_NONE
             \/ ctl = "syscall" /\ dev'.exit_code = gpr'[A0] /\ retire'.trap = TRAP_ECALL_M
             \/ caller = "run" /\ max_steps # 0 /\ cycle_count >= max_steps
                  /\ dev'.exit_code = 1]_emuVars

(* A write call returns the length of the longest prefix of the buffer the   *)
(* bus can read, at most a2 bytes, and has put exactly that many out, one    *)
(* with each count: what it leaves out starts with a byte no peripheral      *)
(* yields, as where the buffer runs into TOHOST or off the end of a RAM.     *)
Readable(n) == BusRead(dev, Add(gpr[A1], n), 1).ok
WriteIsPrefix ==
    ctl = "write" => \A n \in 0 .. written - 1 :
                        /\ n < gpr[A2] /\ Readable(n)
                        /\ LET out == IF gpr[A0] = 1 THEN dev.stdout ELSE stderr
                           IN  out[Len(out) - written + 1 + n] =
                                 BusRead(dev, Add(gpr[A1], n), 1).val % Byte
BytesOut == Len(dev.stdout) + Len(stderr)
WriteReturnsCount ==
    [][/\ ctl # "write" /\ ctl' = "write" => written' = 0 /\ BytesOut' = BytesOut
       /\ ctl = "write" => BytesOut' - BytesOut = written' - written
       /\ ctl = "write" /\ ctl' # "write" =>
             /\ written' = written
             /\ gpr'[A0] = written /\ gpr'[A0] <= gpr[A2]
             /\ \A n \in 0 .. gpr'[A0] - 1 : Readable(n)
             /\ gpr'[A0] < gpr[A2] => ~Readable(gpr'[A0])]_emuVars

(* A call that steps once or has a limit draws to an end with every step the  *)
(* library makes, whatever program, handler or buffer it meets: one step less *)
(* is left to take, or one place less to go through in the step being taken.  *)
(* Neither of the loops (emulator.c 47 and 183) ever turns in vain.           *)
InCall     == ctl \notin {"new", "idle"}
StepsLeft  == IF caller = "run" /\ max_steps > cycle_count THEN max_steps - cycle_count
              ELSE IF ctl \in {"run", "step"} THEN 1 ELSE 0
PlacesLeft == CASE ctl = "syscall" -> WordSize + 2
                [] ctl = "write"   -> WordSize + 1 - written
                [] ctl = "limit"   -> 1
                [] OTHER           -> 0
CallsDrawToEnd ==
    [][InCall /\ InCall' /\ (caller = "run" => max_steps # 0) =>
          /\ StepsLeft \in Nat /\ PlacesLeft \in Nat
          /\ \/ StepsLeft' < StepsLeft
             \/ StepsLeft' = StepsLeft /\ PlacesLeft' < PlacesLeft]_emuVars

(* A load that succeeds can be read back through the bus, byte for byte, but  *)
(* for the bytes another peripheral hides, and changes no other byte the bus  *)
(* can read; one that fails changes nothing.                                  *)
Mapped == UNION {Map[s].start .. Map[s].end - 1 : s \in Slot}
ImageOf(file, addr) == addr .. addr + Len(file) - 1
LoadShows(file, addr) ==
    CallLoad(file, addr) =>
       IF rc' = 0
       THEN \A a \in Mapped :
               BusRead(dev', a, 1) =
                  IF a \in ImageOf(file, addr) /\ Owner(Map, a) = Owner(Map, addr)
                  THEN Value(file[a - addr + 1])
                  ELSE BusRead(dev, a, 1)
       ELSE UNCHANGED hartVars

(* The harness implements the loop that RunLoop describes, which includes     *)
(* that emulator_step, and emulator_run when it is given a limit, return      *)
(* whatever the program does.                                                 *)
Loop == INSTANCE RunLoop WITH
            phase   <- IF ctl \in {"new", "idle"} THEN "idle" ELSE caller,
            budget  <- max_steps,
            steps   <- cycle_count,
            fresh   <- taken = 0,
            stopped <- dev.halted,
            code    <- dev.exit_code
RunsTheLoop == Loop!Spec

(* include/rve/emulator.h 116: "Exit code (0 on clean exit; non-zero on      *)
(* error or trap)".  A program that halts with 0 on the last step it is      *)
(* allowed is reported as a failure: a run refutes this.                     *)
CleanExitIsZero == [][dev.halted /\ dev.exit_code = 0 => dev'.exit_code = 0]_emuVars
=============================================================================
