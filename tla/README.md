# A TLA+ verification of rve

rve is a RISC-V (RV32IM, machine mode) emulator in C: a decoder, a hart, a bus
with memory-mapped peripherals, a SoC that ties them together and a harness
that runs a program and serves its system calls. This directory holds TLA+
modules of its core, TLC configurations that check them on small instances, and
theorems that TLAPS proves for every value of the constants. `PROJECT.json`
lists the components, runs, mutants, findings, hazards and theorems in machine
readable form and maps each definition to the lines of C it stands for. All
paths below are relative to the repository's `src/`.

    tlc -workers 2 -config MCHart.cfg MCHart      # model-check a run
    tlapm HartProofs.tla                          # check the proofs of a module

## The system

| Component | Code | State | Operations |
|---|---|---|---|
| System bus | `src/bus.c` | 10 slots (active, start, end, context, callbacks), a count | register a peripheral; look an address up; read, write |
| SoC | `src/soc.c` | the bus and the hart | add a memory or a peripheral; load a binary; step; raise an interrupt |
| Memory | `src/memory.c` | a heap block, base, size | read and write 1, 2 or 4 bytes; load a file |
| TOHOST | `src/tohost.c` | two pointers *into the emulator*: its halted flag and exit code | a write sets both |
| UART | `src/uart.c` | 16550 registers, a one-byte receive buffer and its file, transmit file | create, read, write |
| Hart | `src/hart.c` | 32 registers, pc, six stored CSRs | step (fetch, decode, execute, commit or trap); take an interrupt |
| Decoder | `src/decoder.c` | none | one word to one decoded instruction |
| Disassembler | `src/decoder.c` | none | one decoded instruction to a line of text |
| Emulator harness | `src/emulator.c` | SoC, halted, exit code, cycle count, system call handler, trace callback | init, load, step, run, set a handler; system calls |
| Command line program | `src/main.c` | the parsed arguments | parse the command line, init, load, run, exit |
| Others | `cosim.h`, helpers, tests | | not modelled, see below |

**Interactions.** `emulator_run` loops over `emulator_step`, which calls
`soc_step`, `hart_step`, the bus and a device, and returns a *retirement record*
up the same chain; trace printing and the system call handler see the machine
only through that record and the register file. `ECALL` is not a hardware trap
here: the record carries the cause and the emulator serves the call. TOHOST is
the exception to the layering: a guest store reaches through two pointers and
sets `halted` and `exit_code` in the middle of `hart_step`. The write system
call reads guest memory through the bus, a byte at a time. `soc_raise_interrupt`
lets an embedder inject an interrupt between any two steps. `main` uses the emulator
once, from its command line to its exit status; another program may make the library's
calls in any order, with a system call handler of its own. A UART with a receive file
waits inside `uart_read` for the peer at the other end of the file.

**What is hard here.** The program is sequential, so there are no data races and
nothing is persisted. The hard behaviours are of another kind:

- *routing*: slots may overlap, in any order, and `emulator_init` relies on it
  (TOHOST lies inside the high RAM); the winner is the smallest range, the
  earlier slot on a tie; an access is routed by its first byte only;
- *partial failure*: an allocation or a full bus in the middle of `soc_add_memory`;
  an instruction that faults at a late stage; a write call that hits an unmapped byte;
- *order inside one step*: link register and misaligned target, `rd = rs1`,
  writes to x0, the pieces of the retirement record;
- *interleaving*: interrupts between any two steps, traps inside handlers, a
  store that halts the machine under the loop that drives it;
- *protocol*: the `MIE`/`MPIE`/`mepc` frame between trap entry and `MRET`;
- *sequences of calls*: a second run, a run after single steps, a step of a halted
  emulator, a load over TOHOST, a load that fails;
- *a prefetch*: the receiver takes the next byte before it hands out the last, so a peer
  that waits for an answer and a guest that waits for a byte may wait for each other;
- *limits*: `max_steps`, the wrap of `start + size` at 2^32, scattered and
  sign-extended immediates, division by zero and its overflow.

**What makes each part correct.** Bus: lookup is a function of the address and
the table, registration keeps the count and never takes an address from a more
specific device, nothing leaks. Hart: a trap is precise, a record is complete, a
misaligned pc comes only from software, a trap frame survives its handler, memory is
bytes. Decoder:
exactly the operation the manual encodes, no operand bit lost, on the way to its text
either. UART: no received byte lost, doubled or reordered, and a status register that
tells the truth. Emulator: it behaves as a plain loop of steps under a budget, bounded runs
end, the guest stops at a halt, an exit code has a cause, a write call reports what
it wrote, a load can be read back. Program: it does what the command line says, and success
is reported only for a guest that ran and said so.

## Modules

| Module | Stands for | Extends |
|---|---|---|
| `BusMap` | the routing rule: which slot owns an address (abstract specification of the lookup) | |
| `BusLookup` | the loop of `bus_get_peripheral`, one turn per action | `BusMap` |
| `Bus` | `bus_add_peripheral`, `soc_add_peripheral`, `soc_add_memory` with their failures | `BusMap` |
| `Words` | 32-bit words as bytes: conversions, signed views, bit flags | |
| `Alu` | the integer operations and M extension | `Words` |
| `UartRegisters` | the UART's registers and transmitter | `Words` |
| `Uart` | the UART with a receive file, its peer and a polling guest | `UartRegisters` |
| `ByteStream` | what a receiver promises: the peer's bytes, in order, each once (abstract) | |
| `Soc` | RAM, TOHOST, UART and the two dispatching accesses | `Alu`, `BusMap`, `UartRegisters` |
| `Hart` | `hart_step`, one action per instruction group, and `soc_raise_interrupt` | `Soc` |
| `Traps` | `Hart` with a history variable that remembers what a trap interrupted | `Hart` |
| `RunLoop` | what an embedder may count on: steps, a budget, a stop and its code (abstract) | |
| `Emulator` | every public call of the library, and the steps inside them | `Hart` |
| `Main` | a process: `rve` with its command line, or another program that embeds the library | `Emulator` |
| `Decoder` | `rve_decode_instruction` over the fields of a word | |
| `Disassembler` | `rve_decoded_format_to_buffer`, as the tokens of a line | `Decoder` |
| `MC*` | the model-checking instances | |
| `*Proofs` | theorems of the module they are named for | |

**State.** `gpr`, `csr`, `pc` are the hart's fields; `retire` is the record the last
`hart_step` returned. `dev` is one record of all devices (RAM cells per slot, UART
registers, `halted`, `exit_code`, bytes sent to stdout), because TOHOST and the
UART share state with the emulator. `slots`, `count` are the bus; `heap` is the
set of memory contexts allocated and not freed. In `Emulator`, `ctl` is where the
single thread is; `cycle_count`, `handler`, `max_steps`, `written`, `stderr`, `rc` are the fields,
arguments and locals they are named for; `caller` and `taken` are the call in progress and its
steps. `Main` adds `parse_args`' index and result, the place in `main` and the exit status. In
`Uart`, `rx_ready` and `rx_byte` are the buffer, `call` says who is inside `fgetc`, and `sent`,
`taken`, `delivered` are what the peer wrote, `fgetc` returned and the guest read. In
`BusLookup` the variables are the loop's locals.

**Actions.** A `hart_step` runs to completion, so it is one action, split by
instruction group: `FetchMisaligned`, `FetchFault`, `ExecIllegal`, `ExecLui`,
`ExecLoad`, `ExecCsr`, and so on. Each does fetch, execute and commit
together; `Commit` writes the registers, clears x0, sets the pc and builds the
record, and `CommitTrap` does the same for a trap. Instructions are words in RAM,
so a program may overwrite itself. `Emulator` has one action for each call of the library
(`CallInit`, `CallLoad`, `CallSetHandler`, `CallRun`, `CallStep`, `CallInterrupt`), enabled
between calls, and cuts the code inside a call at the places where its branches are
decided: the loop head, the system call, each byte of a write call, the limit
test. `Main` parses a token at a time and then makes the calls in `main`'s order; in its other
initial state, `mctl = "embed"`, it makes any call at any time. `Uart` splits `uart_read` at its
`fgetc`, where the peer may act.

**Abstractions.**

- *Byte and word.* A word is four bytes; `Byte` is 256 in the code and 16 in TLC's
  runs, which keeps the four bytes, every access size and, with `XLEN` = 16, the
  bits 3, 7, 11 and 12 of `mstatus`. Proofs are for every `Byte` that is a
  multiple of 16. The three bitwise operations on bytes are constants, given the
  real ones in the runs.
- *Decoding.* `Hart` takes `Decode` as an arbitrary function from words to
  instructions; the CSR address is reduced to what `csr_dispatch` does with it.
  `Decoder` models the real decoder separately. Its `TypeOK` shows that every
  immediate already has its sign in bit 31, which is why `Hart` has no `sext`.
- *Input.* `hart` and `traps` start with any image of a given set in RAM; `Main` loads files.
  A file that is missing, empty or unreadable is an empty sequence.
- *UART.* `emulator_init` passes no receive file, so in `Soc` the receive buffer never fills;
  a UART that has one is `Uart`, by itself.
- *Numbers on the command line* are what `strtoul` makes of a token, as a table.
- *`cycle_count`* stops at `CycleCap`, above every value anything reads.
- *Text.* A mnemonic is its operation and an ABI name its register; how a number is
  printed (`%d`, `%u`, hexadecimal, masked, shifted) is kept.
- The retirement record leaves out what only tracing prints (instruction word, length). A
  trace callback only reads the record.

## Runs

Checked with no error on two workers, `emulator` within two minutes, the others within one:

| Run | States | What it shows |
|---|---|---|
| `bus_lookup` | 524 288 | The loop returns the routing rule's owner (`ReturnsOwner`), keeps the best match so far (`BestSoFar`) and ends (`Terminates`). Every table of 3 slots over 4 addresses: equal, nested, overlapping, inverted and inactive ranges and every order of them. |
| `bus` | 67 650 | Every sequence of registrations on 3 slots, 4 addresses, 3 contexts (symmetric), sizes that wrap: `CountIsActive`, `NoLeak`, `AddOnlyCaptures`. The bus fills up and allocations fail at either step. |
| `hart` | 156 014 | All three-word programs of 29 instructions and illegal words on a program RAM, a data RAM and a TOHOST inside it: `PreciseTrap`, `RecordComplete`, `MisalignedOnlyByMret`, `DividesByTheManual`, and that RAM is an array of bytes whatever the sizes of the accesses, `MemoryIsBytes`. Accesses straddle TOHOST, run off the RAM, and overwrite the program; divisors are zero, -1 and of either sign, dividends include the most negative word. |
| `traps` | 174 888 | All three-word programs of 11 trapping, CSR and return instructions, an interrupt between any two steps: `FrameHeld`, `MretResumes`, `PreciseTrap`, `MisalignedOnlyByMret`. |
| `emulator` | 39 549 | Whole processes on a small copy of `emulator_init`'s map, in its order. `rve` on 972 programs with a limit of six steps (system calls of each kind, buffers that run into TOHOST, out of a RAM and into the UART, a store to TOHOST or an exit on the last step) and on every command line of up to three tokens, the empty one among them, and some of six; and another program that makes any calls in any order, loads across TOHOST, interrupts and handlers of its own included. Safety: `StepsBounded`, `HaltsForCause`, `GuestStopsAtHalt`, `WriteIsPrefix`, `WriteReturnsCount`, `LoadsAreVisible`, `ParsedAsWritten`, `SuccessMeansGuestExit`; that a step or a limited run comes nearer to its end with every turn, `CallsDrawToEnd`; refinement of `RunLoop`: `RunsTheLoop`; liveness: `Exits`. |
| `decoder` | 638 976 | Every opcode the decoder knows and two it does not, every funct3 and funct7, boundary values of the register fields (with 0, 1, 2 for funct12): `DecodesIsa`, `RoundTrip`; the line the disassembler prints reads back as the same instruction, `LineReadsBack`. |
| `uart` | 28 220 | The UART with no, a blocking or a polled receive file; a peer that sends up to four bytes and closes, a guest that reads, transmits and sets and clears DLAB: `StatusIsHonest`, refinement of `ByteStream` (`ReceivesStream`), `EveryByteRead`. |

**Why the bounds are enough.** A lookup compares two candidates at a time, so
three slots show every pair in either order with a third between them, and four
addresses give ranges of four sizes. A registration touches one slot. A hazard of the hart spans at most
three instructions (set a register, act, observe), and a hazard of a trap
handler an enable, a trap and the return; interrupts come in addition. The programs of
`emulator` are four argument settings, an instruction and a second call, store or jump. `Limits`
are no limit, the first step, one below the programs' six steps and exactly these; `CycleCap`
(7) lies above them. `EmbedCap` (2) lets another program call until two steps have been taken,
which gives a run after a step, a step after a run, and any calls around them; a run of its
own goes on to its limit. Command lines of three tokens hold every pair of an option with its
neighbour, those of six a repeated option. Four bytes (`MaxSent`) of two values show one byte in
the buffer, one in flight and one waiting, and one read; the guest transmits one
(`MaxTx`). The decoder looks at funct3, funct7, rs2
and the opcode only, and at the other fields through positional arithmetic, for
which `DecoderProofs` covers all values; the operation, too, is proved for every word.

Deadlock checking is off for `bus_lookup`, `emulator`, `decoder` and `uart`: the loop, the process
and the decoder's call end, and a blocking read waits for a peer that need not write.
Elsewhere it is on.

**Refinements.** `Emulator` implements `RunLoop` under the mapping that forgets the machine
(`RunsTheLoop`): the phase is the call in progress, the budget is `max_steps`, the steps are
`cycle_count`. `Uart` implements `ByteStream` (`ReceivesStream`) by forgetting the buffer; the
abstract stream states the price of the prefetch, that a read waits for what follows its byte.
`BusLookup` computes `BusMap`'s owner.

**Fairness.** `BusLookup` assumes weak fairness of its next-state relation, `Emulator` of the
library's own steps (`Internal`), and `Main` of everything `rve` does: one thread runs them
and nothing in it blocks. No fairness is assumed of interrupts or of the calls of
another program. `Uart` assumes that `fgetc` returns when it can (weak) and, of the guest,
that it polls: strong fairness of reading RBR, because DLAB hides it now and then. Nothing
is assumed of the peer. `Exits` holds only under `--max` or for an error: without a limit a
guest may loop for ever, and the property says so. `EveryByteRead` leaves out the last byte of a
file that stays open, which the prefetch withholds.

**Refuted claims** (runs that end in a violation, see `findings`):

| Run | The claim | What the code does |
|---|---|---|
| `store_fault_cause` | `hart.h` 40: synchronous exceptions have bit 31 = 0 | `commit_trap` asks whether the *code* is an interrupt's; store access fault and timer interrupt are both 7, so a store fault sets bit 31 and vectors as the timer |
| `fault_address` | `hart.c` 35: load and store faults report the faulting address | the address is recorded after the bus has accepted the access, so `mtval` is 0 |
| `clean_exit` | `emulator.h` 116: exit code 0 on a clean exit | a halt with 0 on exactly the last allowed step is overwritten with 1 |
| `overlap` | `bus.h` 7: overlapping ranges are not permitted | no range is compared, and `emulator_init` depends on that |
| `valid_flag` | `decoder.h` 136: `valid` is false for illegal encodings | branch, store and SYSTEM set it again after their switch; the hart still traps through the default of its own |

Smaller disagreements met while modelling, which the models follow the code on:

- an unhandled trap never halts the emulator (`emulator.c` 168-176 against `emulator.h`
  111-112); an unhandled system call may exit with 0 (`emulator.h` 35);
- `max_steps` counts the steps since `emulator_init`, not those of the run, and a run of an
  emulator that is not halted always takes one;
- a guest's exit code that is a multiple of 256 becomes exit status 0, which
  `tools/run_tests.sh` reads as a pass;
- `uart.h` 16 says that LSR always reads 0x60; with a receive file bit 0 is the data-ready bit.
  On a file that does not block, a byte that comes after an empty `fgetc` is never seen;
- the M extension has no case in the disassembler and prints as an unhandled operation, and an
  unknown branch, store or SYSTEM word as an "internal error" that its comment rules out;
- an image may be loaded under TOHOST, where nothing can read it;
- the retirement record is said to describe a step completely (`hart.h` 71), but has no CSR; `RecordComplete`
  is about the registers and the devices;
- `ECALL` does not go to the trap vector (`hart.h` 133); a `FENCE` with rd other than x0 reports a
  register write it does not make (of the register's old value); `CSRRW` from x0 does not
  write the CSR; neither `MIE` nor `mie` holds an interrupt back; a memory that ends at 2^32 has
  end 0 and is never found; the comment on `MRET` in the decoder gives another rs2 than the
  code, which is right.

## Proofs

TLAPS proves all of the following for every value of the constants that meets
the named assumptions: any number of slots and registers, any map, any program,
any decoder function, any interleaving of interrupts, any command line and files, any
sequence of calls, any peer.

| Module | Theorems | Argument |
|---|---|---|
| `BusLookupProofs` | `TypeCorrect`, `BestSoFarHolds`, `LookupReturnsOwner` | `BestSoFar` with `TypeOK` is inductive: the loop's best is the preferred one among the slots seen. At the last index this is the owner. |
| `BusProofs` | `TypeCorrect`, `CountCorrect`, `NothingLeaks`, `RegistrationOnlyCaptures` | `TypeOK`, `CountIsActive` (active slots are the first `count`) and `NoLeak` are inductive together: a free slot is the one at `count`, so a registration overwrites no context. |
| `SocProofs` | lemmas | byte and word ranges, flags, every ALU result is a word; the bytes of a word are those it was made of, sign extended or not; powers of two; a bus read is a word, a bus write keeps the devices' types |
| `UartProofs` | `ReceiverIsTyped`, `StatusHolds`, `StreamRefined` | `StreamInv`: the bytes `fgetc` has returned are those delivered, the one in hand and the one in the buffer, in this order. With it each step of `Uart` is a step of `ByteStream` or a stutter, and the data-ready bit says whether the buffer is full. |
| `HartProofs` | `TypeCorrect`, `PcStaysAligned`, `TrapsArePrecise`, `RecordIsComplete`, `DivisionsAreExact`, `MemoryActsAsBytes` | `TypeOK` is inductive, and `MisalignedOnlyByMret` relative to it; lemma `StepShape` reduces every instruction group to a commit or a trap with named pieces, from which the action properties follow. Division: `QuotIsExact` by the signs of the operands, then `SignedOfMod`: a quotient fits its word but for the one overflow. Memory: an accepted store rewrites cells of one slot (`StoredRam`), a load puts cells together and `SextIsBytes` takes them apart again. |
| `TrapProofs` | `HistoryIsTyped`, `HandlerKeepsFrame`, `MretReturns` | `FrameHeld` with `TrapTypeOK`: the only steps that touch `mepc` or the flags are a trap, `MRET` and a CSR write, and each resets the history |
| `DecoderProofs` | `TypeCorrect`, `NothingLost`, `DecodesExactly`, `LinesReadBack` | `RoundTrip` with the ranges of fields and immediates; one lemma per immediate format on its bits. `DecodesIsa`: for each opcode, the manual's rows are the entries of the code's table and every entry with an operation has its row, so the table's entry is all a word can mean. A line reads back by the ranges that `RoundTrip` carries: each printed form of an immediate is invertible on them. |
| `EmulatorProofs` | of the library under any caller: `RunsAreTyped`, `RunsAreBounded`, `HaltsHaveCauses`, `HaltStopsGuest`, `WritesArePrefixes`, `WritesReturnCounts`, `LoopRefined`, `CallsComeToEnd`; of a process: `ProcessIsTyped`, `ProcessInherits`, `LoadsShow`, `SuccessIsEarned`, `LineIsObeyed` | `EmuInv`: a run goes on only below its limit, a system call is pending only on a live machine with an ECALL in the record. `PrefixInv`: a write call's count never exceeds its stream, so the bytes it put out are the stream's end; `Counting` says that each byte out is counted, and nothing else, so what the call returns is its output's length; printing changes nothing the bus reads. `Fresh` ties the thread's place to the steps its call has taken, which is what `RunLoop`'s guards ask. `MainInv` carries all of it through `main`, whose steps are calls of the library or leave it alone; `Earned` adds that a run returns only on a halted machine that has moved. `ParseInv`: up to its index the parser has read what the line gives there. Each turn adds one item (`NextItem`), and at the end the prefix is the line. |

Most of the listed properties are not inductive as they stand: that TOHOST is the
only device to raise the halted flag, or that the count of slots is the index of the first
free one, has to be carried along.

**Assumptions.** Byte radix: a multiple of 16, at least 16, and a word of `XLEN` bits, at least
16, with `WordSize` = 2^`XLEN`. The bitwise operations return bytes. `Map` is a well-typed slot
table, whatever its ranges. `Decode` returns, for every word, an instruction with existing
registers and a word as immediate (`DecodeAssumption`), and nothing more. No option `rve` does
not know is one it knows (`OptionAssumption`). Every assumption is evaluated by TLC in a passing
run. That powers of two are positive is proved: `Pow2` is a recursive function, and what it needs of
induction is an induction over a set of numbers (`SetInduction`), which follows from the library's
theorem that `<` is well founded on the naturals.

**Only model-checked.** The liveness properties `Terminates`, `Exits`, `EveryByteRead` and the part
of `RunsTheLoop` that says that calls end; liveness and `ENABLED` are out of the prover's reach.
`CallsComeToEnd` is what can be proved of it: the steps left, and within a step the places left, go
down with every step of the library, so only a library that stops could keep a call from returning.
The high products of the M extension are proved to be
words; their operands' range overflows TLC's integers, so no run compares them with a reference.

## Not modelled

- Allocation failures inside `emulator_init`: the results of `malloc` are not looked at, so
  what follows is undefined. A missing RAM is covered by the theorems, which hold for every map.
- `soc_load_binary` at TOHOST, whose context it takes for a memory: undefined, and excluded by
  the precondition in `soc.h` 81.
- A UART with a receive file under the emulator: `emulator_init` attaches none. `Uart` covers it
  with any guest.
- `memory_load_instruction`, `memory_flush` and `peripheral.c`, which nothing calls; functions that
  only print or name an enumerator; `utils.c` file reading beyond its result.
- `cosim.h` has no implementation in the repository, `main2.c` is compiled out. The tests'
  table and the generators are examples, not parts of the program.

## Order of work

The modules were written in the order bus lookup, bus, words and SoC, hart, traps, emulator, decoder,
UART, program, disassembler, each with its runs before its proofs. What could follow: the real decoder
in place of `Hart`'s arbitrary one, with the CSR address classes; a flat memory implemented by overlapping RAM slots.
