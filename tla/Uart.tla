-------------------------------- MODULE Uart --------------------------------
(***************************************************************************)
(* The UART with a receive file (src/uart.c: uart_ns16550a_create,         *)
(* uart_read, uart_write), as a program that builds its own SoC attaches   *)
(* it; the one emulator_init attaches has none.                            *)
(*                                                                         *)
(* The receiver holds one byte.  It is filled when the UART is created and *)
(* refilled inside the read that takes it, by an fgetc that blocks the     *)
(* emulator's only thread until the peer at the other end of the file      *)
(* writes or closes.  A file opened without blocking answers at once, and  *)
(* fgetc reports "no byte yet" as it reports the end of the file.          *)
(*                                                                         *)
(* uart_read looks at neither the size of the access nor who makes it: a   *)
(* load, a fetch and the write system call take the byte alike.            *)
(***************************************************************************)
EXTENDS UartRegisters, Sequences

CONSTANTS
    Letter,            \* the bytes the peer may send
    MaxSent,           \* bound on the number of bytes the peer sends
    GuestWrites,       \* the register writes the guest performs: <<offset, byte>>
    MaxTx              \* bound on the number of bytes the guest transmits

ASSUME UartAssumption == /\ Letter \subseteq ByteVal
                         /\ GuestWrites \subseteq (0 .. 7) \X ByteVal
                         /\ MaxSent \in Nat /\ MaxTx \in Nat

VARIABLES
    rx_file,           \* "none" (NULL), "blocking" or "polled"
    regs,              \* ier, lcr, mcr, scr, dll and dlh
    rx_ready, rx_byte, \* the one-byte buffer
    val,               \* the byte a read in progress will return
    call,              \* which call is inside fgetc: "create", "read" or "none"
    sent, closed,      \* what the peer has written, and whether it has closed
    taken,             \* how many of those bytes fgetc has returned
    delivered,         \* the received bytes the guest has read
    tx                 \* the bytes written to tx_file

uartVars == <<rx_file, regs, rx_ready, rx_byte, val, call, sent, closed, taken,
              delivered, tx>>

UartTypeOK == /\ rx_file \in {"none", "blocking", "polled"}
              /\ regs \in UartRegs
              /\ rx_ready \in BOOLEAN /\ rx_byte \in ByteVal /\ val \in ByteVal
              /\ call \in {"create", "read", "none"}
              /\ sent \in Seq(Letter) /\ closed \in BOOLEAN
              /\ taken \in 0 .. Len(sent)
              /\ delivered \in Seq(Letter)
              /\ tx \in Seq(ByteVal)
              /\ rx_file = "none" => ~rx_ready /\ call = "none"

(* uart_ns16550a_create up to its fgetc. *)
UartInit == /\ rx_file \in {"none", "blocking", "polled"}
            /\ regs = UartReset
            /\ rx_ready = FALSE /\ rx_byte = 0 /\ val = 0
            /\ call = IF rx_file = "none" THEN "none" ELSE "create"
            /\ sent = <<>> /\ closed = FALSE /\ taken = 0
            /\ delivered = <<>> /\ tx = <<>>

----------------------------------------------------------------------------
(* The peer.  Nobody writes to a file that is not there. *)
PeerSends == /\ rx_file # "none" /\ ~closed /\ Len(sent) < MaxSent
             /\ \E b \in Letter : sent' = Append(sent, b)
             /\ UNCHANGED <<rx_file, regs, rx_ready, rx_byte, val, call, closed, taken,
                            delivered, tx>>

PeerCloses == /\ rx_file # "none" /\ ~closed
              /\ closed' = TRUE
              /\ UNCHANGED <<rx_file, regs, rx_ready, rx_byte, val, call, sent, taken,
                             delivered, tx>>

----------------------------------------------------------------------------
(* The call that waited returns, a read with the byte it took before. *)
Answer == /\ call' = "none"
          /\ delivered' = IF call = "read" THEN Append(delivered, val) ELSE delivered

(* fgetc finds a byte. *)
FgetcByte == /\ call # "none" /\ taken < Len(sent)
             /\ rx_byte' = sent[taken + 1] /\ rx_ready' = TRUE
             /\ taken' = taken + 1
             /\ Answer
             /\ UNCHANGED <<rx_file, regs, val, sent, closed, tx>>

(* Mutant of FgetcEof: EOF (-1) is stored as if it were a byte. *)
FgetcEofStored ==
    /\ call # "none" /\ taken = Len(sent)
    /\ closed \/ rx_file = "polled"
    /\ rx_byte' = -1 /\ rx_ready' = TRUE
    /\ Answer
    /\ UNCHANGED <<rx_file, regs, val, sent, closed, taken, tx>>

(* fgetc returns EOF: the end of the file, or no byte yet in a file that     *)
(* does not block.                                                          *)
FgetcEof == /\ call # "none" /\ taken = Len(sent)
            /\ closed \/ rx_file = "polled"
            /\ Answer
            /\ UNCHANGED <<rx_file, regs, rx_ready, rx_byte, val, sent, closed, taken, tx>>

Fgetc == FgetcByte \/ FgetcEof

----------------------------------------------------------------------------
(* What reading a register returns. *)
DR == 1
UartValue(off) ==
    IF off = 0 /\ ~Dlab(regs) THEN IF rx_ready THEN rx_byte ELSE 0
    ELSE IF off = 5 THEN LsrIdle + (IF rx_ready THEN DR ELSE 0)
    ELSE UartRead(regs, off)

(* Mutants of ReadRbr: the flag is left up while the buffer is refilled; the  *)
(* buffer is not refilled.                                                    *)
ReadRbrKeepsFlag ==
    /\ call = "none" /\ ~Dlab(regs) /\ rx_ready
    /\ val' = UartValue(0)
    /\ call' = "read"
    /\ UNCHANGED <<rx_file, regs, rx_ready, rx_byte, sent, closed, taken, delivered, tx>>
ReadRbrNoRefill ==
    /\ call = "none" /\ ~Dlab(regs) /\ rx_ready
    /\ val' = UartValue(0)
    /\ rx_ready' = FALSE
    /\ delivered' = Append(delivered, UartValue(0))
    /\ UNCHANGED <<rx_file, regs, rx_byte, call, sent, closed, taken, tx>>

(* uart_read of a full buffer: the byte is taken and fgetc is called for the *)
(* next one.  Every other read leaves the UART as it is.                     *)
ReadRbr == /\ call = "none" /\ ~Dlab(regs) /\ rx_ready
           /\ val' = UartValue(0)
           /\ rx_ready' = FALSE
           /\ call' = "read"
           /\ UNCHANGED <<rx_file, regs, rx_byte, sent, closed, taken, delivered, tx>>

(* uart_write *)
WriteReg == \E w \in GuestWrites :
    /\ call = "none"
    /\ regs' = UartWrite(regs, w[1], w[2])
    /\ \/ /\ UartTransmits(regs, w[1]) /\ Len(tx) < MaxTx
          /\ tx' = Append(tx, w[2])
       \/ /\ ~UartTransmits(regs, w[1])
          /\ UNCHANGED tx
    /\ UNCHANGED <<rx_file, rx_ready, rx_byte, val, call, sent, closed, taken, delivered>>

UartNext == PeerSends \/ PeerCloses \/ Fgetc \/ ReadRbr \/ WriteReg

(* fgetc returns when it can.  The guest keeps polling: it reads RBR again    *)
(* and again as long as it can, though it may turn to other registers.        *)
UartSpec == /\ UartInit /\ [][UartNext]_uartVars
            /\ WF_uartVars(Fgetc) /\ SF_uartVars(ReadRbr)

----------------------------------------------------------------------------
(* The receiver implements the byte stream: whatever the interleaving of the *)
(* peer's writes with the guest's reads and its use of DLAB, no byte is      *)
(* lost, doubled, reordered or made up, and with a blocking file a read      *)
(* returns only when the byte after it, or the end, is there: a peer that    *)
(* waits for the answer to a byte before it sends another waits for ever.    *)
Stream == INSTANCE ByteStream WITH waits <- rx_file = "blocking"
ReceivesStream == Stream!Spec

(* include/rve/peripherals/uart.h 37, 53: LSR.DR means that a byte can be   *)
(* read.  Whenever the guest runs, DR is up exactly when the file has given  *)
(* a byte the guest has not read, and that byte is what RBR holds; a guest   *)
(* that sees DR down on a blocking file has read all there will ever be.     *)
StatusIsHonest ==
    call = "none" =>
       /\ UartValue(5) % 2 = DR <=> Len(delivered) < taken
       /\ UartValue(5) % 2 = DR => rx_byte = sent[Len(delivered) + 1]
       /\ UartValue(5) % 2 # DR /\ rx_file = "blocking" => closed /\ delivered = sent

(* A guest that polls, and clears DLAB again and again if it uses it, reads  *)
(* every byte of a blocking file that has a successor, and the last one once *)
(* the peer has closed.                                                      *)
Arrived(n) == Len(sent) > n \/ (closed /\ Len(sent) = n)
EveryByteRead ==
    []<>(~Dlab(regs)) => \A n \in 1 .. MaxSent :
        (rx_file = "blocking" /\ Arrived(n)) ~> Len(delivered) >= n
=============================================================================
