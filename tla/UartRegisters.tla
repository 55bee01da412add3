--------------------------- MODULE UartRegisters ---------------------------
(***************************************************************************)
(* The registers of the UART (src/uart.c): what reading and writing each   *)
(* of them does, the receiver aside.                                       *)
(***************************************************************************)
EXTENDS Words

UartRegs == [ier : ByteVal, lcr : ByteVal, mcr : ByteVal, scr : ByteVal,
             dll : ByteVal, dlh : ByteVal]

(* uart_init *)
UartReset == [ier |-> 0, lcr |-> 0, mcr |-> 0, scr |-> 0, dll |-> 1, dlh |-> 0]

(* DLAB is the top bit of LCR; LSR reports THRE and TEMT, the third and      *)
(* second bits from the top (0x60 for a byte of eight bits).                *)
Dlab(u)  == u.lcr >= Byte \div 2
LsrIdle  == 3 * (Byte \div 8)

(* The eight registers by offset: RBR or DLL, IER or DLH, IIR, LCR, MCR,     *)
(* LSR, MSR and SCR, of a UART that has received nothing.                   *)
UartRead(u, off) ==
    << IF Dlab(u) THEN u.dll ELSE 0, IF Dlab(u) THEN u.dlh ELSE u.ier,
       1, u.lcr, u.mcr, LsrIdle, 0, u.scr >>[off + 1]

(* A byte written to THR is transmitted; every other write sets a register *)
(* or is ignored.                                                          *)
UartTransmits(u, off) == off = 0 /\ ~Dlab(u)

UartWrite(u, off, b) ==
    LET Put(selected, old) == IF selected THEN b ELSE old
    IN  [dll |-> Put(off = 0 /\ Dlab(u), u.dll),
         dlh |-> Put(off = 1 /\ Dlab(u), u.dlh),
         ier |-> Put(off = 1 /\ ~Dlab(u), u.ier),
         lcr |-> Put(off = 3, u.lcr),
         mcr |-> Put(off = 4, u.mcr),
         scr |-> Put(off = 7, u.scr)]
=============================================================================
