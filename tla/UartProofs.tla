----------------------------- MODULE UartProofs -----------------------------
(***************************************************************************)
(* The UART's receiver is a byte stream, for every set of bytes, every     *)
(* bound on what the peer sends, and every interleaving of the peer, fgetc *)
(* and the guest.                                                          *)
(*                                                                         *)
(* The invariant says where the bytes fgetc has returned are: read by the  *)
(* guest, in the hands of a read that waits for the next one, or in the    *)
(* one-byte buffer, in this order.                                         *)
(***************************************************************************)
EXTENDS Uart, TLAPS

InHand == IF call = "read" THEN 1 ELSE 0
Held   == IF rx_ready THEN 1 ELSE 0

StreamInv ==
    /\ UartTypeOK
    /\ taken = Len(delivered) + InHand + Held
    /\ \A k \in 1 .. Len(delivered) : delivered[k] = sent[k]
    /\ call = "read" => val = sent[Len(delivered) + 1]
    /\ rx_ready => call = "none" /\ rx_byte = sent[Len(delivered) + 1]
    /\ call = "none" /\ ~rx_ready /\ rx_file = "blocking" => closed /\ taken = Len(sent)

----------------------------------------------------------------------------
LEMMA ByteFacts == Byte \in Nat /\ Byte >= 16 /\ 0 \in ByteVal /\ 1 \in ByteVal
  BY ByteAssumption DEF ByteVal

LEMMA ResetIsRegs == UartReset \in UartRegs
  BY ByteFacts DEF UartReset, UartRegs

LEMMA WriteIsRegs ==
    ASSUME NEW u \in UartRegs, NEW off, NEW b \in ByteVal
    PROVE  UartWrite(u, off, b) \in UartRegs
  BY DEF UartWrite, UartRegs

(* Reading LSR shows the receiver's flag in its low bit. *)
LEMMA LowBitIsReady == ASSUME rx_ready \in BOOLEAN PROVE UartValue(5) % 2 = DR <=> rx_ready
<1>1. \E n \in Nat : LsrIdle = 2 * n
  <2>1. PICK k \in Nat : Byte = 16 * k
    <3>1. Byte \div 16 \in Nat /\ Byte = 16 * (Byte \div 16)
      BY ByteAssumption
    <3>2. QED
      BY <3>1
  <2>2. LsrIdle = 2 * (3 * k)
    BY <2>1 DEF LsrIdle
  <2>3. QED
    BY <2>2
<1>2. UartValue(5) = LsrIdle + (IF rx_ready THEN 1 ELSE 0)
  BY DEF UartValue, DR
<1>3. QED
  BY <1>1, <1>2 DEF DR

LEMMA Counts ==
    ASSUME UartTypeOK
    PROVE  /\ call = "read" => InHand = 1
           /\ call # "read" => InHand = 0
           /\ rx_ready => Held = 1
           /\ ~rx_ready => Held = 0
  BY DEF InHand, Held, UartTypeOK

LEMMA NextCounts ==
    ASSUME UartTypeOK'
    PROVE  /\ call' = "read" => InHand' = 1
           /\ call' # "read" => InHand' = 0
           /\ rx_ready' => Held' = 1
           /\ ~rx_ready' => Held' = 0
  BY DEF InHand, Held, UartTypeOK

(* Sequences that agree on their whole length are equal. *)
LEMMA SameBytes ==
    ASSUME NEW s \in Seq(Letter), NEW t \in Seq(Letter), Len(s) = Len(t),
           \A k \in 1 .. Len(s) : s[k] = t[k]
    PROVE  s = t
  OBVIOUS

----------------------------------------------------------------------------
LEMMA StreamInit == UartInit => StreamInv
<1> SUFFICES ASSUME UartInit PROVE StreamInv
  OBVIOUS
<1>1. /\ rx_file \in {"none", "blocking", "polled"} /\ regs \in UartRegs
      /\ call \in {"create", "none"}
      /\ rx_file = "none" => call = "none"
      /\ rx_file = "blocking" => call = "create"
  BY ResetIsRegs DEF UartInit
<1>2. /\ sent = <<>> /\ delivered = <<>> /\ tx = <<>>
      /\ rx_ready = FALSE /\ rx_byte = 0 /\ val = 0 /\ closed = FALSE /\ taken = 0
  BY DEF UartInit
<1>3. UartTypeOK
  <2>1. rx_byte \in ByteVal /\ val \in ByteVal
    BY <1>2, ByteFacts
  <2>2. /\ sent \in Seq(Letter) /\ delivered \in Seq(Letter) /\ tx \in Seq(ByteVal)
        /\ taken \in 0 .. Len(sent)
    BY <1>2
  <2>3. rx_ready \in BOOLEAN /\ closed \in BOOLEAN /\ ~rx_ready
    BY <1>2
  <2>4. QED
    BY <1>1, <2>1, <2>2, <2>3 DEF UartTypeOK
<1>4. InHand = 0 /\ Held = 0
  BY <1>1, <1>2 DEF InHand, Held
<1>5. Len(delivered) = 0 /\ taken = 0 /\ Len(sent) = 0 /\ ~rx_ready
  BY <1>2
<1>6. QED
  BY <1>1, <1>3, <1>4, <1>5 DEF StreamInv

(* More bytes from the peer leave those the receiver has as they are. *)
LEMMA SendsHolds == StreamInv /\ PeerSends => StreamInv'
<1> SUFFICES ASSUME StreamInv, PeerSends PROVE StreamInv'
  OBVIOUS
<1> USE DEF StreamInv
<1>1. PICK b \in Letter : sent' = Append(sent, b)
  BY DEF PeerSends
<1>2. /\ sent \in Seq(Letter) /\ sent' \in Seq(Letter) /\ Len(sent') = Len(sent) + 1
      /\ \A k \in 1 .. Len(sent) : sent'[k] = sent[k]
  BY <1>1 DEF UartTypeOK
<1>3. taken \in 0 .. Len(sent) /\ taken \in 0 .. Len(sent')
  BY <1>2 DEF UartTypeOK
<1>4. /\ Len(delivered) \in Nat /\ Len(delivered) <= taken
      /\ (call = "read" \/ rx_ready) => Len(delivered) + 1 <= taken
  <2>1. Len(delivered) \in Nat /\ taken = Len(delivered) + InHand + Held
    BY DEF UartTypeOK
  <2>2. QED
    BY <2>1, Counts
<1>5. UartTypeOK'
  BY <1>2, <1>3 DEF UartTypeOK, PeerSends
<1>6. ~closed
  BY DEF PeerSends
<1>7. /\ UNCHANGED <<rx_file, regs, rx_ready, rx_byte, val, call, closed, taken, delivered, tx>>
      /\ InHand' = InHand /\ Held' = Held
  BY DEF PeerSends, InHand, Held
<1>8. /\ \A k \in 1 .. Len(delivered) : sent'[k] = sent[k]
      /\ (call = "read" \/ rx_ready) => sent'[Len(delivered) + 1] = sent[Len(delivered) + 1]
  BY <1>2, <1>3, <1>4
<1>9. QED
  BY <1>5, <1>6, <1>7, <1>8

LEMMA ClosesHolds == StreamInv /\ PeerCloses => StreamInv'
<1> SUFFICES ASSUME StreamInv, PeerCloses PROVE StreamInv'
  OBVIOUS
<1>1. UartTypeOK'
  BY DEF StreamInv, UartTypeOK, PeerCloses
<1>2. QED
  BY <1>1 DEF StreamInv, PeerCloses, InHand, Held

(* The read that waited hands its byte over: it is the next one. *)
LEMMA AnswerDelivers ==
    ASSUME StreamInv, Answer, rx_file' = rx_file, sent' = sent, call # "none"
    PROVE  /\ delivered' \in Seq(Letter)
           /\ Len(delivered') = Len(delivered) + InHand
           /\ \A k \in 1 .. Len(delivered') : delivered'[k] = sent[k]
           /\ ~rx_ready /\ taken = Len(delivered) + InHand
<1> USE DEF StreamInv
<1>1. delivered \in Seq(Letter) /\ sent \in Seq(Letter) /\ Len(delivered) \in Nat
  BY DEF UartTypeOK
<1>2. ~rx_ready /\ taken = Len(delivered) + InHand
  <2>1. ~rx_ready
    OBVIOUS
  <2>2. InHand \in {0, 1} /\ Held = 0
    BY <2>1, Counts
  <2>3. QED
    BY <1>1, <2>1, <2>2
<1>3. CASE call = "read"
  <2>1. taken = Len(delivered) + 1 /\ taken \in 0 .. Len(sent)
    BY <1>2, <1>3 DEF InHand, UartTypeOK
  <2>2. val \in Letter
    BY <1>1, <1>3, <2>1
  <2>3. delivered' = Append(delivered, val)
    BY <1>3 DEF Answer
  <2>4. QED
    BY <1>1, <1>2, <1>3, <2>2, <2>3 DEF InHand
<1>4. CASE call # "read"
  BY <1>1, <1>2, <1>4 DEF Answer, InHand
<1>5. QED
  BY <1>3, <1>4

LEMMA FgetcHolds == StreamInv /\ Fgetc => StreamInv'
<1> SUFFICES ASSUME StreamInv, Fgetc PROVE StreamInv'
  OBVIOUS
<1>1. /\ Answer /\ rx_file' = rx_file /\ sent' = sent /\ call # "none"
      /\ call' = "none" /\ UNCHANGED <<regs, val, closed, tx>>
  BY DEF Fgetc, FgetcByte, FgetcEof, Answer
<1>2. /\ delivered' \in Seq(Letter)
      /\ Len(delivered') = Len(delivered) + InHand
      /\ \A k \in 1 .. Len(delivered') : delivered'[k] = sent[k]
      /\ ~rx_ready /\ taken = Len(delivered) + InHand
  BY <1>1, AnswerDelivers
<1>3. CASE FgetcByte
  <2>1. /\ taken < Len(sent) /\ rx_byte' = sent[taken + 1] /\ rx_ready' = TRUE
        /\ taken' = taken + 1
    BY <1>3 DEF FgetcByte
  <2>2. sent \in Seq(Letter) /\ taken \in 0 .. Len(sent) /\ Letter \subseteq ByteVal
    BY UartAssumption DEF StreamInv, UartTypeOK
  <2>3. rx_byte' \in ByteVal /\ taken' \in 0 .. Len(sent)
    BY <2>1, <2>2
  <2>4. UartTypeOK'
    BY <1>1, <1>2, <2>1, <2>2, <2>3 DEF StreamInv, UartTypeOK
  <2>5. QED
    BY <1>1, <1>2, <2>1, <2>2, <2>4 DEF StreamInv, InHand, Held
<1>4. CASE FgetcEof
  <2>1. /\ taken = Len(sent) /\ (closed \/ rx_file = "polled")
        /\ UNCHANGED <<rx_ready, rx_byte, taken>>
    BY <1>4 DEF FgetcEof
  <2>2. UartTypeOK'
    BY <1>1, <1>2, <2>1 DEF StreamInv, UartTypeOK
  <2>3. taken' = Len(delivered') + InHand' + Held'
    BY <1>1, <1>2, <2>1, <2>2 DEF InHand, Held, UartTypeOK
  <2>4. taken' = Len(sent') /\ ~rx_ready'
    BY <1>1, <1>2, <1>4 DEF FgetcEof
  <2>5. rx_file = "blocking" => closed'
    BY <1>1, <1>4 DEF FgetcEof
  <2>6. QED
    BY <1>1, <1>2, <2>2, <2>3, <2>4, <2>5 DEF StreamInv
<1>5. QED
  BY <1>3, <1>4 DEF Fgetc

LEMMA ReadHolds == StreamInv /\ ReadRbr => StreamInv'
<1> SUFFICES ASSUME StreamInv, ReadRbr PROVE StreamInv'
  OBVIOUS
<1>1. /\ rx_ready /\ call = "none" /\ val' = rx_byte /\ rx_ready' = FALSE /\ call' = "read"
      /\ UNCHANGED <<rx_file, regs, rx_byte, sent, closed, taken, delivered, tx>>
  BY DEF ReadRbr, UartValue
<1>2. UartTypeOK'
  BY <1>1 DEF StreamInv, UartTypeOK
<1>3. QED
  BY <1>1, <1>2 DEF StreamInv, InHand, Held

LEMMA WriteHolds == StreamInv /\ WriteReg => StreamInv'
<1> SUFFICES ASSUME StreamInv, WriteReg PROVE StreamInv'
  OBVIOUS
<1>1. PICK w \in GuestWrites :
         /\ regs' = UartWrite(regs, w[1], w[2])
         /\ tx' = Append(tx, w[2]) \/ tx' = tx
         /\ UNCHANGED <<rx_file, rx_ready, rx_byte, val, call, sent, closed, taken, delivered>>
  BY DEF WriteReg
<1>2. w[2] \in ByteVal
  BY UartAssumption
<1>3. regs' \in UartRegs
  BY <1>1, <1>2, WriteIsRegs DEF StreamInv, UartTypeOK
<1>4. tx \in Seq(ByteVal)
  BY DEF StreamInv, UartTypeOK
<1>5. tx' \in Seq(ByteVal)
  BY <1>1, <1>2, <1>4
<1>6. UartTypeOK'
  BY <1>1, <1>3, <1>5 DEF StreamInv, UartTypeOK
<1>7. QED
  BY <1>1, <1>6 DEF StreamInv, InHand, Held

LEMMA StutterHolds == StreamInv /\ UNCHANGED uartVars => StreamInv'
<1> SUFFICES ASSUME StreamInv, UNCHANGED uartVars PROVE StreamInv'
  OBVIOUS
<1>1. UartTypeOK'
  BY DEF StreamInv, UartTypeOK, uartVars
<1>2. QED
  BY <1>1 DEF StreamInv, InHand, Held, uartVars

LEMMA StreamInvHolds == UartSpec => []StreamInv
<1>1. StreamInv /\ [UartNext]_uartVars => StreamInv'
  BY SendsHolds, ClosesHolds, FgetcHolds, ReadHolds, WriteHolds, StutterHolds DEF UartNext
<1>2. QED
  BY <1>1, StreamInit, PTL DEF UartSpec

----------------------------------------------------------------------------
(* Every field of the UART keeps its width, and fgetc never returns more     *)
(* than the peer has written (uart_read, uart_write).                        *)
THEOREM ReceiverIsTyped == UartSpec => []UartTypeOK
<1>1. StreamInv => UartTypeOK
  BY DEF StreamInv
<1>2. QED
  BY <1>1, StreamInvHolds, PTL

(* LSR.DR tells the truth whenever the guest runs: uart_read's buffer holds  *)
(* the first byte the guest has not read, or, on a blocking file, there is   *)
(* none.                                                                     *)
THEOREM StatusHolds == UartSpec => []StatusIsHonest
<1>1. StreamInv => StatusIsHonest
  <2> SUFFICES ASSUME StreamInv, call = "none" PROVE
        /\ rx_ready <=> Len(delivered) < taken
        /\ rx_ready => rx_byte = sent[Len(delivered) + 1]
        /\ ~rx_ready /\ rx_file = "blocking" => closed /\ delivered = sent
    <3>1. StreamInv => rx_ready \in BOOLEAN
      BY DEF StreamInv, UartTypeOK
    <3>2. QED
      BY <3>1, LowBitIsReady DEF StatusIsHonest
  <2>1. /\ delivered \in Seq(Letter) /\ sent \in Seq(Letter)
        /\ Len(delivered) \in Nat /\ rx_ready \in BOOLEAN
    BY DEF StreamInv, UartTypeOK
  <2>2. taken = Len(delivered) + Held
    BY <2>1 DEF StreamInv, InHand, Held
  <2>3. rx_ready <=> Len(delivered) < taken
    BY <2>1, <2>2 DEF Held
  <2>4. ~rx_ready /\ rx_file = "blocking" => closed /\ delivered = sent
    <3> SUFFICES ASSUME ~rx_ready, rx_file = "blocking" PROVE closed /\ delivered = sent
      OBVIOUS
    <3>1. closed /\ taken = Len(sent)
      BY DEF StreamInv
    <3>2. Len(delivered) = Len(sent)
      BY <2>1, <2>2, <3>1 DEF Held
    <3>3. delivered = sent
      BY <2>1, <3>2, SameBytes DEF StreamInv
    <3>4. QED
      BY <3>1, <3>3
  <2>5. QED
    BY <2>3, <2>4 DEF StreamInv
<1>2. QED
  BY <1>1, StreamInvHolds, PTL

----------------------------------------------------------------------------
(* The call of fgetc that ends a read delivers the next byte, and not before *)
(* its successor or the end is known.                                        *)
LEMMA FgetcGets ==
    ASSUME StreamInv, Fgetc
    PROVE  Stream!Get \/ UNCHANGED Stream!streamVars
<1>1. /\ Answer /\ rx_file' = rx_file /\ sent' = sent /\ call # "none" /\ closed' = closed
  BY DEF Fgetc, FgetcByte, FgetcEof
<1>2. CASE call = "read"
  <2>1. /\ sent \in Seq(Letter) /\ Len(delivered) \in Nat /\ taken \in 0 .. Len(sent)
        /\ ~rx_ready
    BY <1>1 DEF StreamInv, UartTypeOK
  <2>2. taken = Len(delivered) + 1 /\ val = sent[Len(delivered) + 1]
    BY <1>2, <2>1 DEF StreamInv, InHand, Held
  <2>3. delivered' = Append(delivered, sent[Len(delivered) + 1])
    BY <1>1, <1>2, <2>2 DEF Answer
  <2>4. Len(delivered) < Len(sent)
    BY <2>1, <2>2
  <2>5. rx_file = "blocking" => ~(Len(delivered) + 1 = Len(sent) /\ ~closed)
    BY <2>1, <2>2 DEF Fgetc, FgetcByte, FgetcEof
  <2>6. QED
    BY <1>1, <2>3, <2>4, <2>5 DEF Stream!Get, Stream!LastSoFar
<1>3. CASE call # "read"
  BY <1>1, <1>3 DEF Answer, Stream!streamVars
<1>4. QED
  BY <1>2, <1>3

(* uart.c's receiver implements the byte stream: no byte is lost, doubled,   *)
(* reordered or made up, whoever reads and whatever DLAB is.                 *)
THEOREM StreamRefined == UartSpec => ReceivesStream
<1>1. UartInit => Stream!Init
  BY DEF UartInit, Stream!Init
<1>2. StreamInv /\ [UartNext]_uartVars => [Stream!Next]_(Stream!streamVars)
  <2> SUFFICES ASSUME StreamInv, [UartNext]_uartVars
               PROVE  [Stream!Next]_(Stream!streamVars)
    OBVIOUS
  <2>1. CASE PeerSends
    BY <2>1 DEF PeerSends, Stream!Put, Stream!Next
  <2>2. CASE PeerCloses
    BY <2>2 DEF PeerCloses, Stream!Close, Stream!Next
  <2>3. CASE Fgetc
    BY <2>3, FgetcGets DEF Stream!Next
  <2>4. CASE ReadRbr
    BY <2>4 DEF ReadRbr, Stream!streamVars
  <2>5. CASE WriteReg
    BY <2>5 DEF WriteReg, Stream!streamVars
  <2>6. CASE UNCHANGED uartVars
    BY <2>6 DEF uartVars, Stream!streamVars
  <2>7. QED
    BY <2>1, <2>2, <2>3, <2>4, <2>5, <2>6 DEF UartNext
<1>3. QED
  BY <1>1, <1>2, StreamInvHolds, PTL DEF UartSpec, ReceivesStream, Stream!Spec
=============================================================================
