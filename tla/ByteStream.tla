----------------------------- MODULE ByteStream -----------------------------
(***************************************************************************)
(* What the receiver of the UART promises its guest: the bytes the peer    *)
(* writes arrive in order, each exactly once.  A read that waits for its   *)
(* successor completes only when the next byte, or the end of the stream,  *)
(* is known.                                                               *)
(***************************************************************************)
EXTENDS Sequences, Integers

CONSTANTS
    Letter,            \* the bytes a peer may send
    MaxSent            \* bound on the number of bytes sent

VARIABLES
    sent,              \* everything the peer has written so far
    closed,            \* the peer has closed its end
    delivered,         \* everything the guest has read so far
    waits              \* a read waits for what follows its byte

streamVars == <<sent, closed, delivered, waits>>

Init == /\ sent = <<>> /\ delivered = <<>>
        /\ closed = FALSE
        /\ waits \in BOOLEAN

Put == /\ ~closed /\ Len(sent) < MaxSent
       /\ \E b \in Letter : sent' = Append(sent, b)
       /\ UNCHANGED <<closed, delivered, waits>>

Close == /\ ~closed
         /\ closed' = TRUE
         /\ UNCHANGED <<sent, delivered, waits>>

(* The reader is in line with the writer: nothing follows the next byte yet, *)
(* and something may.                                                        *)
LastSoFar == Len(delivered) + 1 = Len(sent) /\ ~closed

Get == /\ Len(delivered) < Len(sent)
       /\ waits => ~LastSoFar
       /\ delivered' = Append(delivered, sent[Len(delivered) + 1])
       /\ UNCHANGED <<sent, closed, waits>>

Next == Put \/ Close \/ Get

Spec == Init /\ [][Next]_streamVars
=============================================================================
