------------------------------- MODULE MCUart -------------------------------
(* Model-checking instance of Uart: the guest sets and clears DLAB, writes   *)
(* the divisor latch, IER and THR, and the peer sends up to four bytes.     *)
EXTENDS Uart

MCWrites == {<<3, 0>>, <<3, 8>>, <<0, 5>>, <<1, 8>>}
=============================================================================
